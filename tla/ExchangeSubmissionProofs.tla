----------------------- MODULE ExchangeSubmissionProofs -----------------------
(***************************************************************************)
(* That an order is sent to an exchange once, for any ids, payloads,       *)
(* nonces, clocks and crashes: proofs about ExchangeSubmission.            *)
(***************************************************************************)
EXTENDS ExchangeSubmission, WellFoundedInduction, SequenceTheorems, TLAPS

-----------------------------------------------------------------------------
(* The inductive invariant.                                                *)

Kraken == Callers \ CoinbaseIds

\* A call that is under way is about the order on record; only Kraken's look up.
CallFits(c) ==
  /\ call[c].at \in Resting => call[c].ticket = None
  /\ c \in Ids /\ call[c].at \notin Resting =>
       record[c].payload \in Payloads /\ call[c].payload = record[c].payload
  /\ c \in CoinbaseIds => call[c].at \notin {"open", "closed"}
  /\ c = Auditor => call[c].at # "add"

\* So is a request, whoever still waits for it.
RequestFits(m) ==
  /\ m.from \in CoinbaseIds => m.kind = "add"
  /\ m.kind = "add" => /\ m.from \in Ids
                       /\ m.payload \in Payloads
                       /\ m.payload = record[m.from].payload

Fitting ==
  /\ \A c \in Callers : CallFits(c)
  /\ \A m \in wire : RequestFits(m)
  /\ \A n \in Numbers : orders[n].payload = record[orders[n].id].payload

\* Kraken's requests carry different nonces, none above the stored one, and the one
\* that is awaited carries the stored one.
Numbered ==
  /\ last <= nonce
  /\ \A m \in wire : m.from \in Kraken => m.ticket <= nonce
  /\ \A m, k \in wire : m.from \in Kraken /\ k.from \in Kraken /\ m.ticket = k.ticket => m = k
  /\ \A c \in Kraken : call[c].ticket # None => lock = c /\ call[c].ticket = nonce
  /\ \A m \in wire : m.from \in Kraken /\ Answers(m) => m.kind = call[m.from].at

\* What may still become, and what became, an order with this id.
MayArrive(id) == {m \in wire : m.from = id /\ m.kind = "add" /\ m.ticket > last}

Placed(id) == {n \in Numbers : orders[n].id = id}

Nothing(id) == MayArrive(id) = {} /\ Placed(id) = {}

\* A request that may still arrive is the only one and there is no order yet.  What a
\* call knows from its lookups: between the lists, that an order is not open and that
\* none is on its way; after both, and before the first AddOrder, that there is none;
\* once AddOrder was answered with an error, that no request is on its way.
LookupHolds(id) ==
  /\ \A m, k \in MayArrive(id) : m = k
  /\ Placed(id) # {} => MayArrive(id) = {}
  /\ record[id] = NoRecord => Nothing(id)
  /\ call[id].at = "add" /\ call[id].ticket = None => Nothing(id)
  /\ call[id].at = "closed" => MayArrive(id) = {} /\ \A n \in Placed(id) : ~orders[n].open
  /\ call[id].at = "refused" => Nothing(id)
  /\ call[id].failed /\ call[id].at # "add" => MayArrive(id) = {}

Lookups == \A id \in KrakenIds : LookupHolds(id)

\* What the auditor knows between the lists.
Audited ==
  /\ call[Auditor].due \subseteq KrakenOrders
  /\ call[Auditor].at = "closed" =>
       \A n \in call[Auditor].due : n \in call[Auditor].seen \/ ~orders[n].open
  /\ HistoryComplete

SubmissionInv ==
  ExchangeInv /\ Fitting /\ Numbered /\ Lookups /\ Audited /\ OneOrderPerId

-----------------------------------------------------------------------------
(* Numbers.                                                                *)

\* Of some naturals, one is the least.
LEMMA Least ==
  ASSUME NEW S \in SUBSET Nat, S # {}
  PROVE  \E x \in S : \A y \in S : x <= y
<1>1. PICK x \in S : \A y \in S : ~ (<<y, x>> \in OpToRel(<, Nat))
  BY NatLessThanWellFounded, WFMin
<1>2. ASSUME NEW y \in S PROVE x <= y
  <2>1. <<y, x>> \in Nat \X Nat /\ <<y, x>>[1] = y /\ <<y, x>>[2] = x
    OBVIOUS
  <2>2. ~ (<<y, x>>[1] < <<y, x>>[2])
    BY <1>1, <2>1, Zenon DEF OpToRel
  <2> QED
    BY <2>1, <2>2
<1> QED
  BY <1>2

\* Of some naturals below a bound, Max is one of them and the greatest.
LEMMA Greatest ==
  ASSUME NEW S \in SUBSET Nat, S # {}, NEW bound \in Nat, \A x \in S : x <= bound
  PROVE  Max(S) \in S /\ \A y \in S : y <= Max(S)
<1> DEFINE Gaps == {bound - x : x \in S}
<1>1. Gaps \in SUBSET Nat /\ Gaps # {}
  <2>1. ASSUME NEW x \in S PROVE bound - x \in Nat
    OBVIOUS
  <2> QED
    BY <2>1
<1>2. PICK g \in Gaps : \A h \in Gaps : g <= h
  <2> HIDE DEF Gaps
  <2> QED
    BY <1>1, Least
<1>3. PICK x \in S : g = bound - x
  BY <1>2
<1>4. \A y \in S : x >= y
  BY <1>2, <1>3
<1>5. Max(S) \in S /\ \A y \in S : Max(S) >= y
  BY <1>3, <1>4 DEF Max
<1> QED
  BY <1>5

\* The next nonce is above every nonce before.
LEMMA NonceGrows ==
  ASSUME NEW now \in Clock, nonce \in Nat
  PROVE  NextNonce(now) \in Nat /\ NextNonce(now) > nonce
<1>1. now \in Nat
  BY CallersAssumption
<1>2. {nonce + 1, now, 1} \in SUBSET Nat /\ \A x \in {nonce + 1, now, 1} : x <= nonce + now + 1
  BY <1>1
<1>3. nonce + 1 <= Max({nonce + 1, now, 1}) /\ Max({nonce + 1, now, 1}) \in {nonce + 1, now, 1}
  BY <1>1, <1>2, Greatest
<1> QED
  BY <1>1, <1>3 DEF NextNonce

\* What Kraken remembers of two nonces is the higher one.
LEMMA HigherOfTwo ==
  ASSUME NEW a \in Nat, NEW b \in Nat
  PROVE  Max({a, b}) \in {a, b} /\ a <= Max({a, b}) /\ b <= Max({a, b})
<1>1. {a, b} \in SUBSET Nat /\ \A x \in {a, b} : x <= a + b
  OBVIOUS
<1> QED
  BY <1>1, Greatest

\* An attempt at Coinbase has a number of its own.
LEMMA AttemptIsNatural ==
  ASSUME TypeOK
  PROVE  Max({m.ticket : m \in wire} \cup {0}) + 1 \in Nat \ {0}
<1>1. {m.ticket : m \in wire} \cup {0} \in SUBSET Nat
  BY DEF TypeOK
<1>2. MaxNonce \in Nat /\ \A x \in {m.ticket : m \in wire} \cup {0} : x <= MaxNonce
  BY CallersAssumption DEF TypeOK
<1>3. Max({m.ticket : m \in wire} \cup {0}) \in {m.ticket : m \in wire} \cup {0}
  BY <1>1, <1>2, Greatest
<1> QED
  BY <1>1, <1>3
-----------------------------------------------------------------------------
(* What a step may do.                                                     *)

CallRecord(numbers) ==
  [at: Resting \cup {"open", "closed", "add"}, payload: Payloads \cup {None},
   ticket: 1..MaxNonce \cup {None}, failed: BOOLEAN,
   due: SUBSET numbers, seen: SUBSET numbers]

Order == [id: Ids, payload: Payloads, open: BOOLEAN]

\* None is no name and no number.
LEMMA NoneIsNothing ==
  None \notin Callers /\ None \notin Payloads /\ None \notin Nat
BY CallersAssumption

\* Orders are numbered from 1, and each has an id and a payload.
LEMMA OrdersTyped ==
  ASSUME TypeOK
  PROVE  /\ orders \in Seq(Order) /\ Len(orders) \in Nat /\ Numbers = 1..Len(orders)
         /\ \A n \in Numbers : orders[n] \in Order /\ orders[n].id \in Ids /\ n \in Nat
<1>1. orders \in Seq(Order) /\ Len(orders) \in Nat /\ Numbers = 1..Len(orders)
  BY DEF TypeOK, Order, Numbers
<1>2. \A n \in Numbers : orders[n] \in Order
  BY <1>1, ElementOfSeq
<1> QED
  BY <1>1, <1>2 DEF Order

\* The orders an exchange has are never taken back, and stay what they are.
BooksKeep ==
  /\ orders' \in Seq(Order)
  /\ Numbers \subseteq Numbers'
  /\ \A n \in Numbers : /\ orders'[n].id = orders[n].id
                        /\ orders'[n].payload = orders[n].payload
                        /\ orders'[n].open => orders[n].open

\* A new one is that of a request.
BooksGain(m) ==
  /\ m.kind = "add" /\ m.from \in Ids
  /\ orders' = Append(orders, NewOrder(m))
  /\ Numbers' = Numbers \cup {Len(orders) + 1} /\ Len(orders) + 1 \notin Numbers
  /\ orders'[Len(orders) + 1] = NewOrder(m)

\* What a caller learns from Kraken's list, or from an error in its place.
Listing(c, kind) ==
  \/ /\ c = Auditor /\ record' = record
     /\ Leave(c, [call[c] EXCEPT !.at = IF kind = "open" THEN "closed" ELSE "listed",
                                 !.ticket = None, !.seen = @ \cup Section(kind)])
  \/ /\ c # Auditor
     /\ \E n \in Section(kind) : orders[n].id = c /\ Accepted(c, n)
  \/ /\ c # Auditor /\ \A n \in Section(kind) : orders[n].id # c
     /\ \/ kind = "open" /\ Proceed(c, "closed", call[c].failed)
        \/ kind = "closed" /\ call[c].failed /\ Leave(c, Idle("refused")) /\ record' = record
        \/ kind = "closed" /\ ~call[c].failed /\ Proceed(c, "add", FALSE)
  \/ LookupFailed(c)

\* A list comes from the section asked for; an auditor that finds is no submission.
LEMMA ListedIsListing ==
  ASSUME NEW c \in Callers, NEW kind \in {"open", "closed"}, call[c].at = kind,
         c # Auditor \/ \A n \in Numbers : orders[n].id # Auditor,
         Listed(c, Section(kind))
  PROVE  Listing(c, kind)
<1>1. Section(kind) \subseteq Numbers
  BY DEF Section, KrakenOrders, Numbers
<1>2. First(c) = "open" /\ Other("open") = "closed" /\ Other("closed") = "open"
  BY DEF First, HistoryFirst, FindFirst, Other
<1> QED
  BY <1>1, <1>2 DEF Listed, Listing

\* What comes of a request that arrives at Kraken.  One that is awaited is in order.
KrakenDoes(m) ==
  /\ m.from \in Kraken
  /\ wire' = wire \ {m} /\ nonce' = nonce
  /\ last' \in Nat /\ last' \in {last, m.ticket} /\ last <= last' /\ m.ticket <= last'
  /\ \/ orders' = orders /\ Unheard
     \/ /\ orders' = orders \/ BooksGain(m)
        /\ Answers(m) /\ m.kind = "add" /\ m.ticket > last /\ AddFailed(m.from)
     \/ /\ orders' = orders /\ Answers(m) /\ m.ticket > last
        /\ m.kind \in {"open", "closed"} /\ m.kind = call[m.from].at
        /\ Listing(m.from, m.kind)
     \/ /\ BooksGain(m) /\ m.ticket > last
        /\ Unheard \/ (Answers(m) /\ Accepted(m.from, Len(orders) + 1))

\* An accepted request is a new order at the end.
LEMMA Appended ==
  ASSUME TypeOK, NEW m \in wire, RequestFits(m), m.kind = "add",
         orders' = Append(orders, NewOrder(m))
  PROVE  BooksGain(m) /\ BooksKeep
<1>1. m.from \in Ids /\ m.payload \in Payloads /\ NewOrder(m) \in Order
  BY DEF RequestFits, NewOrder, Order
<1>2. orders \in Seq(Order) /\ Len(orders) \in Nat /\ Numbers = 1..Len(orders)
  BY OrdersTyped
<1>3. /\ orders' \in Seq(Order) /\ Len(orders') = Len(orders) + 1
      /\ \A i \in 1..Len(orders) : orders'[i] = orders[i]
      /\ orders'[Len(orders) + 1] = NewOrder(m)
  BY <1>1, <1>2, AppendProperties
<1>4. Numbers' = 1..(Len(orders) + 1)
  BY <1>3 DEF Numbers
<1> QED
  BY <1>1, <1>2, <1>3, <1>4 DEF BooksGain, BooksKeep

\* A request that is awaited is never refused for its nonce.
LEMMA KrakenOutcomes ==
  ASSUME SubmissionInv, NEW m \in wire, KrakenReceives(m)
  PROVE  KrakenDoes(m) /\ BooksKeep
<1>1. /\ TypeOK /\ RequestFits(m) /\ m.from \in Callers /\ m.ticket \in Nat \ {0} /\ last \in Nat
      /\ m.kind \in {"open", "closed", "add"} /\ m.from \in Kraken
  BY DEF SubmissionInv, ExchangeInv, TypeOK, Fitting, KrakenReceives, Kraken
<1>2. Answers(m) => m.kind = call[m.from].at /\ m.ticket > last
  BY <1>1 DEF SubmissionInv, ExchangeInv, Numbered, AwaitedInOrder, Kraken
<1>3. last' \in Nat /\ last' \in {last, m.ticket} /\ last <= last' /\ m.ticket <= last'
  <2>1. last' = Max({last, m.ticket})
    BY DEF KrakenReceives
  <2> QED
    BY <1>1, <2>1, HigherOfTwo
<1>4. m.from # Auditor \/ \A n \in Numbers : orders[n].id # Auditor
  BY <1>1, OrdersTyped, CallersAssumption
<1>5. ASSUME Answers(m), m.kind # "add", Listed(m.from, Section(m.kind))
      PROVE  Listing(m.from, m.kind)
  BY <1>1, <1>2, <1>4, <1>5, ListedIsListing
<1>6. ASSUME m.kind = "add", orders' = Append(orders, NewOrder(m))
      PROVE  BooksGain(m) /\ BooksKeep
  BY <1>1, <1>6, Appended
<1>7. orders' = orders => BooksKeep
  BY <1>1 DEF BooksKeep, TypeOK, Order, Numbers
<1>8. wire' = wire \ {m} /\ nonce' = nonce
  BY DEF KrakenReceives
<1> QED
  <2>1. CASE m.kind = "add"
    BY <1>1, <1>2, <1>3, <1>6, <1>7, <1>8, <2>1 DEF KrakenDoes, KrakenReceives
  <2>2. CASE m.kind # "add"
    <3>1. orders' = orders /\ BooksKeep
      BY <1>7, <2>2 DEF KrakenReceives
    <3>2. Unheard \/ (Answers(m) /\ Listing(m.from, m.kind))
      BY <1>5, <2>2 DEF KrakenReceives, Listing
    <3> QED
      BY <1>1, <1>2, <1>3, <1>8, <2>2, <3>1, <3>2 DEF KrakenDoes
  <2> QED
    BY <2>1, <2>2

\* What comes of one that arrives at Coinbase.
CoinbaseDoes(m) ==
  /\ m.from \in CoinbaseIds
  /\ wire' = wire \ {m} /\ nonce' = nonce /\ last' = last
  /\ \/ orders' = orders /\ Unheard
     \/ orders' = orders /\ \E n \in Placed(m.from) : Accepted(m.from, n)
     \/ orders' = orders /\ Leave(m.from, Idle("refused")) /\ record' = record
     \/ /\ BooksGain(m) /\ Placed(m.from) = {}
        /\ Unheard \/ Accepted(m.from, Len(orders) + 1)

\* At Coinbase an id that has an order gets no other.
LEMMA CoinbaseOutcomes ==
  ASSUME SubmissionInv, NEW m \in wire, CoinbaseReceives(m)
  PROVE  CoinbaseDoes(m) /\ BooksKeep
<1>1. TypeOK /\ RequestFits(m) /\ m.from \in CoinbaseIds /\ m.kind = "add"
  BY DEF SubmissionInv, ExchangeInv, Fitting, RequestFits, CoinbaseReceives
<1>2. ASSUME orders' = Append(orders, NewOrder(m)) PROVE BooksGain(m) /\ BooksKeep
  BY <1>1, <1>2, Appended
<1>3. orders' = orders => BooksKeep
  BY <1>1 DEF BooksKeep, TypeOK, Order, Numbers
<1> QED
  BY <1>1, <1>2, <1>3 DEF CoinbaseDoes, CoinbaseReceives, Placed, Numbers
-----------------------------------------------------------------------------
(* Types.                                                                  *)

RecordRange(numbers) == [payload: Payloads \cup {None}, order: numbers \cup {None}]

RequestRange ==
  [from: Callers, kind: {"open", "closed", "add"},
   payload: Payloads \cup {None}, ticket: 1..MaxNonce]

\* The parts of TypeOK a call touches, over the numbers there are.
CallsTyped ==
  /\ record \in [Ids -> RecordRange(Numbers)]
  /\ call \in [Callers -> CallRecord(Numbers)]
  /\ lock \in Callers \cup {None}

\* TypeOK by its parts, in a state
LEMMA TypeParts ==
  TypeOK <=> /\ active \in Workloads
             /\ nonce \in 0..MaxNonce /\ last \in 0..MaxNonce /\ crashes \in 0..MaxCrashes
             /\ wire \subseteq RequestRange
             /\ orders \in Seq(Order)
             /\ CallsTyped
BY DEF TypeOK, CallsTyped, RecordRange, CallRecord, RequestRange, Order

\* and in the next.
LEMMA NextParts ==
  TypeOK' <=> /\ active' \in Workloads
              /\ nonce' \in 0..MaxNonce /\ last' \in 0..MaxNonce /\ crashes' \in 0..MaxCrashes
              /\ wire' \subseteq RequestRange
              /\ orders' \in Seq(Order)
              /\ CallsTyped'
BY DEF TypeOK, CallsTyped, RecordRange, CallRecord, RequestRange, Order

\* What has its type keeps it when there are more orders.
LEMMA MoreNumbers ==
  ASSUME NEW small, NEW large, small \subseteq large
  PROVE  CallRecord(small) \subseteq CallRecord(large)
         /\ RecordRange(small) \subseteq RecordRange(large)
BY DEF CallRecord, RecordRange

\* A fresh call has its type.
LEMMA IdleTyped ==
  ASSUME NEW numbers, NEW at \in Resting \cup {"open", "closed", "add"}
  PROVE  Idle(at) \in CallRecord(numbers)
BY DEF Idle, CallRecord

\* A call that leaves, and one whose number is put on record.
LEMMA LeaveTyped ==
  ASSUME CallsTyped, Numbers \subseteq Numbers', record' = record,
         NEW c \in Callers, NEW k \in CallRecord(Numbers), Leave(c, k)
  PROVE  CallsTyped'
<1>1. call \in [Callers -> CallRecord(Numbers')] /\ k \in CallRecord(Numbers')
      /\ record \in [Ids -> RecordRange(Numbers')]
  BY MoreNumbers DEF CallsTyped
<1> QED
  BY <1>1 DEF CallsTyped, Leave, CallRecord, RecordRange

\* An acknowledged call leaves its number on record.
LEMMA AcceptedTyped ==
  ASSUME CallsTyped, Numbers \subseteq Numbers',
         NEW id \in Ids, NEW n \in Numbers', Accepted(id, n)
  PROVE  CallsTyped'
<1>1. call \in [Callers -> CallRecord(Numbers')] /\ record \in [Ids -> RecordRange(Numbers')]
  BY MoreNumbers DEF CallsTyped
<1>2. Idle("idle") \in CallRecord(Numbers')
  BY IdleTyped DEF Resting
<1>3. [record[id] EXCEPT !.order = n] \in RecordRange(Numbers')
  BY <1>1 DEF RecordRange
<1>4. record' = [record EXCEPT ![id] = [record[id] EXCEPT !.order = n]]
  BY <1>1 DEF Accepted, RecordRange
<1> QED
  BY <1>1, <1>2, <1>3, <1>4 DEF CallsTyped, Accepted, Leave, CallRecord, RecordRange, Ids, Callers

\* An answer nobody hears changes no call.
LEMMA UnheardTyped ==
  ASSUME CallsTyped, Numbers \subseteq Numbers', Unheard
  PROVE  CallsTyped'
<1>1. call \in [Callers -> CallRecord(Numbers')] /\ record \in [Ids -> RecordRange(Numbers')]
  BY MoreNumbers DEF CallsTyped
<1> QED
  BY <1>1 DEF CallsTyped, Unheard, CallRecord, RecordRange

\* Calls keep their type over a list.
LEMMA ListingTyped ==
  ASSUME TypeOK, Numbers' = Numbers, NEW c \in Kraken, NEW kind \in {"open", "closed"},
         Listing(c, kind)
  PROVE  CallsTyped'
<1>1. CallsTyped /\ call[c] \in CallRecord(Numbers) /\ c \in Callers /\ Numbers \subseteq Numbers'
  BY TypeParts DEF CallsTyped, Kraken
<1>2. Section(kind) \subseteq Numbers
  BY DEF Section, KrakenOrders, Numbers
<1>3. CASE c = Auditor /\ record' = record /\ ~LookupFailed(c)
  <2>1. [call[c] EXCEPT !.at = IF kind = "open" THEN "closed" ELSE "listed",
                        !.ticket = None, !.seen = @ \cup Section(kind)] \in CallRecord(Numbers)
    BY <1>1, <1>2 DEF CallRecord, Resting
  <2> QED
    BY <1>1, <1>3, <2>1, LeaveTyped DEF Listing
<1>4. ASSUME c # Auditor, NEW n \in Section(kind), Accepted(c, n) PROVE CallsTyped'
  BY <1>1, <1>2, <1>4, AcceptedTyped DEF Callers
<1>5. ASSUME NEW next \in {"closed", "add"}, NEW failed \in BOOLEAN, Proceed(c, next, failed)
      PROVE  CallsTyped'
  <2>1. [call[c] EXCEPT !.at = next, !.ticket = None, !.failed = failed] \in CallRecord(Numbers)
    BY <1>1 DEF CallRecord
  <2> QED
    BY <1>1, <1>5, <2>1, LeaveTyped DEF Proceed
<1>6. CASE record' = record /\ Leave(c, Idle("refused"))
  BY <1>1, <1>6, LeaveTyped, IdleTyped DEF Resting
<1>7. CASE LookupFailed(c)
  BY <1>1, <1>7, LeaveTyped, IdleTyped DEF LookupFailed, Resting
<1>8. call[c].failed \in BOOLEAN
  BY <1>1 DEF CallRecord
<1> QED
  BY <1>3, <1>4, <1>5, <1>6, <1>7, <1>8 DEF Listing

\* Every step of a call that sends nothing leaves the exchange alone.
LEMMA BooksStep ==
  ASSUME SubmissionInv, [Next]_vars
  PROVE  BooksKeep
<1>1. CASE orders' = orders
  <2>1. TypeOK
    BY DEF SubmissionInv, ExchangeInv
  <2> QED
    BY <1>1, <2>1, OrdersTyped DEF BooksKeep, Numbers
<1>2. ASSUME NEW n \in Numbers, Close(n) PROVE BooksKeep
  <2>1. /\ orders \in Seq(Order) /\ \A k \in Numbers : orders[k] \in Order
        /\ Numbers = 1..Len(orders) /\ Len(orders) \in Nat
    BY OrdersTyped DEF SubmissionInv, ExchangeInv
  <2>2. [orders[n] EXCEPT !.open = FALSE] \in Order
    BY <2>1 DEF Order
  <2>3. PICK o \in Order : o = [orders[n] EXCEPT !.open = FALSE]
    BY <2>2
  <2>4. orders' = [orders EXCEPT ![n] = o]
    BY <1>2, <2>1, <2>3 DEF Close, Order
  <2>5. /\ orders' \in Seq(Order) /\ Len(orders') = Len(orders)
        /\ \A k \in 1..Len(orders) : orders'[k] = IF k = n THEN o ELSE orders[k]
    BY <2>1, <2>4, ExceptSeq
  <2>6. Numbers' = Numbers
    BY <2>1, <2>5 DEF Numbers
  <2>7. o.id = orders[n].id /\ o.payload = orders[n].payload /\ ~o.open
    BY <2>1, <2>3 DEF Order
  <2> QED
    BY <2>1, <2>5, <2>6, <2>7 DEF BooksKeep
<1> QED
  BY <1>1, <1>2, KrakenOutcomes, CoinbaseOutcomes
  DEF Next, Submit, History, Private, Post, Timeout, Crash, Numbers, vars

\* A step keeps the types.
LEMMA TypeStep ==
  ASSUME SubmissionInv, [Next]_vars
  PROVE  TypeOK'
<1>1. /\ active \in Workloads
      /\ nonce \in 0..MaxNonce /\ last \in 0..MaxNonce /\ crashes \in 0..MaxCrashes
      /\ wire \subseteq RequestRange /\ CallsTyped /\ TypeOK
  BY TypeParts DEF SubmissionInv, ExchangeInv
<1>2. orders' \in Seq(Order) /\ Numbers \subseteq Numbers'
  BY BooksStep DEF BooksKeep
<1>3. MaxNonce \in Nat /\ MaxCrashes \in Nat /\ None \notin Nat
  BY CallersAssumption
<1>4. \A c \in Callers : call[c] \in CallRecord(Numbers)
  BY <1>1 DEF CallsTyped
<1>5. CASE UNCHANGED vars
  BY <1>1, <1>2, <1>5, NextParts DEF vars, CallsTyped, Numbers, CallRecord, RecordRange
<1>6. ASSUME NEW id \in Ids, NEW p \in Payloads, Submit(id, p) PROVE TypeOK'
  <2>1. PICK at \in {"open", "add"} :
          call' = [call EXCEPT ![id] = [Idle(at) EXCEPT !.payload = p]]
    BY <1>6 DEF Submit, FindFirst
  <2>2. [Idle(at) EXCEPT !.payload = p] \in CallRecord(Numbers)
    BY DEF Idle, CallRecord
  <2>3. call' \in [Callers -> CallRecord(Numbers)]
    BY <1>1, <2>1, <2>2 DEF CallsTyped
  <2>4. record' \in [Ids -> RecordRange(Numbers)]
    BY <1>1, <1>6 DEF Submit, CallsTyped, RecordRange
  <2>5. Numbers' = Numbers
    BY <1>6 DEF Submit, Numbers
  <2> QED
    BY <1>1, <1>2, <1>6, <2>3, <2>4, <2>5, NextParts DEF Submit, CallsTyped
<1>7. CASE History
  <2>1. KrakenOrders \subseteq Numbers
    BY DEF KrakenOrders, Numbers
  <2>2. [Idle("open") EXCEPT !.due = KrakenOrders] \in CallRecord(Numbers)
    BY <2>1 DEF Idle, CallRecord
  <2>3. call' \in [Callers -> CallRecord(Numbers)]
    BY <1>1, <1>7, <2>2 DEF History, HistoryFirst, CallsTyped
  <2>4. Numbers' = Numbers
    BY <1>7 DEF History, Numbers
  <2> QED
    BY <1>1, <1>2, <1>7, <2>3, <2>4, NextParts DEF History, CallsTyped
<1>8. ASSUME NEW c \in Callers, Waiting(c), NEW ticket \in 1..MaxNonce
      PROVE  /\ [call[c] EXCEPT !.ticket = ticket] \in CallRecord(Numbers)
             /\ Request(c, ticket) \in RequestRange
  BY <1>4, <1>8 DEF Waiting, Request, CallRecord, RequestRange, Resting
<1>9. ASSUME NEW c \in Callers, Private(c) PROVE TypeOK'
  <2>1. UNCHANGED <<active, record, orders, last, crashes>> /\ Waiting(c) /\ Numbers' = Numbers
    BY <1>9 DEF Private, Numbers
  <2>2. CASE UNCHANGED <<nonce, lock, wire>> /\ call' = [call EXCEPT ![c] = Idle("idle")]
    <3>1. call' \in [Callers -> CallRecord(Numbers)]
      BY <1>1, <2>2, IdleTyped DEF CallsTyped, Resting
    <3> QED
      BY <1>1, <1>2, <2>1, <2>2, <3>1, NextParts DEF CallsTyped
  <2>3. ASSUME NEW ticket \in 1..MaxNonce, nonce' = ticket, lock' = c,
               wire' = wire \cup {Request(c, ticket)},
               call' = [call EXCEPT ![c] = [call[c] EXCEPT !.ticket = ticket]]
        PROVE  TypeOK'
    <3>1. call' \in [Callers -> CallRecord(Numbers)] /\ wire' \subseteq RequestRange
      BY <1>1, <1>8, <2>1, <2>3 DEF CallsTyped
    <3>2. nonce' \in 0..MaxNonce
      BY <1>3, <2>3
    <3> QED
      BY <1>1, <1>2, <2>1, <2>3, <3>1, <3>2, NextParts DEF CallsTyped
  <2>4. ASSUME NEW now \in Clock, NextNonce(now) <= MaxNonce PROVE NextNonce(now) \in 1..MaxNonce
    BY <1>1, <1>3, <2>4, NonceGrows
  <2>5. \/ UNCHANGED <<nonce, lock, wire>> /\ call' = [call EXCEPT ![c] = Idle("idle")]
        \/ \E ticket \in 1..MaxNonce :
             /\ nonce' = ticket /\ lock' = c /\ wire' = wire \cup {Request(c, ticket)}
             /\ call' = [call EXCEPT ![c] = [call[c] EXCEPT !.ticket = ticket]]
    BY <1>1, <1>9, <2>4 DEF Private, CallsTyped
  <2> QED
    BY <2>2, <2>3, <2>5
<1>10. ASSUME NEW c \in Callers, Post(c) PROVE TypeOK'
  <2>0. PICK ticket : /\ ticket = Max({m.ticket : m \in wire} \cup {0}) + 1 /\ ticket <= MaxNonce
                      /\ wire' = wire \cup {Request(c, ticket)}
                      /\ call' = [call EXCEPT ![c].ticket = ticket]
    BY <1>10 DEF Post
  <2>1. /\ ticket \in 1..MaxNonce
        /\ wire' = wire \cup {Request(c, ticket)}
        /\ call' = [call EXCEPT ![c] = [call[c] EXCEPT !.ticket = ticket]]
    BY <1>1, <1>3, <2>0, AttemptIsNatural DEF CallsTyped
  <2>2. call' \in [Callers -> CallRecord(Numbers)] /\ wire' \subseteq RequestRange
    BY <1>1, <1>8, <1>10, <2>1 DEF CallsTyped, Post
  <2>3. Numbers' = Numbers
    BY <1>10 DEF Post, Numbers
  <2> QED
    BY <1>1, <1>2, <1>10, <2>2, <2>3, NextParts DEF Post, CallsTyped
<1>11. ASSUME NEW c \in Callers, Timeout(c) PROVE TypeOK'
  <2>1. CallsTyped'
    BY <1>1, <1>2, <1>11, LeaveTyped, IdleTyped DEF Timeout, Resting
  <2> QED
    BY <1>1, <1>2, <1>11, <2>1, NextParts DEF Timeout
<1>12. ASSUME NEW m \in wire, KrakenReceives(m) PROVE TypeOK'
  <2>1. KrakenDoes(m) /\ UNCHANGED <<active, nonce, crashes>> /\ wire' \subseteq wire
    BY <1>12, KrakenOutcomes DEF KrakenReceives
  <2>2. m.from \in Kraken /\ m.from \in Callers /\ m.ticket \in 1..MaxNonce
    BY <1>1, <2>1 DEF KrakenDoes, RequestRange
  <2>3. last' \in 0..MaxNonce
    BY <1>1, <1>3, <2>1, <2>2 DEF KrakenDoes
  <2>4. ASSUME Unheard PROVE CallsTyped'
    BY <1>1, <1>2, <2>4, UnheardTyped
  <2>5. ASSUME AddFailed(m.from) PROVE CallsTyped'
    <3>1. [call[m.from] EXCEPT !.at = "open", !.ticket = None, !.failed = TRUE]
            \in CallRecord(Numbers)
      <4>1. call[m.from] \in CallRecord(Numbers)
        BY ONLY <1>4, <2>2
      <4> QED
        BY ONLY <4>1 DEF CallRecord
    <3> QED
      BY <1>1, <1>2, <2>2, <2>5, <3>1, LeaveTyped DEF AddFailed, Proceed, FindFirst
  <2>6. ASSUME orders' = orders, m.kind \in {"open", "closed"}, Listing(m.from, m.kind)
        PROVE  CallsTyped'
    BY <1>1, <2>2, <2>6, ListingTyped DEF Numbers
  <2>7. ASSUME BooksGain(m) /\ Accepted(m.from, Len(orders) + 1) PROVE CallsTyped'
    BY <1>1, <1>2, <2>7, AcceptedTyped DEF BooksGain
  <2>8. CallsTyped'
    BY <2>1, <2>4, <2>5, <2>6, <2>7 DEF KrakenDoes
  <2> QED
    BY <1>1, <1>2, <2>1, <2>3, <2>8, NextParts
<1>13. ASSUME NEW m \in wire, CoinbaseReceives(m) PROVE TypeOK'
  <2>1. CoinbaseDoes(m) /\ UNCHANGED <<active, nonce, last, crashes>> /\ wire' \subseteq wire
    BY <1>13, CoinbaseOutcomes DEF CoinbaseReceives
  <2>2. m.from \in Ids /\ m.from \in Callers
    BY <2>1 DEF CoinbaseDoes, Ids, Callers
  <2>3. ASSUME Unheard PROVE CallsTyped'
    BY <1>1, <1>2, <2>3, UnheardTyped
  <2>4. ASSUME NEW n \in Placed(m.from), Accepted(m.from, n) PROVE CallsTyped'
    BY <1>1, <1>2, <2>2, <2>4, AcceptedTyped DEF Placed
  <2>5. ASSUME Leave(m.from, Idle("refused")) /\ record' = record PROVE CallsTyped'
    BY <1>1, <1>2, <2>2, <2>5, LeaveTyped, IdleTyped DEF Resting
  <2>6. ASSUME BooksGain(m) /\ Accepted(m.from, Len(orders) + 1) PROVE CallsTyped'
    BY <1>1, <1>2, <2>6, AcceptedTyped DEF BooksGain
  <2>7. CallsTyped'
    BY <2>1, <2>3, <2>4, <2>5, <2>6 DEF CoinbaseDoes
  <2> QED
    BY <1>1, <1>2, <2>1, <2>7, NextParts
<1>14. ASSUME NEW n \in Numbers, Close(n) PROVE TypeOK'
  <2>1. call \in [Callers -> CallRecord(Numbers')] /\ record \in [Ids -> RecordRange(Numbers')]
    BY <1>1, <1>2, MoreNumbers DEF CallsTyped
  <2> QED
    BY <1>1, <1>2, <1>14, <2>1, NextParts DEF Close, CallsTyped, CallRecord, RecordRange
<1>15. CASE Crash
  <2>1. call' \in [Callers -> CallRecord(Numbers)]
    BY <1>15, IdleTyped DEF Crash, Resting
  <2>2. Numbers' = Numbers
    BY <1>15 DEF Crash, Numbers
  <2>3. crashes' \in 0..MaxCrashes
    BY <1>1, <1>3, <1>15 DEF Crash
  <2> QED
    BY <1>1, <1>2, <1>15, <2>1, <2>2, <2>3, NextParts DEF Crash, CallsTyped
<1> QED
  BY <1>5, <1>6, <1>7, <1>9, <1>10, <1>11, <1>12, <1>13, <1>14, <1>15 DEF Next, Numbers
-----------------------------------------------------------------------------
(* Calls, requests and orders are about the order on record.               *)

\* One caller leaves at a time,
LEMMA LeaveKeeps ==
  ASSUME TypeOK, NEW c \in Callers, NEW k, Leave(c, k)
  PROVE  \A d \in Callers : call'[d] = IF d = c THEN k ELSE call[d]
BY DEF TypeOK, Leave

\* also one that is acknowledged, and payloads on record stay.
LEMMA AcceptedKeeps ==
  ASSUME TypeOK, NEW id \in Ids, NEW n, Accepted(id, n)
  PROVE  /\ \A i \in Ids : /\ record'[i].payload = record[i].payload
                           /\ record'[i].order = IF i = id THEN n ELSE record[i].order
         /\ \A d \in Callers : call'[d] = IF d = id THEN Idle("idle") ELSE call[d]
<1>1. record \in [Ids -> RecordRange(Numbers)]
  BY TypeParts DEF CallsTyped
<1>2. \A d \in Callers : call'[d] = IF d = id THEN Idle("idle") ELSE call[d]
  BY LeaveKeeps DEF Accepted, Callers
<1>3. record' = [record EXCEPT ![id] = [record[id] EXCEPT !.order = n]]
  BY <1>1 DEF Accepted, RecordRange
<1> QED
  BY <1>1, <1>2, <1>3 DEF RecordRange

\* A call of Kraken's goes on with the answer to its request.
AnswerMoves(m) ==
  /\ KrakenDoes(m) /\ Answers(m) /\ m.ticket > last
  /\ \/ m.kind = "add" /\ AddFailed(m.from)
     \/ /\ m.kind \in {"open", "closed"} /\ m.kind = call[m.from].at /\ orders' = orders
        /\ Listing(m.from, m.kind)

\* What a step may do to a call and to the record of its id.
CallMoves(d) ==
  \/ call'[d] = call[d]
  \/ \E at \in {"idle", "refused"} : call'[d] = Idle(at)
  \/ d \in Ids /\ \E p \in Payloads : Submit(d, p)
  \/ d = Auditor /\ call'[d] = [Idle("open") EXCEPT !.due = KrakenOrders]
  \/ Waiting(d) /\ \E t : call'[d] = [call[d] EXCEPT !.ticket = t]
  \/ \E m \in wire : m.from = d /\ AnswerMoves(m)

RecordMoves(id) ==
  /\ record[id].payload \in Payloads => record'[id].payload = record[id].payload
  /\ \/ record'[id].order = record[id].order
     \/ \E n \in Numbers' : /\ record'[id].order = n
                            /\ orders'[n].id = id
                            /\ record'[id].payload = record[id].payload

\* An awaited call has sent something.
LEMMA AwaitedIsBusy ==
  ASSUME SubmissionInv, NEW m \in wire, Answers(m)
  PROVE  call[m.from].at \notin Resting /\ call[m.from].ticket # None
<1>1. m.from \in Callers /\ m.ticket # None
  BY NoneIsNothing DEF SubmissionInv, ExchangeInv, TypeOK
<1> QED
  BY <1>1 DEF SubmissionInv, Fitting, CallFits, Answers

\* That is all a step does to a call,
LEMMA CallStep ==
  ASSUME SubmissionInv, [Next]_vars, NEW d \in Callers
  PROVE  CallMoves(d)
<1>1. TypeOK /\ call \in [Callers -> CallRecord(Numbers)]
  BY TypeParts DEF SubmissionInv, ExchangeInv, CallsTyped
<1>2. CASE call'[d] = call[d]
  BY <1>2 DEF CallMoves
<1>3. ASSUME NEW c \in Callers, NEW at \in {"idle", "refused"}, Leave(c, Idle(at))
      PROVE  CallMoves(d)
  BY <1>1, <1>3, LeaveKeeps DEF CallMoves
<1>4. ASSUME NEW id \in Ids, NEW n, Accepted(id, n) PROVE CallMoves(d)
  BY <1>3, <1>4 DEF Accepted, Callers
<1>5. ASSUME NEW id \in Ids, NEW p \in Payloads, Submit(id, p) PROVE CallMoves(d)
  BY <1>1, <1>2, <1>5 DEF Submit, CallMoves
<1>6. ASSUME History PROVE CallMoves(d)
  BY <1>1, <1>2, <1>6 DEF History, HistoryFirst, CallMoves
<1>7. ASSUME NEW c \in Callers, Private(c) PROVE CallMoves(d)
  <2>1. CASE call' = [call EXCEPT ![c] = Idle("idle")]
    BY <1>1, <1>2, <2>1 DEF CallMoves
  <2>2. ASSUME NEW now \in Clock, call' = [call EXCEPT ![c].ticket = NextNonce(now)]
        PROVE  CallMoves(d)
    <3>1. call' = [call EXCEPT ![c] = [call[c] EXCEPT !.ticket = NextNonce(now)]]
      BY <1>1, <2>2
    <3> QED
      BY <1>1, <1>2, <1>7, <3>1 DEF CallMoves, Private
  <2> QED
    BY <1>7, <2>1, <2>2 DEF Private
<1>8. ASSUME NEW c \in Callers, Post(c) PROVE CallMoves(d)
  <2>1. PICK t : call' = [call EXCEPT ![c].ticket = t]
    BY <1>8 DEF Post
  <2>2. call' = [call EXCEPT ![c] = [call[c] EXCEPT !.ticket = t]]
    BY <1>1, <2>1
  <2>3. Waiting(c)
    BY <1>8 DEF Post
  <2>4. call'[d] = call[d] \/ (d = c /\ call'[d] = [call[d] EXCEPT !.ticket = t])
    <3>1. call \in [Callers -> CallRecord(Numbers)]
      BY <1>1
    <3> QED
      BY ONLY <3>1, <2>2, d \in Callers
  <2> QED
    BY ONLY <2>3, <2>4 DEF CallMoves
<1>9. ASSUME NEW m \in wire, KrakenReceives(m) PROVE CallMoves(d)
  <2>1. KrakenDoes(m) /\ m.from \in Callers
    BY <1>9, KrakenOutcomes DEF KrakenDoes, Kraken
  <2>2. CASE AnswerMoves(m)
    <3>1. \E k : Leave(m.from, k)
      BY <2>2 DEF AnswerMoves, AddFailed, LookupFailed, Listing, Proceed, Accepted
    <3>2. d # m.from => call'[d] = call[d]
      BY <1>1, <2>1, <3>1, LeaveKeeps
    <3> QED
      BY <1>2, <2>2, <3>2 DEF CallMoves
  <2>3. CASE Unheard
    BY <1>2, <2>3 DEF Unheard
  <2>4. ASSUME BooksGain(m), Accepted(m.from, Len(orders) + 1) PROVE CallMoves(d)
    BY <1>4, <2>4 DEF BooksGain
  <2> QED
    BY <2>1, <2>2, <2>3, <2>4 DEF KrakenDoes, AnswerMoves
<1>10. ASSUME NEW m \in wire, CoinbaseReceives(m) PROVE CallMoves(d)
  <2>1. CoinbaseDoes(m) /\ m.from \in Ids /\ m.from \in Callers
    BY <1>10, CoinbaseOutcomes DEF CoinbaseDoes, Ids, Callers
  <2>2. CASE Unheard
    BY <1>2, <2>2 DEF Unheard
  <2> QED
    BY <1>3, <1>4, <2>1, <2>2 DEF CoinbaseDoes
<1>11. CASE Crash
  BY <1>11 DEF Crash, CallMoves
<1> QED
  BY <1>2, <1>3, <1>5, <1>6, <1>7, <1>8, <1>9, <1>10, <1>11
  DEF Next, Timeout, Close, vars

\* and to a record.
LEMMA RecordStep ==
  ASSUME SubmissionInv, [Next]_vars, NEW id \in Ids
  PROVE  RecordMoves(id)
<1>1. TypeOK /\ record \in [Ids -> RecordRange(Numbers)]
  BY TypeParts DEF SubmissionInv, ExchangeInv, CallsTyped
<1>2. CASE record' = record
  BY <1>2 DEF RecordMoves
<1>3. ASSUME NEW i \in Ids, NEW p \in Payloads, Submit(i, p) PROVE RecordMoves(id)
  <2>1. record' = [record EXCEPT ![i].payload = IF record[i].payload = None THEN p
                                                ELSE record[i].payload]
    BY <1>3 DEF Submit
  <2>2. PICK q : q = IF record[i].payload = None THEN p ELSE record[i].payload
    OBVIOUS
  <2>3. record' = [record EXCEPT ![i] = [record[i] EXCEPT !.payload = q]]
    BY <1>1, <2>1, <2>2
  <2>4. CASE id # i
    BY <1>1, <2>3, <2>4 DEF RecordMoves
  <2>5. CASE id = i
    <3>1. record'[id].payload = q /\ record'[id].order = record[id].order
      BY <1>1, <2>3, <2>5 DEF RecordRange
    <3> QED
      BY <2>2, <2>5, <3>1, NoneIsNothing DEF RecordMoves
  <2> QED
    BY <2>4, <2>5
<1>4. ASSUME NEW i \in Ids, NEW n \in Numbers', orders'[n].id = i, Accepted(i, n)
      PROVE  RecordMoves(id)
  BY <1>1, <1>4, AcceptedKeeps DEF RecordMoves
<1>5. BooksKeep
  BY BooksStep
<1>6. ASSUME NEW m \in wire, BooksGain(m), Accepted(m.from, Len(orders) + 1)
      PROVE  RecordMoves(id)
  BY <1>4, <1>6 DEF BooksGain, NewOrder
<1>7. ASSUME NEW m \in wire, KrakenReceives(m) PROVE RecordMoves(id)
  <2>1. KrakenDoes(m)
    BY <1>7, KrakenOutcomes
  <2>2. ASSUME m.kind \in {"open", "closed"}, Listing(m.from, m.kind) PROVE RecordMoves(id)
    <3>1. ASSUME NEW n \in Section(m.kind), orders[n].id = m.from, Accepted(m.from, n)
          PROVE  RecordMoves(id)
      <4>1. n \in Numbers /\ m.from \in Ids
        BY <1>1, <3>1, OrdersTyped DEF Section, KrakenOrders, Numbers
      <4> QED
        BY <1>4, <1>5, <3>1, <4>1 DEF BooksKeep
    <3> QED
      BY <1>2, <2>2, <3>1 DEF Listing, LookupFailed, Proceed
  <2> QED
    BY <1>2, <1>6, <2>1, <2>2 DEF KrakenDoes, Unheard, AddFailed, Proceed
<1>8. ASSUME NEW m \in wire, CoinbaseReceives(m) PROVE RecordMoves(id)
  <2>1. CoinbaseDoes(m) /\ m.from \in Ids
    BY <1>8, CoinbaseOutcomes DEF CoinbaseDoes, Ids
  <2>2. ASSUME NEW n \in Placed(m.from), Accepted(m.from, n) PROVE RecordMoves(id)
    BY <1>4, <1>5, <2>1, <2>2 DEF BooksKeep, Placed
  <2> QED
    BY <1>2, <1>6, <2>1, <2>2 DEF CoinbaseDoes, Unheard
<1> QED
  BY <1>2, <1>3, <1>7, <1>8 DEF Next, History, Private, Post, Timeout, Close, Crash, vars

\* A new request is that of a waiting call.
LEMMA WireStep ==
  ASSUME [Next]_vars, NEW m \in wire', m \notin wire
  PROVE  \E c \in Callers : \E t : Waiting(c) /\ m = Request(c, t)
<1>1. ASSUME NEW c \in Callers, Private(c) \/ Post(c)
      PROVE  \E t : Waiting(c) /\ m = Request(c, t)
  BY <1>1 DEF Private, Post
<1> QED
  BY <1>1 DEF Next, Submit, History, Timeout, KrakenReceives, CoinbaseReceives, Close, Crash, vars

\* A new order is that of a request that may be accepted.
LEMMA GainStep ==
  ASSUME SubmissionInv, [Next]_vars, NEW n \in Numbers', n \notin Numbers
  PROVE  \E m \in wire : /\ BooksGain(m) /\ n = Len(orders) + 1
                         /\ \/ m.from \in CoinbaseIds /\ Placed(m.from) = {}
                            \/ m.from \in KrakenIds /\ m.ticket > last
<1>1. ASSUME NEW m \in wire, KrakenReceives(m)
      PROVE  BooksGain(m) /\ n = Len(orders) + 1 /\ m.from \in KrakenIds /\ m.ticket > last
  BY <1>1, KrakenOutcomes DEF KrakenDoes, BooksGain, Kraken, Numbers, Ids
<1>2. ASSUME NEW m \in wire, CoinbaseReceives(m)
      PROVE  /\ BooksGain(m) /\ n = Len(orders) + 1
             /\ m.from \in CoinbaseIds /\ Placed(m.from) = {}
  BY <1>2, CoinbaseOutcomes DEF CoinbaseDoes, BooksGain, Numbers
<1>3. \A k \in Numbers : Close(k) => Numbers' = Numbers
  <2>1. orders \in Seq(Order)
    BY OrdersTyped DEF SubmissionInv, ExchangeInv
  <2> QED
    BY <2>1, ExceptSeq DEF Close, Numbers
<1> QED
  BY <1>1, <1>2, <1>3
  DEF Next, Submit, History, Private, Post, Timeout, Crash, Numbers, vars

\* A step adds no second order of an id: Coinbase looks for it, and what may arrive at
\* Kraken is alone.
LEMMA OneOrderStep ==
  ASSUME SubmissionInv, [Next]_vars
  PROVE  OneOrderPerId'
<1> SUFFICES ASSUME NEW k \in Numbers', NEW n \in Numbers', orders'[k].id = orders'[n].id,
                    k # n, n \notin Numbers
             PROVE  FALSE
  <2>1. ASSUME NEW k \in Numbers, NEW n \in Numbers, orders'[k].id = orders'[n].id
        PROVE  k = n
    BY <2>1, BooksStep DEF BooksKeep, SubmissionInv, OneOrderPerId
  <2> QED
    BY <2>1 DEF OneOrderPerId
<1>1. PICK m \in wire : /\ BooksGain(m) /\ n = Len(orders) + 1
                        /\ \/ m.from \in CoinbaseIds /\ Placed(m.from) = {}
                           \/ m.from \in KrakenIds /\ m.ticket > last
  BY GainStep
<1>2. k \in Numbers /\ orders'[n].id = m.from
  BY <1>1 DEF BooksGain, NewOrder
<1>3. k \in Placed(m.from)
  BY <1>2, BooksStep DEF BooksKeep, Placed
<1>4. m.from \in KrakenIds => m \in MayArrive(m.from)
  <2>1. m.kind = "add" /\ (m.from \in KrakenIds => m.ticket > last)
    BY <1>1, CallersAssumption DEF BooksGain
  <2> QED
    BY <2>1 DEF MayArrive
<1> QED
  BY <1>1, <1>3, <1>4 DEF SubmissionInv, Lookups, LookupHolds

\* A call that goes on stays about its order, and waits to send.
LEMMA AnswerFits ==
  ASSUME SubmissionInv, NEW m \in wire, AnswerMoves(m)
  PROVE  LET c == m.from
         IN /\ c \in Kraken /\ call[c].at \notin Resting
            /\ call'[c].ticket = None
            /\ \/ call'[c] = Idle("idle") \/ call'[c] = Idle("refused")
               \/ /\ call'[c].payload = call[c].payload
                  /\ call'[c].at \in IF c = Auditor THEN {"closed", "listed"}
                                     ELSE {"open", "closed", "add"}
<1> DEFINE c == m.from
<1>1. /\ c \in Kraken /\ c \in Callers /\ call[c].at \notin Resting
      /\ TypeOK /\ call[c] \in CallRecord(Numbers)
  BY AwaitedIsBusy, TypeParts
  DEF AnswerMoves, KrakenDoes, SubmissionInv, ExchangeInv, CallsTyped, Kraken
<1> HIDE DEF c
<1>2. ASSUME NEW at \in {"idle", "refused"}, Leave(c, Idle(at))
      PROVE  call'[c] = Idle(at) /\ call'[c].ticket = None
  BY <1>1, <1>2, LeaveKeeps DEF Idle
<1>3. ASSUME NEW at, NEW failed, Proceed(c, at, failed)
      PROVE  call'[c].ticket = None /\ call'[c].payload = call[c].payload /\ call'[c].at = at
  <2>1. call'[c] = [call[c] EXCEPT !.at = at, !.ticket = None, !.failed = failed]
    BY <1>1, <1>3, LeaveKeeps DEF Proceed
  <2> QED
    BY <1>1, <2>1 DEF CallRecord
<1>4. CASE m.kind = "add" /\ AddFailed(c)
  <2>1. c # Auditor
    BY <1>4, CallersAssumption DEF SubmissionInv, Fitting, RequestFits, c
  <2> QED
    BY <1>1, <1>3, <1>4, <2>1 DEF AddFailed, FindFirst, c
<1>5. CASE c = Auditor /\ Listing(c, m.kind) /\ ~LookupFailed(c)
  <2>1. call'[c] = [call[c] EXCEPT !.at = IF m.kind = "open" THEN "closed" ELSE "listed",
                                   !.ticket = None, !.seen = @ \cup Section(m.kind)]
    BY <1>1, <1>5, LeaveKeeps DEF Listing
  <2>2. /\ call'[c].ticket = None /\ call'[c].payload = call[c].payload
        /\ call'[c].at \in {"closed", "listed"}
    BY <1>1, <2>1 DEF CallRecord
  <2> QED
    BY <1>1, <1>5, <2>2 DEF c
<1>6. CASE c # Auditor /\ Listing(c, m.kind) /\ ~LookupFailed(c)
  BY <1>1, <1>2, <1>3, <1>6 DEF Listing, Accepted, c
<1>7. CASE LookupFailed(c)
  BY <1>1, <1>2, <1>7 DEF LookupFailed, c
<1> QED
  BY <1>4, <1>5, <1>6, <1>7 DEF AnswerMoves, c

\* Calls, requests, orders and records stay about the same order.
LEMMA FittingStep ==
  ASSUME SubmissionInv, [Next]_vars
  PROVE  Fitting' /\ RecordNamesItsOrder'
<1>1. /\ TypeOK /\ \A c \in Callers : call[c] \in CallRecord(Numbers)
      /\ \A id \in Ids : record[id] \in RecordRange(Numbers)
  BY TypeParts DEF SubmissionInv, ExchangeInv, CallsTyped
<1>2. ASSUME NEW d \in Callers PROVE CallFits(d)'
  <2>1. CallMoves(d) /\ CallFits(d)
    BY CallStep DEF SubmissionInv, Fitting
  <2>2. ASSUME d \in Ids, record[d].payload \in Payloads
        PROVE  record'[d].payload = record[d].payload
    BY <2>2, RecordStep DEF RecordMoves
  <2>3. CASE call'[d] = call[d]
    BY <2>1, <2>2, <2>3 DEF CallFits
  <2>4. ASSUME NEW at \in {"idle", "refused"}, call'[d] = Idle(at) PROVE CallFits(d)'
    BY <2>4 DEF CallFits, Idle, Resting
  <2>5. ASSUME d \in Ids, NEW p \in Payloads, Submit(d, p) PROVE CallFits(d)'
    <3>1. call'[d].payload = p /\ call'[d].at \in {"open", "add"}
          /\ (d \in CoinbaseIds => call'[d].at = "add")
      BY <1>1, <2>5, CallersAssumption DEF Submit, Idle, FindFirst, CallRecord, TypeOK
    <3>2. record'[d].payload = p
      BY <1>1, <2>5, NoneIsNothing DEF Submit, MaySubmit, RecordRange, TypeOK
    <3>3. d # Auditor
      BY <2>5, CallersAssumption
    <3> QED
      BY <3>1, <3>2, <3>3 DEF CallFits, Resting
  <2>6. CASE d = Auditor /\ call'[d] = [Idle("open") EXCEPT !.due = KrakenOrders]
    BY <2>6, CallersAssumption DEF CallFits, Idle, Resting, Ids
  <2>7. ASSUME Waiting(d), NEW t, call'[d] = [call[d] EXCEPT !.ticket = t] PROVE CallFits(d)'
    <3>1. call'[d].at = call[d].at /\ call'[d].payload = call[d].payload
      BY <1>1, <2>7 DEF CallRecord
    <3> QED
      BY <2>1, <2>2, <2>7, <3>1 DEF CallFits, Waiting
  <2>8. ASSUME NEW m \in wire, m.from = d, AnswerMoves(m) PROVE CallFits(d)'
    <3>1. \/ call'[d] = Idle("idle") \/ call'[d] = Idle("refused")
          \/ /\ d \in Kraken /\ call[d].at \notin Resting
             /\ call'[d].ticket = None /\ call'[d].payload = call[d].payload
             /\ call'[d].at \in IF d = Auditor THEN {"closed", "listed"}
                                ELSE {"open", "closed", "add"}
      BY <2>8, AnswerFits
    <3> QED
      BY <2>1, <2>2, <2>4, <3>1 DEF CallFits, Kraken, Resting
  <2> QED
    BY <2>1, <2>3, <2>4, <2>5, <2>6, <2>7, <2>8 DEF CallMoves
<1>3. ASSUME NEW m \in wire' PROVE RequestFits(m)'
  <2>1. RequestFits(m)
    <3>1. ASSUME NEW c \in Callers, NEW t, Waiting(c), m = Request(c, t) PROVE RequestFits(m)
      <4>1. CallFits(c) /\ call[c].at \in {"open", "closed", "add"}
        BY <1>1, <3>1 DEF SubmissionInv, Fitting, Waiting, CallRecord
      <4> QED
        BY <3>1, <4>1, CallersAssumption
        DEF RequestFits, Request, CallFits, Waiting, Callers, Ids, Resting
    <3> QED
      BY <3>1, WireStep DEF SubmissionInv, Fitting
  <2> QED
    BY <2>1, RecordStep DEF RequestFits, RecordMoves
<1>4. ASSUME NEW n \in Numbers' PROVE orders'[n].payload = record'[orders'[n].id].payload
  <2>1. CASE n \in Numbers
    <3>1. orders[n].id \in Ids /\ orders[n].payload \in Payloads
      BY <1>1, <2>1, OrdersTyped DEF Order
    <3> QED
      BY <2>1, <3>1, BooksStep, RecordStep DEF BooksKeep, RecordMoves, SubmissionInv, Fitting
  <2>2. CASE n \notin Numbers
    <3>1. PICK m \in wire : BooksGain(m) /\ n = Len(orders) + 1
      BY <2>2, GainStep
    <3>2. RequestFits(m) /\ m.kind = "add" /\ orders'[n] = NewOrder(m)
      BY <3>1 DEF SubmissionInv, Fitting, BooksGain
    <3> QED
      BY <3>2, RecordStep DEF RequestFits, RecordMoves, NewOrder
  <2> QED
    BY <2>1, <2>2
<1>5. ASSUME NEW id \in Ids, record'[id].order # None
      PROVE  /\ record'[id].order \in Numbers'
             /\ orders'[record'[id].order].id = id
             /\ orders'[record'[id].order].payload = record'[id].payload
  <2>1. CASE record'[id].order = record[id].order
    <3>1. record[id].order \in Numbers /\ orders[record[id].order].id = id
      BY <1>5, <2>1 DEF SubmissionInv, ExchangeInv, RecordNamesItsOrder
    <3>2. record'[id].order \in Numbers' /\ orders'[record'[id].order].id = id
      BY <2>1, <3>1, BooksStep DEF BooksKeep
    <3> QED
      BY <1>4, <3>2
  <2>2. CASE \E n \in Numbers' : record'[id].order = n /\ orders'[n].id = id
    BY <1>4, <2>2
  <2> QED
    BY <2>1, <2>2, RecordStep DEF RecordMoves
<1> QED
  BY <1>2, <1>3, <1>4, <1>5 DEF Fitting, RecordNamesItsOrder
-----------------------------------------------------------------------------
(* Nonces.                                                                 *)

\* What a step does to the requests of Kraken's callers.
PrivateSends(c, ticket) ==
  /\ c \in Kraken /\ Waiting(c) /\ lock = None
  /\ ticket \in Nat /\ ticket > nonce /\ nonce' = ticket /\ last' = last
  /\ lock' = c
  /\ wire' = wire \cup {Request(c, ticket)}
  /\ call' = [call EXCEPT ![c] = [call[c] EXCEPT !.ticket = ticket]]
  /\ record' = record /\ orders' = orders

\* _private sends with a higher nonce and the lock, or gives up.
LEMMA PrivateStep ==
  ASSUME SubmissionInv, NEW c \in Callers, Private(c)
  PROVE  \/ \E ticket : PrivateSends(c, ticket)
         \/ UNCHANGED <<record, nonce, lock, wire, orders, last>>
            /\ c \in Kraken /\ call' = [call EXCEPT ![c] = Idle("idle")]
<1>1. nonce \in Nat /\ call \in [Callers -> CallRecord(Numbers)]
  BY TypeParts, CallersAssumption DEF SubmissionInv, ExchangeInv, CallsTyped
<1>2. ASSUME NEW now \in Clock PROVE NextNonce(now) \in Nat /\ NextNonce(now) > nonce
  BY <1>1, NonceGrows
<1>3. ASSUME NEW now \in Clock, nonce' = NextNonce(now), lock' = c,
             wire' = wire \cup {Request(c, NextNonce(now))},
             call' = [call EXCEPT ![c].ticket = NextNonce(now)]
      PROVE  PrivateSends(c, NextNonce(now))
  BY <1>1, <1>2, <1>3 DEF Private, PrivateSends, Kraken
<1> QED
  BY <1>3 DEF Private, Kraken

\* A step that leaves the wire and the nonces alone, and every call that is awaited
\* as it is or without what it awaited.
LEMMA QuietNumbers ==
  ASSUME SubmissionInv, UNCHANGED <<nonce, last, wire>>,
         \A c \in Kraken : /\ call'[c].ticket # None => call'[c] = call[c]
                           /\ call'[c].ticket # None => lock' = lock
  PROVE  Numbered' /\ AwaitedInOrder'
<1>1. \A m \in wire : m.from \in Callers /\ m.ticket # None
  BY NoneIsNothing DEF SubmissionInv, ExchangeInv, TypeOK
<1>2. \A m \in wire : m.from \in Kraken /\ Answers(m)' => Answers(m) /\ call'[m.from] = call[m.from]
  BY <1>1 DEF Answers
<1> QED
  BY <1>1, <1>2 DEF SubmissionInv, ExchangeInv, Numbered, AwaitedInOrder, Kraken

\* Under the lock every request is sent with the highest nonce, so nothing overtakes it.
LEMMA NumberedStep ==
  ASSUME SubmissionInv, [Next]_vars
  PROVE  Numbered' /\ AwaitedInOrder'
<1>1. /\ TypeOK /\ call \in [Callers -> CallRecord(Numbers)] /\ nonce \in Nat /\ last \in Nat
      /\ \A m \in wire : m.from \in Callers /\ m.ticket \in Nat
  BY TypeParts, CallersAssumption DEF SubmissionInv, ExchangeInv, CallsTyped, RequestRange
<1>2. \A c \in Callers : call[c].ticket \in Nat \cup {None}
  BY <1>1, CallersAssumption DEF CallRecord
<1>3. CASE UNCHANGED <<nonce, last, wire, call, lock>>
  BY <1>3, QuietNumbers
<1>4. ASSUME UNCHANGED <<nonce, last, wire>>, NEW c \in Callers, NEW k,
             call' = [call EXCEPT ![c] = k], k.ticket = None,
             lock' = lock \/ (lock' = None /\ lock = c)
      PROVE  Numbered' /\ AwaitedInOrder'
  <2>1. ASSUME NEW d \in Kraken, call'[d].ticket # None
        PROVE  call'[d] = call[d] /\ lock' = lock
    <3>1. d # c /\ call'[d] = call[d]
      BY <1>1, <1>4, <2>1 DEF Kraken
    <3>2. lock = d
      BY <2>1, <3>1 DEF SubmissionInv, Numbered
    <3> QED
      BY <1>4, <3>1, <3>2
  <2> QED
    BY <1>4, <2>1, QuietNumbers
<1>5. ASSUME NEW id \in Ids, NEW p \in Payloads, Submit(id, p) PROVE Numbered' /\ AwaitedInOrder'
  <2>1. PICK at : call' = [call EXCEPT ![id] = [Idle(at) EXCEPT !.payload = p]]
    BY <1>5 DEF Submit
  <2>2. [Idle(at) EXCEPT !.payload = p].ticket = None
    BY DEF Idle
  <2> QED
    BY <1>4, <1>5, <2>1, <2>2 DEF Submit, Callers
<1>6. CASE History
  <2>1. [Idle(HistoryFirst) EXCEPT !.due = KrakenOrders].ticket = None
    BY DEF Idle
  <2> QED
    BY <1>4, <1>6, <2>1 DEF History, Callers
<1>7. ASSUME NEW c \in Callers, Timeout(c) PROVE Numbered' /\ AwaitedInOrder'
  <2>1. PICK k : k = Idle("idle")
    OBVIOUS
  <2>2. call' = [call EXCEPT ![c] = k] /\ k.ticket = None
    BY <1>7, <2>1 DEF Timeout, Leave, Idle
  <2>3. lock' = lock \/ (lock' = None /\ lock = c)
    BY <1>7 DEF Timeout, Leave
  <2> QED
    BY <1>4, <1>7, <2>2, <2>3 DEF Timeout
<1>8. ASSUME NEW c \in Callers, NEW ticket, PrivateSends(c, ticket)
      PROVE  Numbered' /\ AwaitedInOrder'
  <2>1. \A d \in Callers : call'[d] = IF d = c THEN [call[c] EXCEPT !.ticket = ticket] ELSE call[d]
    BY <1>1, <1>8 DEF PrivateSends
  <2>2. call'[c].ticket = ticket /\ call'[c].at = call[c].at
    BY <1>1, <2>1 DEF CallRecord
  <2>3. \A d \in Kraken : d # c => call[d].ticket = None
    BY <1>8, NoneIsNothing DEF PrivateSends, SubmissionInv, Numbered, Kraken
  <2>4. \A m \in wire : m.from \in Kraken => m.ticket < ticket /\ m.ticket # None
    <3>1. nonce < ticket /\ ticket \in Nat
      BY <1>8 DEF PrivateSends
    <3>2. \A m \in wire : m.from \in Kraken => m.ticket <= nonce /\ m.ticket \in Nat
      BY <1>1 DEF SubmissionInv, Numbered
    <3> QED
      BY <1>1, <3>1, <3>2, CallersAssumption
  <2>5. \A m \in wire : m.from \in Kraken => ~Answers(m)'
    BY <1>1, <1>8, <2>1, <2>2, <2>3, <2>4 DEF Answers, PrivateSends
  <2>6. Request(c, ticket).from = c /\ Request(c, ticket).kind = call'[c].at
        /\ Request(c, ticket).ticket = ticket
    BY <2>2 DEF Request
  <2>7. /\ last' <= nonce' /\ ticket > last'
        /\ \A m \in wire' : m.from \in Kraken => m.ticket <= nonce'
    BY <1>1, <1>8, <2>4, <2>6 DEF PrivateSends, SubmissionInv, Numbered
  <2>8. \A m, k \in wire' : m.from \in Kraken /\ k.from \in Kraken /\ m.ticket = k.ticket => m = k
    BY <1>8, <2>4, <2>6 DEF PrivateSends, SubmissionInv, Numbered
  <2>9. \A d \in Kraken : call'[d].ticket # None => lock' = d /\ call'[d].ticket = nonce'
    BY <1>8, <2>1, <2>2, <2>3 DEF PrivateSends, Kraken
  <2>10. \A m \in wire' : m.from \in Kraken /\ Answers(m)' => m = Request(c, ticket)
    BY <1>8, <2>5 DEF PrivateSends
  <2>11. \A m \in wire' : m.from \in Kraken /\ Answers(m)' =>
           m.kind = call'[m.from].at /\ m.ticket > last'
    BY <2>6, <2>7, <2>10
  <2>12. \A m \in wire' : m.from \in Callers
    BY <1>1, <1>8, <2>6 DEF PrivateSends
  <2> QED
    BY <2>7, <2>8, <2>9, <2>11, <2>12 DEF Numbered, AwaitedInOrder, Kraken
<1>9. ASSUME NEW c \in Callers, Private(c) PROVE Numbered' /\ AwaitedInOrder'
  <2>1. Idle("idle").ticket = None
    BY DEF Idle
  <2> QED
    BY <1>4, <1>8, <1>9, <2>1, PrivateStep
<1>10. ASSUME NEW c \in Callers, Post(c) PROVE Numbered' /\ AwaitedInOrder'
  <2>1. PICK ticket : /\ wire' = wire \cup {Request(c, ticket)}
                      /\ call' = [call EXCEPT ![c].ticket = ticket]
    BY <1>10 DEF Post
  <2>2. c \in CoinbaseIds /\ UNCHANGED <<nonce, lock, last>>
    BY <1>10 DEF Post
  <2>3. \A d \in Kraken : call'[d] = call[d]
    BY <1>1, <2>1, <2>2 DEF Kraken
  <2>4. Request(c, ticket).from = c
    BY DEF Request
  <2>5. \A m \in wire' : m.from \in Kraken => m \in wire /\ (Answers(m)' <=> Answers(m))
    BY <2>1, <2>2, <2>3, <2>4 DEF Kraken, Answers
  <2>6. Numbered /\ AwaitedInOrder
    BY DEF SubmissionInv, ExchangeInv
  <2>7. \A m \in wire' : m.from \notin CoinbaseIds => m.from \in Kraken
    BY <1>1, <2>1, <2>2, <2>4 DEF Kraken
  <2> QED
    BY <2>2, <2>3, <2>5, <2>6, <2>7 DEF Numbered, AwaitedInOrder, Kraken
<1>11. ASSUME NEW m \in wire, wire' = wire \ {m}, nonce' = nonce, last' \in Nat, last' <= nonce,
              \/ last' = last
              \/ m.from \in Kraken /\ last' = m.ticket,
              \/ UNCHANGED <<call, lock>>
              \/ \E c \in Callers : \E k : call' = [call EXCEPT ![c] = k] /\ k.ticket = None
                                       /\ lock' = IF lock = c THEN None ELSE lock
       PROVE  Numbered' /\ AwaitedInOrder'
  <2>1. \A d \in Kraken : call'[d].ticket # None => call'[d] = call[d] /\ lock' = lock
    <3>1. CASE UNCHANGED <<call, lock>>
      BY <3>1
    <3>2. ASSUME NEW c \in Callers, NEW k, call' = [call EXCEPT ![c] = k], k.ticket = None,
                 lock' = IF lock = c THEN None ELSE lock, NEW d \in Kraken, call'[d].ticket # None
          PROVE  call'[d] = call[d] /\ lock' = lock
      <4>1. d # c /\ call'[d] = call[d]
        BY <1>1, <3>2 DEF Kraken
      <4>2. lock = d
        BY <3>2, <4>1 DEF SubmissionInv, Numbered
      <4> QED
        BY <3>2, <4>1, <4>2
    <3> QED
      BY <1>11, <3>1, <3>2
  <2>2. \A k \in wire' : k.from \in Kraken /\ Answers(k)' =>
                            Answers(k) /\ call'[k.from] = call[k.from]
    BY <1>1, <1>11, <2>1, CallersAssumption DEF Answers
  <2>3. \A d \in Kraken : call'[d].ticket # None => lock' = d /\ call'[d].ticket = nonce'
    BY <1>11, <2>1 DEF SubmissionInv, Numbered
  <2>4. \A k \in wire' : k.from \in Kraken /\ Answers(k)' => k.kind = call'[k.from].at
    BY <1>11, <2>2 DEF SubmissionInv, Numbered
  <2>5. ASSUME NEW k \in wire', k.from \in Kraken, Answers(k)' PROVE k.ticket > last'
    <3>1. k \in wire /\ k # m /\ Answers(k) /\ k.ticket \in Nat
      BY <1>1, <1>11, <2>2, <2>5
    <3>2. k.ticket > last
      BY <2>5, <3>1 DEF SubmissionInv, ExchangeInv, AwaitedInOrder, Kraken
    <3>3. k.ticket = nonce
      BY <1>1, <2>5, <3>1, CallersAssumption DEF SubmissionInv, Numbered, Answers
    <3>4. m.from \in Kraken => m.ticket # k.ticket /\ m.ticket <= nonce
      BY <2>5, <3>1 DEF SubmissionInv, Numbered
    <3> QED
      BY <1>1, <1>11, <3>2, <3>3, <3>4
  <2>6. \A k \in wire' : k.from \in Kraken => k.ticket <= nonce'
    BY <1>11 DEF SubmissionInv, Numbered
  <2>7. \A k, j \in wire' : k.from \in Kraken /\ j.from \in Kraken /\ k.ticket = j.ticket => k = j
    BY <1>11 DEF SubmissionInv, Numbered
  <2>8. \A k \in wire' : k.from \notin CoinbaseIds => k.from \in Kraken
    BY <1>1, <1>11 DEF Kraken
  <2> QED
    BY <1>11, <2>3, <2>4, <2>5, <2>6, <2>7, <2>8 DEF Numbered, AwaitedInOrder
<1>12. ASSUME NEW c \in Callers, NEW k, Leave(c, k), k.ticket = None
       PROVE  \E d \in Callers : \E j : call' = [call EXCEPT ![d] = j] /\ j.ticket = None
                                    /\ lock' = IF lock = d THEN None ELSE lock
  BY <1>12 DEF Leave
<1>13. ASSUME NEW c \in Callers, NEW at, NEW failed, Proceed(c, at, failed)
       PROVE  \E d \in Callers : \E j : call' = [call EXCEPT ![d] = j] /\ j.ticket = None
                                    /\ lock' = IF lock = d THEN None ELSE lock
  <2>1. [call[c] EXCEPT !.at = at, !.ticket = None, !.failed = failed].ticket = None
    BY <1>1 DEF CallRecord
  <2> QED
    BY <1>12, <1>13, <2>1 DEF Proceed
<1>14. \A at : Idle(at).ticket = None
  BY DEF Idle
<1>15. ASSUME NEW m \in wire, KrakenReceives(m) PROVE Numbered' /\ AwaitedInOrder'
  <2>1. KrakenDoes(m) /\ m.from \in Callers /\ m.from \in Kraken
    BY <1>1, <1>15, KrakenOutcomes DEF KrakenDoes
  <2>2. last' \in Nat /\ last' <= nonce /\ (last' = last \/ last' = m.ticket)
    BY <2>1 DEF KrakenDoes, SubmissionInv, Numbered
  <2>3. ASSUME Listing(m.from, m.kind)
        PROVE  \E d \in Callers : \E j : call' = [call EXCEPT ![d] = j] /\ j.ticket = None
                                     /\ lock' = IF lock = d THEN None ELSE lock
    <3>1. ASSUME NEW k, k = [call[m.from] EXCEPT
                               !.at = IF m.kind = "open" THEN "closed" ELSE "listed",
                               !.ticket = None, !.seen = @ \cup Section(m.kind)]
          PROVE  k.ticket = None
      BY <1>1, <2>1, <3>1 DEF CallRecord
    <3> QED
      BY <1>12, <1>13, <1>14, <2>1, <2>3, <3>1 DEF Listing, LookupFailed, Accepted
  <2>4. \/ UNCHANGED <<call, lock>>
        \/ \E d \in Callers : \E j : call' = [call EXCEPT ![d] = j] /\ j.ticket = None
                                 /\ lock' = IF lock = d THEN None ELSE lock
    BY <1>12, <1>13, <1>14, <2>1, <2>3 DEF KrakenDoes, Unheard, AddFailed, Accepted
  <2> QED
    BY <1>11, <2>1, <2>2, <2>4 DEF KrakenDoes
<1>16. ASSUME NEW m \in wire, CoinbaseReceives(m) PROVE Numbered' /\ AwaitedInOrder'
  <2>1. CoinbaseDoes(m) /\ m.from \in Callers
    BY <1>1, <1>16, CoinbaseOutcomes
  <2>2. \/ UNCHANGED <<call, lock>>
        \/ \E d \in Callers : \E j : call' = [call EXCEPT ![d] = j] /\ j.ticket = None
                                 /\ lock' = IF lock = d THEN None ELSE lock
    BY <1>12, <1>14, <2>1 DEF CoinbaseDoes, Unheard, Accepted
  <2>3. last <= nonce
    BY DEF SubmissionInv, Numbered
  <2> QED
    BY <1>1, <1>11, <2>1, <2>2, <2>3 DEF CoinbaseDoes
<1>17. CASE Crash
  <2>1. \A c \in Kraken : call'[c].ticket = None
    BY <1>17 DEF Crash, Idle, Kraken
  <2> QED
    BY <1>17, <2>1, QuietNumbers DEF Crash
<1> QED
  BY <1>3, <1>5, <1>6, <1>7, <1>9, <1>10, <1>15, <1>16, <1>17 DEF Next, Close, vars
-----------------------------------------------------------------------------
(* Lookups.                                                                *)

\* What Kraken remembers of nonces grows.
LEMMA LastGrows ==
  ASSUME SubmissionInv, [Next]_vars
  PROVE  last \in Nat /\ last' \in Nat /\ last <= last'
<1>1. last \in Nat
  BY TypeParts, CallersAssumption DEF SubmissionInv, ExchangeInv
<1>2. CASE last' = last
  BY <1>1, <1>2
<1>3. ASSUME NEW m \in wire, KrakenReceives(m) PROVE last' \in Nat /\ last <= last'
  BY <1>3, KrakenOutcomes DEF KrakenDoes
<1> QED
  BY <1>1, <1>2, <1>3
  DEF Next, Submit, History, Private, Post, Timeout, CoinbaseReceives, Close, Crash, vars

\* Nothing more may arrive of an id whose call sends no AddOrder.
LEMMA FewerArrive ==
  ASSUME SubmissionInv, [Next]_vars, NEW id \in KrakenIds,
         \A m \in wire' : m \notin wire /\ m.from = id => m.kind # "add"
  PROVE  MayArrive(id)' \subseteq MayArrive(id)
<1>1. \A m \in wire : m.ticket \in Nat
  BY DEF SubmissionInv, ExchangeInv, TypeOK
<1>2. ASSUME NEW m \in MayArrive(id)' PROVE m \in MayArrive(id)
  <2>1. m \in wire' /\ m.from = id /\ m.kind = "add" /\ m.ticket > last'
    BY <1>2 DEF MayArrive
  <2>2. m \in wire
    BY <2>1
  <2>3. m.ticket > last
    BY <1>1, <2>1, <2>2, LastGrows
  <2> QED
    BY <2>1, <2>2, <2>3 DEF MayArrive
<1> QED
  BY <1>2

\* The orders of an id stay the same but for the one just accepted.
LEMMA SameOrders ==
  ASSUME SubmissionInv, [Next]_vars, NEW id \in KrakenIds,
         \A m \in wire : BooksGain(m) => m.from # id
  PROVE  Placed(id)' = Placed(id) /\ \A n \in Placed(id) : orders'[n].open => orders[n].open
<1>1. BooksKeep
  BY BooksStep
<1>2. ASSUME NEW n \in Numbers', n \notin Numbers PROVE orders'[n].id # id
  <2>1. PICK m \in wire : BooksGain(m) /\ n = Len(orders) + 1
    BY <1>2, GainStep
  <2> QED
    BY <2>1 DEF BooksGain, NewOrder
<1> QED
  BY <1>1, <1>2 DEF BooksKeep, Placed

\* A record stays one.
LEMMA RecordNotLost ==
  ASSUME SubmissionInv, [Next]_vars, NEW id \in Ids, record[id] # NoRecord
  PROVE  record'[id] # NoRecord
<1>1. record[id] \in RecordRange(Numbers)
  BY TypeParts DEF SubmissionInv, ExchangeInv, CallsTyped
<1>2. record[id].payload # None \/ record[id].order # None
  BY <1>1 DEF RecordRange, NoRecord
<1>3. RecordMoves(id)
  BY RecordStep
<1>4. CASE record[id].payload # None
  BY <1>1, <1>3, <1>4, NoneIsNothing DEF RecordMoves, RecordRange, NoRecord
<1>5. CASE record[id].payload = None /\ record[id].order # None
  <2>1. Numbers' \subseteq Nat
    BY TypeStep, NextParts DEF Numbers
  <2>2. record'[id].order # None
    BY <1>3, <1>5, <2>1, NoneIsNothing DEF RecordMoves
  <2> QED
    BY <2>2 DEF NoRecord
<1> QED
  BY <1>2, <1>4, <1>5

\* What a call claims to know, of which the other conjuncts are true anyway.
Claims(id) ==
  /\ call[id].at = "add" /\ call[id].ticket = None => Nothing(id)
  /\ call[id].at = "closed" => MayArrive(id) = {} /\ \A n \in Placed(id) : ~orders[n].open
  /\ call[id].at = "refused" => Nothing(id)
  /\ call[id].failed /\ call[id].at # "add" => MayArrive(id) = {}

\* An id with no new request to add and no new order keeps what holds, if its call
\* does not claim more.
LEMMA LookupFrame ==
  ASSUME SubmissionInv, [Next]_vars, NEW id \in KrakenIds,
         MayArrive(id)' \subseteq MayArrive(id), \A m \in wire : BooksGain(m) => m.from # id,
         call'[id] = call[id] \/ call'[id] = Idle("idle") \/ Claims(id)'
  PROVE  LookupHolds(id)'
<1>1. LookupHolds(id)
  BY DEF SubmissionInv, Lookups
<1>2. Placed(id)' = Placed(id) /\ \A n \in Placed(id) : orders'[n].open => orders[n].open
  BY SameOrders
<1>3. Nothing(id) => Nothing(id)'
  BY <1>2 DEF Nothing
<1>4. Claims(id)'
  <2>1. CASE call'[id] = call[id]
    BY <1>1, <1>2, <1>3, <2>1 DEF LookupHolds, Claims
  <2>2. CASE call'[id] = Idle("idle")
    BY <2>2 DEF Claims, Idle
  <2> QED
    BY <2>1, <2>2
<1>5. record'[id] = NoRecord => Nothing(id)'
  BY <1>1, <1>3, RecordNotLost DEF LookupHolds, Ids
<1> QED
  BY <1>1, <1>2, <1>4, <1>5 DEF LookupHolds, Claims

\* Its request to add is sent when there is nothing, and is then the only one.
LEMMA AddIsSent ==
  ASSUME SubmissionInv, [Next]_vars, NEW id \in KrakenIds, NEW ticket, PrivateSends(id, ticket)
  PROVE  LookupHolds(id)'
<1>1. call[id] \in CallRecord(Numbers) /\ call[id].at \notin Resting /\ call[id].ticket = None
      /\ LookupHolds(id) /\ CallFits(id) /\ id \in Ids /\ id \in Callers
  BY TypeParts DEF SubmissionInv, ExchangeInv, CallsTyped, Lookups, Fitting, PrivateSends,
                   Waiting, Ids, Callers
<1>2. call'[id] = [call[id] EXCEPT !.ticket = ticket]
  BY <1>1, TypeParts DEF SubmissionInv, ExchangeInv, CallsTyped, PrivateSends
<1>3. call'[id].at = call[id].at /\ call'[id].failed = call[id].failed /\ call'[id].ticket = ticket
  BY <1>1, <1>2 DEF CallRecord
<1>4. Request(id, ticket).from = id /\ Request(id, ticket).kind = call[id].at
  BY DEF Request
<1>5. orders' = orders
  BY DEF PrivateSends
<1>6. \A m \in wire : ~BooksGain(m)
  BY <1>5 DEF BooksGain, Numbers
<1>7. ticket # None
  BY NoneIsNothing DEF PrivateSends
<1>8. CASE call[id].at # "add"
  <2>1. \A m \in wire' : m \notin wire /\ m.from = id => m.kind # "add"
    BY <1>4, <1>8 DEF PrivateSends
  <2>2. MayArrive(id)' \subseteq MayArrive(id)
    BY <2>1, FewerArrive
  <2>3. Placed(id)' = Placed(id)
    BY <1>6, SameOrders
  <2>4. Claims(id)'
    BY <1>1, <1>3, <1>5, <1>8, <2>2, <2>3 DEF Claims, LookupHolds, Nothing, Resting
  <2> QED
    BY <1>6, <2>2, <2>4, LookupFrame
<1>9. CASE call[id].at = "add"
  <2>1. Nothing(id)
    BY <1>1, <1>9 DEF LookupHolds
  <2>2. Placed(id)' = {}
    BY <1>6, <2>1, SameOrders DEF Nothing
  <2>3. ASSUME NEW m \in MayArrive(id)' PROVE m = Request(id, ticket)
    <3>1. m \in wire' /\ m.from = id /\ m.kind = "add" /\ m.ticket > last'
      BY <2>3 DEF MayArrive
    <3>2. m \in wire => m \in MayArrive(id)
      BY <3>1 DEF MayArrive, PrivateSends
    <3> QED
      BY <2>1, <3>1, <3>2 DEF Nothing, PrivateSends
  <2>4. record'[id] # NoRecord
    BY <1>1, <1>9, NoneIsNothing DEF CallFits, NoRecord, PrivateSends
  <2> QED
    BY <1>3, <1>7, <1>9, <2>2, <2>3, <2>4 DEF LookupHolds
<1> QED
  BY <1>8, <1>9

\* It was the only one that could arrive, so nothing is left when it does.
LEMMA OnlyOneArrives ==
  ASSUME SubmissionInv, [Next]_vars, NEW m \in wire, KrakenDoes(m),
         m.from \in KrakenIds, m.kind = "add", m.ticket > last
  PROVE  /\ MayArrive(m.from) = {m} /\ Placed(m.from) = {}
         /\ MayArrive(m.from)' = {}
<1>1. m \in MayArrive(m.from)
  BY DEF MayArrive
<1>2. LookupHolds(m.from)
  BY DEF SubmissionInv, Lookups
<1>3. \A k \in MayArrive(m.from) : k = m
  BY <1>1, <1>2 DEF LookupHolds
<1>4. MayArrive(m.from)' \subseteq MayArrive(m.from) \ {m}
  <2>1. wire' = wire \ {m}
    BY DEF KrakenDoes
  <2>2. MayArrive(m.from)' \subseteq MayArrive(m.from)
    BY <2>1, FewerArrive
  <2>3. MayArrive(m.from)' \subseteq wire'
    BY DEF MayArrive
  <2> QED
    BY <2>1, <2>2, <2>3
<1> QED
  BY <1>1, <1>2, <1>3, <1>4 DEF LookupHolds

\* Whatever comes of it is all there is, and its call claims nothing against it.
LEMMA AddIsAnswered ==
  ASSUME SubmissionInv, [Next]_vars, NEW m \in wire, KrakenDoes(m), m.kind = "add",
         m.from \in KrakenIds, m.ticket > last,
         Unheard \/ Accepted(m.from, Len(orders) + 1) \/ AddFailed(m.from)
  PROVE  LookupHolds(m.from)'
<1> DEFINE id == m.from
<1>1. MayArrive(id) = {m} /\ Placed(id) = {} /\ MayArrive(id)' = {}
  BY OnlyOneArrives
<1>2. ~Nothing(id) /\ LookupHolds(id) /\ id \in Ids /\ id \in Callers
      /\ call[id] \in CallRecord(Numbers)
  BY <1>1, TypeParts
  DEF Nothing, SubmissionInv, ExchangeInv, CallsTyped, Lookups, Ids, Callers
<1> HIDE DEF id
<1>3. record'[id] # NoRecord
  BY <1>2, RecordNotLost DEF LookupHolds
<1>4. \/ call'[id] = call[id] \/ call'[id] = Idle("idle")
      \/ call'[id].at = "open"
  <2>1. CASE AddFailed(id)
    <3>1. call'[id] = [call[id] EXCEPT !.at = "open", !.ticket = None, !.failed = TRUE]
      BY <1>2, <2>1, LeaveKeeps DEF AddFailed, Proceed, FindFirst, SubmissionInv, ExchangeInv
    <3> QED
      BY <1>2, <3>1 DEF CallRecord
  <2>2. CASE Unheard \/ Accepted(id, Len(orders) + 1)
    BY <1>2, <2>2, AcceptedKeeps DEF SubmissionInv, ExchangeInv, Unheard
  <2> QED
    BY <2>1, <2>2 DEF id
<1>5. Claims(id)'
  <2>1. CASE call'[id] = Idle("idle")
    BY <2>1 DEF Claims, Idle
  <2>2. CASE call'[id] = call[id]
    BY <1>1, <1>2, <2>2 DEF Claims, LookupHolds, Nothing
  <2>3. CASE call'[id].at = "open"
    BY <1>1, <2>3 DEF Claims
  <2> QED
    BY <1>4, <2>1, <2>2, <2>3
<1>6. LookupHolds(id)'
  BY <1>1, <1>3, <1>5 DEF LookupHolds, Claims
<1> QED
  BY <1>6 DEF id

\* The answer to a list that was asked for with the latest nonce: whatever was on its
\* way with an earlier one is now refused.
LEMMA ListEndsRequests ==
  ASSUME SubmissionInv, NEW m \in wire, KrakenDoes(m), Answers(m), NEW id \in KrakenIds
  PROVE  MayArrive(id)' = {}
<1>1. m.ticket = nonce /\ m.ticket <= last' /\ wire' \subseteq wire
  <2>1. m.ticket # None /\ call[m.from].ticket = m.ticket
    BY NoneIsNothing DEF Answers, SubmissionInv, ExchangeInv, TypeOK
  <2> QED
    BY <2>1 DEF KrakenDoes, SubmissionInv, Numbered
<1>2. nonce \in Nat /\ last' \in Nat
  BY TypeParts, CallersAssumption DEF KrakenDoes, SubmissionInv, ExchangeInv
<1>3. ASSUME NEW k \in MayArrive(id)' PROVE FALSE
  <2>1. k \in wire /\ k.from = id /\ k.ticket > last'
    BY <1>1, <1>3 DEF MayArrive
  <2>2. k.from \in Kraken /\ k.ticket \in Nat
    BY <2>1, CallersAssumption DEF Kraken, Callers, Ids, SubmissionInv, ExchangeInv, TypeOK
  <2>3. k.ticket <= nonce
    BY <2>1, <2>2 DEF SubmissionInv, Numbered
  <2> QED
    BY <1>1, <1>2, <2>1, <2>2, <2>3
<1> QED
  BY <1>3

\* What a list tells a submission of Kraken's is so.
LEMMA AnswerIsKnown ==
  ASSUME SubmissionInv, [Next]_vars, NEW m \in wire, AnswerMoves(m), m.kind # "add",
         m.from \in KrakenIds
  PROVE  LookupHolds(m.from)'
<1> DEFINE id == m.from
<1>1. /\ KrakenDoes(m) /\ Answers(m) /\ orders' = orders /\ m.ticket > last
      /\ m.kind \in {"open", "closed"} /\ m.kind = call[id].at /\ Listing(id, m.kind)
  BY DEF AnswerMoves
<1>2. /\ LookupHolds(id) /\ id \in Ids /\ id \in Callers /\ id # Auditor
      /\ TypeOK /\ call[id] \in CallRecord(Numbers)
  BY TypeParts, CallersAssumption
  DEF SubmissionInv, ExchangeInv, CallsTyped, Lookups, Ids, Callers
<1>3. \A k \in wire : ~BooksGain(k)
  BY <1>1 DEF BooksGain, Numbers
<1>4. MayArrive(id)' = {}
  BY <1>1, ListEndsRequests
<1>5. Placed(id)' = Placed(id)
  BY <1>3, SameOrders
<1>6. Placed(id) = {} => Nothing(id)'
  BY <1>4, <1>5 DEF Nothing
<1> HIDE DEF id
<1>8. SUFFICES call'[id] = Idle("idle") \/ Claims(id)'
  <2>1. MayArrive(id)' \subseteq MayArrive(id)
    BY <1>4
  <2> QED
    BY <1>2, <1>3, <1>8, <2>1, LookupFrame DEF id
<1>9. ASSUME NEW at, NEW failed, Proceed(id, at, failed)
      PROVE  call'[id].at = at /\ call'[id].ticket = None /\ call'[id].failed = failed
  <2>1. call'[id] = [call[id] EXCEPT !.at = at, !.ticket = None, !.failed = failed]
    BY <1>2, <1>9, LeaveKeeps DEF Proceed
  <2> QED
    BY <1>2, <2>1 DEF CallRecord
<1>10. LookupFailed(id) => call'[id] = Idle("idle")
  BY <1>2, LeaveKeeps DEF LookupFailed
<1>11. ASSUME NEW n, Accepted(id, n) PROVE call'[id] = Idle("idle")
  BY <1>2, <1>11, AcceptedKeeps
<1>12. ASSUME m.kind = call[id].at, m.kind \in {"open", "closed"},
              \A n \in Section(m.kind) : orders[n].id # id
       PROVE  \A n \in Placed(id) : orders[n].open # (m.kind = "open")
  <2>1. ASSUME NEW n \in Placed(id) PROVE orders[n].open # (m.kind = "open")
    <3>1. n \in Numbers /\ orders[n].id = id /\ n \in KrakenOrders
      BY <2>1 DEF Placed, KrakenOrders, Numbers, id
    <3>2. n \notin Section(m.kind)
      BY <1>12, <3>1
    <3> QED
      BY <3>1, <3>2 DEF Section
  <2> QED
    BY <2>1
<1>13. CASE /\ m.kind = "open" /\ call[id].at = "open"
            /\ \A n \in Section(m.kind) : orders[n].id # id
            /\ Proceed(id, "closed", call[id].failed)
  <2>1. call'[id].at = "closed" /\ call'[id].failed = call[id].failed
    BY <1>9, <1>13
  <2>2. \A n \in Placed(id) : ~orders[n].open
    <3>1. \A n \in Placed(id) : orders[n].open \in BOOLEAN
      BY <1>2, OrdersTyped DEF Placed, Order
    <3> QED
      BY <1>12, <1>13, <3>1
  <2> QED
    BY <1>1, <1>4, <1>5, <2>1, <2>2 DEF Claims
<1>14. CASE /\ m.kind = "closed" /\ call[id].at = "closed"
            /\ \A n \in Section(m.kind) : orders[n].id # id
            /\ \/ Leave(id, Idle("refused"))
               \/ Proceed(id, "add", FALSE)
  <2>1. Placed(id) = {}
    <3>1. \A n \in Placed(id) : ~orders[n].open
      BY <1>2, <1>14 DEF LookupHolds
    <3>2. \A n \in Placed(id) : orders[n].open \in BOOLEAN
      BY <1>2, OrdersTyped DEF Placed, Order
    <3> QED
      BY <1>12, <1>14, <3>1, <3>2
  <2>2. call'[id].at \in {"refused", "add"}
    <3>1. Leave(id, Idle("refused")) => call'[id] = Idle("refused")
      BY <1>2, LeaveKeeps
    <3>2. Idle("refused").at = "refused"
      BY DEF Idle
    <3> QED
      BY <1>9, <1>14, <3>1, <3>2
  <2> QED
    BY <1>4, <1>6, <2>1, <2>2 DEF Claims
<1> QED
  BY <1>1, <1>2, <1>10, <1>11, <1>13, <1>14 DEF Listing, id

\* A step keeps what holds of an id.
LEMMA LookupsStep ==
  ASSUME SubmissionInv, [Next]_vars
  PROVE  Lookups'
<1> SUFFICES ASSUME NEW id \in KrakenIds PROVE LookupHolds(id)'
  BY DEF Lookups
<1>1. id \in Ids /\ id \in Callers /\ id \in Kraken /\ id \notin CoinbaseIds /\ id # Auditor
  BY CallersAssumption DEF Ids, Callers, Kraken
<1>2. TypeOK /\ call \in [Callers -> CallRecord(Numbers)] /\ LookupHolds(id)
  BY TypeParts DEF SubmissionInv, ExchangeInv, CallsTyped, Lookups
<1>3. ASSUME wire' \subseteq wire, \A m \in wire : BooksGain(m) => m.from # id,
             call'[id] = call[id] \/ call'[id] = Idle("idle") \/ Claims(id)'
      PROVE  LookupHolds(id)'
  <2>1. MayArrive(id)' \subseteq MayArrive(id)
    BY <1>3, FewerArrive
  <2> QED
    BY <1>3, <2>1, LookupFrame
<1>4. orders' = orders => \A m \in wire : ~BooksGain(m)
  BY DEF BooksGain, Numbers
<1>5. CASE UNCHANGED <<wire, orders>> /\ (call'[id] = call[id] \/ call'[id] = Idle("idle"))
  BY <1>3, <1>4, <1>5
<1>6. ASSUME NEW i \in Ids, NEW p \in Payloads, Submit(i, p) PROVE LookupHolds(id)'
  <2>1. CASE i # id
    BY <1>1, <1>2, <1>5, <1>6, <2>1 DEF Submit
  <2>2. CASE i = id
    <3>1. UNCHANGED <<wire, orders, last>>
      BY <1>6 DEF Submit
    <3>2. call'[id] = [Idle(IF record[id] # NoRecord THEN "open" ELSE "add") EXCEPT !.payload = p]
      BY <1>1, <1>2, <1>6, <2>2 DEF Submit, FindFirst
    <3>3. /\ call'[id].at = (IF record[id] # NoRecord THEN "open" ELSE "add")
          /\ call'[id].failed = FALSE
      BY <3>2 DEF Idle
    <3>4. Nothing(id)' <=> Nothing(id)
      BY <3>1 DEF Nothing, MayArrive, Placed, Numbers
    <3>5. Claims(id)'
      BY <1>2, <3>3, <3>4 DEF Claims, LookupHolds
    <3> QED
      BY <1>3, <1>4, <3>1, <3>5
  <2> QED
    BY <2>1, <2>2
<1>7. CASE History
  BY <1>1, <1>2, <1>5, <1>7 DEF History
<1>8. ASSUME NEW c \in Callers, Private(c) PROVE LookupHolds(id)'
  <2>1. CASE UNCHANGED <<wire, orders>> /\ call' = [call EXCEPT ![c] = Idle("idle")]
    BY <1>1, <1>2, <1>5, <2>1
  <2>2. ASSUME NEW ticket, PrivateSends(c, ticket) PROVE LookupHolds(id)'
    <3>1. CASE c = id
      BY <2>2, <3>1, AddIsSent
    <3>2. CASE c # id
      <4>1. Request(c, ticket).from # id /\ call'[id] = call[id] /\ orders' = orders
        BY <1>1, <1>2, <2>2, <3>2 DEF Request, PrivateSends
      <4>2. \A m \in wire' : m \notin wire /\ m.from = id => m.kind # "add"
        BY <2>2, <4>1 DEF PrivateSends
      <4>3. MayArrive(id)' \subseteq MayArrive(id)
        BY <4>2, FewerArrive
      <4> QED
        BY <1>4, <4>1, <4>3, LookupFrame
    <3> QED
      BY <3>1, <3>2
  <2> QED
    BY <1>8, <2>1, <2>2, PrivateStep
<1>9. ASSUME NEW c \in Callers, Post(c) PROVE LookupHolds(id)'
  <2>1. PICK ticket : /\ wire' = wire \cup {Request(c, ticket)}
                      /\ call' = [call EXCEPT ![c].ticket = ticket]
    BY <1>9 DEF Post
  <2>2. c # id /\ orders' = orders
    BY <1>1, <1>9 DEF Post
  <2>3. call'[id] = call[id] /\ Request(c, ticket).from = c
    BY <1>1, <1>2, <2>1, <2>2 DEF Request
  <2>4. \A m \in wire' : m \notin wire /\ m.from = id => m.kind # "add"
    BY <2>1, <2>2, <2>3
  <2>5. MayArrive(id)' \subseteq MayArrive(id)
    BY <2>4, FewerArrive
  <2> QED
    BY <1>4, <2>2, <2>3, <2>5, LookupFrame
<1>10. ASSUME NEW c \in Callers, Timeout(c) PROVE LookupHolds(id)'
  BY <1>1, <1>2, <1>5, <1>10, LeaveKeeps DEF Timeout
<1>11. ASSUME NEW m \in wire, KrakenReceives(m) PROVE LookupHolds(id)'
  <2>1. KrakenDoes(m) /\ m.from \in Callers
    BY <1>2, <1>11, KrakenOutcomes DEF KrakenDoes, Kraken
  <2>2. wire' \subseteq wire
    BY <2>1 DEF KrakenDoes
  <2>3. CASE orders' = orders /\ Unheard
    BY <1>3, <1>4, <2>2, <2>3 DEF Unheard
  <2>4. CASE AnswerMoves(m) /\ m.kind # "add"
    <3>1. CASE m.from = id
      BY <2>4, <3>1, AnswerIsKnown
    <3>2. CASE m.from # id
      <4>1. \E k : Leave(m.from, k)
        BY <2>4 DEF AnswerMoves, LookupFailed, Listing, Proceed, Accepted
      <4>2. call'[id] = call[id] /\ orders' = orders
        BY <1>1, <1>2, <2>1, <2>4, <3>2, <4>1, LeaveKeeps DEF AnswerMoves
      <4> QED
        BY <1>3, <1>4, <2>2, <4>2
    <3> QED
      BY <3>1, <3>2
  <2>5. ASSUME orders' = orders \/ BooksGain(m), m.kind = "add", m.ticket > last,
               Unheard \/ Accepted(m.from, Len(orders) + 1) \/ AddFailed(m.from)
        PROVE  LookupHolds(id)'
    <3>1. CASE m.from = id
      BY <2>1, <2>5, <3>1, AddIsAnswered
    <3>2. CASE m.from # id
      <4>1. m.from \in Callers /\ \A k \in wire : BooksGain(k) => k.from # id
        BY <1>4, <2>1, <2>5, <3>2 DEF BooksGain, NewOrder
      <4>2. Unheard \/ \E k : Leave(m.from, k)
        BY <2>5 DEF AddFailed, Proceed, Accepted
      <4>3. call'[id] = call[id]
        BY <1>1, <1>2, <3>2, <4>1, <4>2, LeaveKeeps DEF Unheard
      <4> QED
        BY <1>3, <2>2, <4>1, <4>3
    <3> QED
      BY <3>1, <3>2
  <2>6. BooksGain(m) => m.kind = "add"
    BY DEF BooksGain
  <2> QED
    BY <2>1, <2>3, <2>4, <2>5, <2>6 DEF KrakenDoes, AnswerMoves
<1>12. ASSUME NEW m \in wire, CoinbaseReceives(m) PROVE LookupHolds(id)'
  <2>1. /\ CoinbaseDoes(m) /\ m.from # id /\ m.from \in Ids /\ m.from \in Callers
        /\ wire' \subseteq wire
    BY <1>1, <1>12, CoinbaseOutcomes DEF CoinbaseDoes, Ids, Callers
  <2>2. call'[id] = call[id]
    BY <1>1, <1>2, <2>1, LeaveKeeps, AcceptedKeeps DEF CoinbaseDoes, Unheard
  <2>3. \A k \in wire : BooksGain(k) => k.from # id
    <3>1. ASSUME NEW k \in wire, BooksGain(k) PROVE k.from = m.from
      BY <2>1, <3>1, <1>4 DEF CoinbaseDoes, BooksGain, NewOrder
    <3> QED
      BY <2>1, <3>1
  <2> QED
    BY <1>3, <2>1, <2>2, <2>3
<1>13. ASSUME NEW n \in Numbers, Close(n) PROVE LookupHolds(id)'
  <2>1. \A m \in wire : ~BooksGain(m)
    BY <1>2, <1>13, OrdersTyped DEF Close, BooksGain, Numbers
  <2> QED
    BY <1>3, <1>13, <2>1 DEF Close
<1>14. CASE Crash
  BY <1>1, <1>5, <1>14 DEF Crash
<1>15. CASE UNCHANGED vars
  BY <1>5, <1>15 DEF vars
<1> QED
  BY <1>6, <1>7, <1>8, <1>9, <1>10, <1>11, <1>12, <1>13, <1>14, <1>15 DEF Next, Numbers
-----------------------------------------------------------------------------
(* The audit.                                                              *)

\* What was due stays an order of Kraken's, and what was not open stays so.
LEMMA AuditFrame ==
  ASSUME SubmissionInv, [Next]_vars,
         \/ call'[Auditor] = call[Auditor]
         \/ /\ call'[Auditor].due = call[Auditor].due /\ call'[Auditor].seen = call[Auditor].seen
            /\ call'[Auditor].at = call[Auditor].at
  PROVE  Audited'
<1>1. TypeOK /\ BooksKeep /\ Audited
  BY BooksStep DEF SubmissionInv, ExchangeInv
<1>2. KrakenOrders \subseteq KrakenOrders' /\ KrakenOrders \subseteq Numbers
  BY <1>1 DEF BooksKeep, KrakenOrders, Numbers
<1> QED
  BY <1>1, <1>2 DEF Audited, HistoryComplete, BooksKeep

\* A list shows every order of its section: what was open is seen at the first, and
\* what has been closed since at the second.
LEMMA AuditLists ==
  ASSUME SubmissionInv, NEW m \in wire, AnswerMoves(m), m.from = Auditor,
         ~LookupFailed(Auditor)
  PROVE  Audited'
<1>1. /\ TypeOK /\ call[Auditor] \in CallRecord(Numbers) /\ Auditor \in Callers /\ Audited
  BY TypeParts DEF SubmissionInv, ExchangeInv, CallsTyped, Callers
<1>2. m.kind # "add"
  BY CallersAssumption DEF SubmissionInv, Fitting, RequestFits
<1>3. /\ m.kind \in {"open", "closed"} /\ m.kind = call[Auditor].at
      /\ Listing(Auditor, m.kind) /\ orders' = orders
  BY <1>2 DEF AnswerMoves
<1>4. call'[Auditor] = [call[Auditor] EXCEPT
                          !.at = IF m.kind = "open" THEN "closed" ELSE "listed",
                          !.ticket = None,
                          !.seen = call[Auditor].seen \cup Section(m.kind)]
  BY <1>1, <1>3, LeaveKeeps DEF Listing
<1>5. /\ call'[Auditor].due = call[Auditor].due
      /\ call'[Auditor].seen = call[Auditor].seen \cup Section(m.kind)
      /\ call'[Auditor].at = IF m.kind = "open" THEN "closed" ELSE "listed"
  BY <1>1, <1>4 DEF CallRecord
<1>6. \A n \in KrakenOrders : orders[n].open \in BOOLEAN
  BY <1>1, OrdersTyped DEF KrakenOrders, Numbers, Order
<1>7. \A n \in call[Auditor].due : n \in KrakenOrders
  BY <1>1 DEF Audited
<1>8. KrakenOrders' = KrakenOrders
  BY <1>3 DEF KrakenOrders
<1>9. CASE m.kind = "open"
  <2>1. \A n \in KrakenOrders : n \in Section("open") \/ ~orders[n].open
    BY <1>6 DEF Section
  <2> QED
    BY <1>1, <1>3, <1>5, <1>7, <1>8, <1>9, <2>1 DEF Audited, HistoryComplete
<1>10. CASE m.kind = "closed"
  <2>1. \A n \in KrakenOrders : ~orders[n].open => n \in Section("closed")
    BY <1>6 DEF Section
  <2> QED
    BY <1>1, <1>3, <1>5, <1>7, <1>8, <1>10, <2>1 DEF Audited, HistoryComplete
<1> QED
  BY <1>3, <1>9, <1>10

\* A step keeps what the auditor knows.
LEMMA AuditStep ==
  ASSUME SubmissionInv, [Next]_vars
  PROVE  Audited'
<1>1. Auditor \in Callers /\ Auditor \notin Ids /\ call[Auditor] \in CallRecord(Numbers)
  BY TypeParts, CallersAssumption DEF SubmissionInv, ExchangeInv, CallsTyped, Callers
<1>2. CallMoves(Auditor)
  BY <1>1, CallStep
<1>3. ASSUME NEW at \in {"idle", "refused"}, call'[Auditor] = Idle(at) PROVE Audited'
  BY <1>3 DEF Audited, HistoryComplete, Idle
<1>4. CASE call'[Auditor] = [Idle("open") EXCEPT !.due = KrakenOrders]
  <2>1. call'[Auditor].due = KrakenOrders /\ call'[Auditor].at = "open"
    BY <1>4 DEF Idle
  <2>2. KrakenOrders \subseteq KrakenOrders'
    BY BooksStep DEF BooksKeep, KrakenOrders, Numbers
  <2> QED
    BY <2>1, <2>2 DEF Audited, HistoryComplete
<1>5. ASSUME NEW t, call'[Auditor] = [call[Auditor] EXCEPT !.ticket = t] PROVE Audited'
  BY <1>1, <1>5, AuditFrame DEF CallRecord
<1>6. CASE LookupFailed(Auditor)
  <2>1. call'[Auditor] = Idle("idle")
    BY <1>1, <1>6, LeaveKeeps DEF LookupFailed, SubmissionInv, ExchangeInv
  <2> QED
    BY <1>3, <2>1
<1> QED
  BY <1>1, <1>2, <1>3, <1>4, <1>5, <1>6, AuditFrame, AuditLists DEF CallMoves

-----------------------------------------------------------------------------
(* Theorems.                                                               *)

\* At the start nothing is sent and nothing is known.
LEMMA InitHolds == Init => SubmissionInv
<1> SUFFICES ASSUME Init PROVE SubmissionInv
  OBVIOUS
<1>1. Numbers = {} /\ orders \in Seq(Order)
  BY DEF Init, Numbers
<1>2. MaxNonce \in Nat /\ MaxCrashes \in Nat
  BY CallersAssumption
<1>3. call \in [Callers -> CallRecord(Numbers)] /\ record \in [Ids -> RecordRange(Numbers)]
  BY IdleTyped DEF Init, Resting, RecordRange, NoRecord
<1>4. TypeOK
  BY <1>1, <1>2, <1>3, TypeParts DEF Init, CallsTyped
<1>5. \A c \in Callers : /\ call[c].at = "idle" /\ call[c].ticket = None
                         /\ call[c].failed = FALSE /\ call[c].due = {}
  BY DEF Init, Idle
<1>6. \A id \in Ids : record[id].order = None
  BY DEF Init, NoRecord
<1>7. /\ Auditor \in Callers /\ Ids \subseteq Callers
      /\ KrakenIds \subseteq Ids /\ Kraken \subseteq Callers
  BY DEF Callers, Ids, Kraken
<1>8. wire = {} /\ last = 0 /\ nonce = 0
  BY DEF Init
<1>9. RecordNamesItsOrder /\ AwaitedInOrder /\ OneOrderPerId
  BY <1>1, <1>6, <1>8 DEF RecordNamesItsOrder, AwaitedInOrder, OneOrderPerId
<1>10. Fitting
  BY <1>1, <1>5, <1>8 DEF Fitting, CallFits, Resting
<1>11. Numbered
  BY <1>5, <1>7, <1>8 DEF Numbered
<1>12. Lookups
  BY <1>1, <1>5, <1>7, <1>8 DEF Lookups, LookupHolds, Nothing, MayArrive, Placed
<1>13. Audited
  BY <1>5, <1>7 DEF Audited, HistoryComplete
<1> QED
  BY <1>4, <1>9, <1>10, <1>11, <1>12, <1>13 DEF SubmissionInv, ExchangeInv

\* The inductive invariant holds.
LEMMA SubmissionInvariant == Spec => []SubmissionInv
<1>1. SubmissionInv /\ [Next]_vars => SubmissionInv'
  BY TypeStep, FittingStep, NumberedStep, LookupsStep, AuditStep, OneOrderStep
  DEF SubmissionInv, ExchangeInv
<1> QED
  BY <1>1, InitHolds, PTL DEF Spec

\* The variables have their types, every submission record names its own order, and
\* no request that is awaited is overtaken on the wire, for any number of callers,
\* crashes and readings of the clock.
THEOREM SubmissionsKeep == Spec => []ExchangeInv
BY SubmissionInvariant, PTL DEF SubmissionInv

\* However many requests time out, arrive late or are sent again after a crash, an
\* exchange accepts one order per client id.
THEOREM OrderIsSentOnce == Spec => []OneOrderPerId
BY SubmissionInvariant, PTL DEF SubmissionInv

\* When submit_order gives an order up there is none, and none can appear.
THEOREM RefusedIsAbsent == Spec => []RefusalIsFinal
<1>1. SubmissionInv => RefusalIsFinal
  BY DEF SubmissionInv, Lookups, LookupHolds, Nothing, Placed, RefusalIsFinal
<1> QED
  BY <1>1, SubmissionInvariant, PTL

\* A history misses no order there was when it was asked for.
THEOREM HistoryMissesNothing == Spec => []HistoryComplete
BY SubmissionInvariant, PTL DEF SubmissionInv, Audited
=============================================================================
