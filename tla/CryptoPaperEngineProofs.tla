---------------------- MODULE CryptoPaperEngineProofs ----------------------
(***************************************************************************)
(* Proofs about CryptoPaperEngine, for any instruments, targets, equities, *)
(* limits, venues, days and deaths of the process.                         *)
(*                                                                         *)
(* The cycle decides by a snapshot.  An instrument is tracked as long as   *)
(* no snapshot was taken beside a resting order of its own.  The books say *)
(* that the snapshot of a tracked instrument is exact until the cycle has  *)
(* treated it, and that from then on at most one order rests, which takes  *)
(* the position to a target within the cap or to nothing.                  *)
(***************************************************************************)
EXTENDS CryptoPaperEngine, FiniteSetTheorems, WellFoundedInduction, TLAPS

-----------------------------------------------------------------------------
(* The inductive invariant.                                                *)

\* What may be left of the symbols.
Remainders == {SubSeq(Symbols, n + 1, Len(Symbols)) : n \in 0..Len(Symbols)}

\* The symbols that are left.
Among(symbol, symbols) == \E i \in 1..Len(symbols) : symbols[i] = symbol

InProgress == {"fetching", "deciding", "alerting", "recording"}

\* A cycle in progress is of no later date than this, and not completed.
CycleOpen == task \in InProgress => cycleDay <= day /\ cycle[cycleDay] = "PREPARED"

EngineInv == TypeOK /\ CycleOpen

Held(symbol) == Position("coinbase", symbol)

\* At most one order rests, and takes the position to where it may be.
Book(symbol) ==
  /\ Held(symbol) \in 0..PositionCap
  /\ \A id \in RestingAt("coinbase", symbol) : Held(symbol) + placed[id].quantity \in 0..PositionCap
  /\ \A a, b \in RestingAt("coinbase", symbol) : a = b

\* The snapshot of an instrument that is still to be treated.
Exact(symbol) ==
  task \in {"deciding", "alerting"} /\ Among(symbol, left) =>
    RestingAt("coinbase", symbol) = {} /\ seen[symbol] = Held(symbol)

Kept(symbol) == Tracked(symbol) => Book(symbol) /\ Exact(symbol)

IInv == EngineInv /\ \A symbol \in Symbol : Kept(symbol)

-----------------------------------------------------------------------------
(* Sums over finite sets.  Induction is on the number of members: if a     *)
(* statement failed, it would fail for some least number.                  *)

\* What the orders of a set add up to, and the function behind it.
Total(f, S) == MapThenSumSet(LAMBDA id : f[id].quantity, S)

Pick(T) == CHOOSE x \in T : TRUE

Sums(g, f, S) ==
  g = [T \in SUBSET S |-> IF T = {} THEN 0 ELSE f[Pick(T)].quantity + g[T \ {Pick(T)}]]

Summable(f, S) == IsFiniteSet(S) /\ \A x \in S : f[x].quantity \in Int

\* Of some naturals, one is the least.
LEMMA Least ==
  ASSUME NEW S \in SUBSET Nat, S # {}
  PROVE  \E x \in S : \A y \in S : x <= y
<1>1. PICK x \in S : \A y \in S : ~ (<<y, x>> \in OpToRel(<, Nat))
  BY NatLessThanWellFounded, WFMin
<1>2. ASSUME NEW y \in S PROVE x <= y
  <2>1. <<y, x>> \in Nat \X Nat /\ <<y, x>>[1] = y /\ <<y, x>>[2] = x
    OBVIOUS
  <2>2. ~ (<<y, x>>[1] < <<y, x>>[2])
    BY <1>1, <2>1, Zenon DEF OpToRel
  <2> QED
    BY <2>1, <2>2
<1> QED
  BY <1>2

\* A set without one of its members is smaller, and a subset is not larger.
LEMMA Smaller ==
  ASSUME NEW S, IsFiniteSet(S), NEW x \in S
  PROVE  /\ IsFiniteSet(S \ {x}) /\ Cardinality(S) \in Nat /\ Cardinality(S \ {x}) \in Nat
         /\ Cardinality(S \ {x}) = Cardinality(S) - 1
BY FS_RemoveElement, FS_CardinalityType

\* Of the finite subsets of a set that some family holds, one is the smallest.
LEMMA Smallest ==
  ASSUME NEW Family, Family # {}, \A T \in Family : IsFiniteSet(T)
  PROVE  \E T \in Family : \A U \in Family : Cardinality(T) <= Cardinality(U)
<1> DEFINE Sizes == {Cardinality(T) : T \in Family}
<1>1. Sizes \in SUBSET Nat /\ Sizes # {}
  BY FS_CardinalityType
<1>2. PICK n \in Sizes : \A m \in Sizes : n <= m
  <2> HIDE DEF Sizes
  <2> QED
    BY <1>1, Least
<1>3. PICK T \in Family : n = Cardinality(T)
  BY <1>2
<1> QED
  BY <1>2, <1>3

\* A non-empty set holds what is picked of it.
LEMMA PickIn ==
  ASSUME NEW T, T # {}
  PROVE  Pick(T) \in T
BY DEF Pick

\* There is a function that computes the sums of all subsets.
LEMMA SumsExist ==
  ASSUME NEW f, NEW S, Summable(f, S)
  PROVE  \E g : Sums(g, f, S)
<1> DEFINE Body(g, T) == IF T = {} THEN 0 ELSE f[Pick(T)].quantity + g[T \ {Pick(T)}]
           Right(g, n) == \A T \in SUBSET S : Cardinality(T) <= n => g[T] = Body(g, T)
           Fails == {n \in Nat : ~ \E g : g = [T \in SUBSET S |-> g[T]] /\ Right(g, n)}
<1>1. \A T \in SUBSET S : IsFiniteSet(T) /\ Cardinality(T) \in Nat
                          /\ Cardinality(T) <= Cardinality(S)
  BY FS_Subset, FS_CardinalityType DEF Summable
<1>2. Fails = {}
  <2> SUFFICES ASSUME Fails # {} PROVE FALSE
    OBVIOUS
  <2>1. PICK n \in Fails : \A m \in Fails : n <= m
    <3>1. Fails \in SUBSET Nat /\ Fails # {}
      OBVIOUS
    <3> HIDE DEF Fails
    <3> QED
      BY <3>1, Least
  <2>2. CASE n = 0
    <3> DEFINE g == [T \in SUBSET S |-> 0]
    <3>1. ASSUME NEW T \in SUBSET S, Cardinality(T) <= 0 PROVE T = {}
      BY <1>1, <3>1, FS_EmptySet
    <3>2. Right(g, 0)
      BY <3>1
    <3>3. g = [T \in SUBSET S |-> g[T]]
      OBVIOUS
    <3> QED
      BY <2>1, <2>2, <3>2, <3>3
  <2>3. CASE n # 0
    <3>1. n - 1 \in Nat /\ n - 1 \notin Fails
      <4>1. n \in Nat
        OBVIOUS
      <4> HIDE DEF Fails
      <4> QED
        BY <2>1, <2>3, <4>1
    <3>2. PICK g : g = [T \in SUBSET S |-> g[T]] /\ Right(g, n - 1)
      BY <3>1
    <3> DEFINE h == [T \in SUBSET S |-> Body(g, T)]
    <3>3. ASSUME NEW T \in SUBSET S, Cardinality(T) <= n PROVE h[T] = Body(h, T)
      <4>1. CASE T = {}
        BY <4>1
      <4>2. CASE T # {}
        <5>1. Pick(T) \in T
          BY <4>2, PickIn
        <5>2. Cardinality(T \ {Pick(T)}) <= n - 1 /\ T \ {Pick(T)} \in SUBSET S
          BY <1>1, <2>1, <3>3, <5>1, Smaller
        <5>3. g[T \ {Pick(T)}] = Body(g, T \ {Pick(T)})
          BY <3>2, <5>2
        <5>4. h[T \ {Pick(T)}] = Body(g, T \ {Pick(T)})
          BY <5>2
        <5>5. h[T] = Body(g, T)
          OBVIOUS
        <5> QED
          BY <4>2, <5>3, <5>4, <5>5
      <4> QED
        BY <4>1, <4>2
    <3>4. h = [T \in SUBSET S |-> h[T]] /\ Right(h, n)
      BY <3>3
    <3> QED
      BY <2>1, <3>4
  <2> QED
    BY <2>2, <2>3
<1>3. Cardinality(S) \in Nat
  BY <1>1
<1>4. PICK g : g = [T \in SUBSET S |-> g[T]] /\ Right(g, Cardinality(S))
  BY <1>2, <1>3
<1>5. \A T \in SUBSET S : g[T] = Body(g, T)
  BY <1>1, <1>4
<1>6. g = [T \in SUBSET S |-> Body(g, T)]
  BY <1>4, <1>5
<1> QED
  BY <1>6 DEF Sums

\* Such functions agree wherever what they add up agrees, and yield integers.
LEMMA SumsAgree ==
  ASSUME NEW f, NEW S, Summable(f, S), NEW g, Sums(g, f, S),
         NEW e, NEW R, NEW h, Sums(h, e, R),
         NEW T \in SUBSET S, T \in SUBSET R, \A x \in T : f[x].quantity = e[x].quantity
  PROVE  g[T] = h[T] /\ g[T] \in Int
<1> DEFINE Family == {U \in SUBSET T : ~ (g[U] = h[U] /\ g[U] \in Int)}
<1> SUFFICES ASSUME Family # {} PROVE FALSE
  OBVIOUS
<1>1. \A U \in Family : IsFiniteSet(U)
  BY FS_Subset DEF Summable
<1>2. PICK U \in Family : \A V \in Family : Cardinality(U) <= Cardinality(V)
  <2> HIDE DEF Family
  <2> QED
    BY <1>1, Smallest
<1>3. U \in SUBSET S /\ U \in SUBSET R
  OBVIOUS
<1>4. /\ g[U] = IF U = {} THEN 0 ELSE f[Pick(U)].quantity + g[U \ {Pick(U)}]
      /\ h[U] = IF U = {} THEN 0 ELSE e[Pick(U)].quantity + h[U \ {Pick(U)}]
  BY <1>3 DEF Sums
<1>5. CASE U = {}
  BY <1>4, <1>5
<1>6. CASE U # {}
  <2>1. Pick(U) \in U
    BY <1>6, PickIn
  <2>2. U \ {Pick(U)} \notin Family
    BY <1>1, <1>2, <2>1, Smaller
  <2>3. g[U \ {Pick(U)}] = h[U \ {Pick(U)}] /\ g[U \ {Pick(U)}] \in Int
    BY <2>2
  <2>4. f[Pick(U)].quantity = e[Pick(U)].quantity /\ f[Pick(U)].quantity \in Int
    BY <1>3, <2>1 DEF Summable
  <2> QED
    BY <1>4, <1>6, <2>3, <2>4
<1> QED
  BY <1>5, <1>6

\* The sum is one of those functions at the whole set.
LEMMA TotalIsSums ==
  ASSUME NEW f, NEW S, Summable(f, S)
  PROVE  \E g : Sums(g, f, S) /\ Total(f, S) = g[S]
<1>1. Total(f, S) = (CHOOSE g : Sums(g, f, S))[S]
  BY DEF Total, MapThenSumSet, MapThenFoldSet, Sums, Pick
<1>2. Sums(CHOOSE g : Sums(g, f, S), f, S)
  BY SumsExist
<1> QED
  BY <1>1, <1>2

\* A sum depends on nothing but what is added up.
LEMMA TotalSame ==
  ASSUME NEW f, NEW e, NEW S, Summable(f, S), \A x \in S : f[x].quantity = e[x].quantity
  PROVE  Total(f, S) = Total(e, S) /\ Total(f, S) \in Int
<1>1. PICK g : Sums(g, f, S) /\ Total(f, S) = g[S]
  BY TotalIsSums
<1>2. Summable(e, S)
  BY DEF Summable
<1>3. PICK h : Sums(h, e, S) /\ Total(e, S) = h[S]
  BY <1>2, TotalIsSums
<1> QED
  BY <1>1, <1>3, SumsAgree

\* The sum of nothing, and of a set with one member less.
LEMMA TotalPick ==
  ASSUME NEW f, NEW S, Summable(f, S)
  PROVE  /\ S = {} => Total(f, S) = 0
         /\ S # {} => Total(f, S) = f[Pick(S)].quantity + Total(f, S \ {Pick(S)})
<1>1. PICK g : Sums(g, f, S) /\ Total(f, S) = g[S]
  BY TotalIsSums
<1>2. g[S] = IF S = {} THEN 0 ELSE f[Pick(S)].quantity + g[S \ {Pick(S)}]
  BY <1>1 DEF Sums
<1>3. ASSUME S # {} PROVE g[S \ {Pick(S)}] = Total(f, S \ {Pick(S)})
  <2>1. Summable(f, S \ {Pick(S)})
    BY FS_Subset DEF Summable
  <2>2. PICK h : Sums(h, f, S \ {Pick(S)}) /\ Total(f, S \ {Pick(S)}) = h[S \ {Pick(S)}]
    BY <2>1, TotalIsSums
  <2> QED
    BY <1>1, <2>2, SumsAgree
<1> QED
  BY <1>1, <1>2, <1>3

\* It does not matter which member is taken out.
LEMMA TotalLess ==
  ASSUME NEW f, NEW S, Summable(f, S), NEW x \in S
  PROVE  /\ Total(f, S) = f[x].quantity + Total(f, S \ {x})
         /\ Total(f, S \ {x}) \in Int
<1> DEFINE Splits(U, y) == Total(f, U) = f[y].quantity + Total(f, U \ {y})
           Family == {U \in SUBSET S : ~ \A y \in U : Splits(U, y)}
<1>0. \A U \in SUBSET S : Summable(f, U) /\ Total(f, U) \in Int
  BY FS_Subset, TotalSame DEF Summable
<1>1. Family = {}
  <2> SUFFICES ASSUME Family # {} PROVE FALSE
    OBVIOUS
  <2>1. \A U \in Family : IsFiniteSet(U)
    BY <1>0 DEF Summable
  <2>2. PICK U \in Family : \A V \in Family : Cardinality(U) <= Cardinality(V)
    <3> HIDE DEF Family
    <3> QED
      BY <2>1, Smallest
  <2>3. PICK y \in U : ~ Splits(U, y)
    OBVIOUS
  <2> DEFINE c == Pick(U)
  <2>4. c \in U
    BY <2>3, PickIn
  <2>5. Total(f, U) = f[c].quantity + Total(f, U \ {c})
    BY <1>0, <2>3, TotalPick
  <2>6. y # c
    BY <2>3, <2>5
  <2>7. U \ {c} \notin Family /\ U \ {y} \notin Family
    <3> HIDE DEF Family, c, Splits
    <3>1. U \in Family /\ y \in U
      BY <2>2, <2>3
    <3>2. ASSUME NEW z \in U PROVE Cardinality(U \ {z}) < Cardinality(U)
      BY <2>1, <3>1, Smaller
    <3>3. \A z \in U : Cardinality(U \ {z}) \in Nat /\ Cardinality(U) \in Nat
      BY <2>1, <3>1, Smaller
    <3> QED
      BY <2>2, <2>4, <3>1, <3>2, <3>3
  <2>8. Splits(U \ {c}, y) /\ Splits(U \ {y}, c)
    BY <2>3, <2>4, <2>6, <2>7
  <2>9. (U \ {c}) \ {y} = (U \ {y}) \ {c}
    OBVIOUS
  <2>10. f[c].quantity \in Int /\ f[y].quantity \in Int
    BY <2>3, <2>4 DEF Summable
  <2>11. /\ Total(f, U \ {c}) \in Int /\ Total(f, U \ {y}) \in Int
         /\ Total(f, (U \ {c}) \ {y}) \in Int
    BY <1>0
  <2>12. Total(f, U) = f[y].quantity + Total(f, U \ {y})
    <3>1. Total(f, U \ {c}) = f[y].quantity + Total(f, (U \ {c}) \ {y})
      BY <2>8
    <3>2. Total(f, U \ {y}) = f[c].quantity + Total(f, (U \ {c}) \ {y})
      BY <2>8, <2>9
    <3> HIDE DEF c
    <3> QED
      BY ONLY <2>5, <3>1, <3>2, <2>10, <2>11
  <2> QED
    BY <2>3, <2>12
<1>2. S \notin Family
  BY <1>1
<1> QED
  BY <1>0, <1>2

-----------------------------------------------------------------------------
(* Positions.  What is said of the orders before a step is needed of those *)
(* after it as well, so p stands for either.                               *)

FilledOf(p, venue, symbol) ==
  {id \in OrderIds : /\ p[id] # None /\ id[2] = symbol
                     /\ p[id].venue = venue /\ p[id].status = "FILLED"}

Books == [OrderIds -> Orders \cup {None}]

\* A position is a sum, now and after the step.
LEMMA PositionIs ==
  ASSUME NEW venue, NEW symbol
  PROVE  /\ Position(venue, symbol) = Total(placed, FilledOf(placed, venue, symbol))
         /\ Position(venue, symbol)' = Total(placed', FilledOf(placed', venue, symbol))
<1>1. Position(venue, symbol) = Total(placed, FilledOf(placed, venue, symbol))
  BY DEF Position, Total, FilledOf
<1>2. Position(venue, symbol)' = Total(placed', FilledOf(placed', venue, symbol))
  BY DEF Position, Total, FilledOf, MapThenSumSet, MapThenFoldSet
<1> QED
  BY <1>1, <1>2

\* No order and an order are told apart.
LEMMA NoneIsNoOrder == None \notin Orders
BY NoneAssumption

\* An instrument has finitely many ids, so its orders have a sum.
LEMMA FewOrders ==
  ASSUME NEW p \in Books, NEW venue, NEW symbol
  PROVE  Summable(p, FilledOf(p, venue, symbol))
<1> DEFINE Ids == FilledOf(p, venue, symbol)
           Pairs == {"trend", "fit-flat"} \X Days
           F == [id \in Ids |-> <<id[1], id[3]>>]
<1>1. IsFiniteSet(Pairs)
  <2>1. IsFiniteSet(Days)
    BY EngineAssumption, FS_Interval DEF Days
  <2>2. IsFiniteSet({"trend"}) /\ {"trend"} \cup {"fit-flat"} = {"trend", "fit-flat"}
    BY FS_Singleton
  <2>3. IsFiniteSet({"trend", "fit-flat"})
    BY <2>2, FS_AddElement
  <2> QED
    BY <2>1, <2>3, FS_Product
<1>2. F \in Injection(Ids, Pairs)
  <2>1. ASSUME NEW id \in Ids
        PROVE  /\ id = <<id[1], id[2], id[3]>> /\ id[2] = symbol
               /\ <<id[1], id[3]>> \in Pairs
    BY DEF FilledOf, OrderIds
  <2>2. F \in [Ids -> Pairs]
    BY <2>1
  <2>3. ASSUME NEW a \in Ids, NEW b \in Ids, F[a] = F[b] PROVE a = b
    <3>1. a[1] = b[1] /\ a[3] = b[3]
      BY <2>3
    <3> QED
      BY <2>1, <3>1
  <2> QED
    BY <2>2, <2>3 DEF Injection, IsInjective
<1>3. IsFiniteSet(Ids)
  BY <1>1, <1>2, FS_Injection
<1>4. \A id \in Ids : p[id] \in Orders
  BY DEF FilledOf, Books
<1>5. \A id \in Ids : p[id].quantity \in Int
  BY <1>4 DEF Orders
<1> QED
  BY <1>3, <1>5 DEF Summable

\* Positions are integers.
LEMMA PositionType ==
  ASSUME NEW p \in Books, NEW venue, NEW symbol
  PROVE  Total(p, FilledOf(p, venue, symbol)) \in Int
BY FewOrders, TotalSame

\* A venue without orders holds nothing.
LEMMA NothingHeld ==
  ASSUME NEW p \in Books, NEW venue, NEW symbol,
         \A id \in OrderIds : p[id] # None => p[id].venue # venue
  PROVE  Total(p, FilledOf(p, venue, symbol)) = 0
<1>1. FilledOf(p, venue, symbol) = {}
  BY DEF FilledOf
<1> QED
  BY <1>1, FewOrders, TotalPick

\* The position of an instrument is a matter of its own orders.
LEMMA PositionOwn ==
  ASSUME NEW p \in Books, NEW q \in Books, NEW venue, NEW symbol,
         \A id \in OrderIds : id[2] = symbol => p[id] = q[id]
  PROVE  Total(q, FilledOf(q, venue, symbol)) = Total(p, FilledOf(p, venue, symbol))
<1>1. FilledOf(q, venue, symbol) = FilledOf(p, venue, symbol)
  BY DEF FilledOf
<1>2. \A id \in FilledOf(p, venue, symbol) : p[id].quantity = q[id].quantity
  BY DEF FilledOf
<1> QED
  BY <1>1, <1>2, FewOrders, TotalSame

\* An order that rests adds nothing to a position.
LEMMA PositionPlaced ==
  ASSUME NEW p \in Books, NEW q \in Books, NEW id \in OrderIds, NEW venue, NEW symbol,
         p[id] = None, q[id].status = "OPEN",
         \A x \in OrderIds : x # id => q[x] = p[x]
  PROVE  Total(q, FilledOf(q, venue, symbol)) = Total(p, FilledOf(p, venue, symbol))
<1>1. FilledOf(q, venue, symbol) = FilledOf(p, venue, symbol)
  BY DEF FilledOf
<1>2. \A x \in FilledOf(p, venue, symbol) : p[x].quantity = q[x].quantity
  BY DEF FilledOf
<1> QED
  BY <1>1, <1>2, FewOrders, TotalSame

\* Of the orders p, one was filled.
OneFilled(p, q, id) ==
  /\ p[id] # None /\ p[id].status = "OPEN"
  /\ q[id] # None /\ q[id].venue = p[id].venue /\ q[id].status = "FILLED"
  /\ q[id].quantity = p[id].quantity
  /\ \A x \in OrderIds : x # id => q[x] = p[x]

\* An order that is filled adds its quantity to the position of its instrument
\* at its venue.
LEMMA PositionFilled ==
  ASSUME NEW p \in Books, NEW q \in Books, NEW id \in OrderIds, OneFilled(p, q, id),
         NEW symbol
  PROVE  LET venue == p[id].venue IN
         Total(q, FilledOf(q, venue, symbol)) =
           Total(p, FilledOf(p, venue, symbol))
           + (IF id[2] = symbol THEN p[id].quantity ELSE 0)
<1> DEFINE venue == p[id].venue
           Ids == FilledOf(p, venue, symbol)
<1> USE DEF OneFilled
<1>1. p[id].quantity \in Int
  <2>1. p[id] \in Orders
    BY DEF Books
  <2> QED
    BY <2>1 DEF Orders
<1>2. id \notin Ids
  BY DEF FilledOf
<1>3. CASE id[2] = symbol
  <2>1. FilledOf(q, venue, symbol) = Ids \cup {id}
    BY <1>3 DEF FilledOf
  <2>2. (Ids \cup {id}) \ {id} = Ids
    BY <1>2
  <2>3. /\ Summable(q, Ids \cup {id})
        /\ Total(q, Ids \cup {id}) = q[id].quantity + Total(q, Ids)
        /\ Total(q, Ids) \in Int
    <3>1. Summable(q, Ids \cup {id})
      BY <2>1, FewOrders
    <3>2. id \in Ids \cup {id}
      OBVIOUS
    <3> QED
      BY <2>2, <3>1, <3>2, TotalLess
  <2>4. \A x \in Ids : p[x].quantity = q[x].quantity
    BY <1>2 DEF FilledOf
  <2>5. Total(q, Ids) = Total(p, Ids)
    BY <2>4, FewOrders, TotalSame
  <2> QED
    BY <1>1, <1>3, <2>1, <2>3, <2>5
<1>4. CASE id[2] # symbol
  <2>1. FilledOf(q, venue, symbol) = Ids
    BY <1>4 DEF FilledOf
  <2>2. \A x \in Ids : p[x].quantity = q[x].quantity
    BY <1>2 DEF FilledOf
  <2>3. Total(q, Ids) = Total(p, Ids) /\ Total(p, Ids) \in Int
    BY <2>2, FewOrders, TotalSame
  <2> QED
    BY <1>4, <2>1, <2>3
<1> QED
  BY <1>3, <1>4

\* An order that is filled at one venue leaves the positions at the others alone.
LEMMA PositionElsewhere ==
  ASSUME NEW p \in Books, NEW q \in Books, NEW id \in OrderIds, OneFilled(p, q, id),
         NEW venue, venue # p[id].venue, NEW symbol
  PROVE  Total(q, FilledOf(q, venue, symbol)) = Total(p, FilledOf(p, venue, symbol))
<1>1. FilledOf(q, venue, symbol) = FilledOf(p, venue, symbol)
  BY DEF OneFilled, FilledOf
<1>2. \A x \in FilledOf(p, venue, symbol) : p[x].quantity = q[x].quantity
  BY DEF OneFilled, FilledOf
<1> QED
  BY <1>1, <1>2, FewOrders, TotalSame

\* The quote loop fills one order and leaves the rest alone.
LEMMA FillSteps ==
  ASSUME placed \in Books, Fill
  PROVE  \E id \in Resting :
           /\ id \in OrderIds /\ placed' \in Books
           /\ OneFilled(placed, placed', id)
<1>1. PICK id \in Resting :
        placed' = [placed EXCEPT ![id] = [placed[id] EXCEPT !.status = "FILLED"]]
  BY DEF Fill
<1>2. id \in OrderIds /\ placed[id] # None /\ placed[id].status = "OPEN" /\ placed[id] \in Orders
  BY <1>1 DEF Resting, Books
<1> DEFINE order == [placed[id] EXCEPT !.status = "FILLED"]
<1>3. /\ order \in Orders /\ order.status = "FILLED"
      /\ order.venue = placed[id].venue /\ order.quantity = placed[id].quantity
  BY <1>2 DEF Orders
<1>4. order # None
  BY <1>3, NoneIsNoOrder
<1>5. placed' = [placed EXCEPT ![id] = order]
  BY <1>1
<1> HIDE DEF order
<1>6. /\ placed' \in Books /\ placed'[id] = order
      /\ \A x \in OrderIds : x # id => placed'[x] = placed[x]
  BY <1>2, <1>3, <1>5 DEF Books
<1> QED
  BY <1>1, <1>2, <1>3, <1>4, <1>6 DEF OneFilled

-----------------------------------------------------------------------------
(* The verdict, and what a cycle may place.                                *)

\* Some naturals have a minimum, which is one of them.
LEMMA MinInSet ==
  ASSUME NEW S \in SUBSET Nat, S # {}
  PROVE  Min(S) \in S
<1>1. \E x \in S : \A y \in S : x <= y
  BY Least
<1> QED
  BY <1>1 DEF Min

\* An approved order breaks no rule.
LEMMA ApprovedBreaksNothing ==
  ASSUME NEW order, NEW snap, NEW gateShut, NEW ids,
         Verdict(order, snap, gateShut, ids) = "approved",
         NEW i \in 1..Len(RuleOrder)
  PROVE  ~Breaks(RuleOrder[i], order, snap, gateShut, ids)
<1> DEFINE broken == Broken(Len(RuleOrder), order, snap, gateShut, ids)
<1>1. broken \in SUBSET Nat /\ broken \subseteq 1..Len(RuleOrder)
  BY DEF Broken, RuleOrder
<1>2. \A j \in 1..Len(RuleOrder) : RuleOrder[j] # "approved"
  BY DEF RuleOrder
<1>3. broken = {}
  <2> SUFFICES ASSUME broken # {} PROVE FALSE
    OBVIOUS
  <2>1. Min(broken) \in 1..Len(RuleOrder)
    BY <1>1, MinInSet
  <2>2. RuleOrder[Min(broken)] = "approved"
    BY DEF Verdict
  <2> HIDE DEF broken
  <2> QED
    BY <2>1, <2>2, <1>2
<1> QED
  BY <1>3 DEF Broken

\* An approved order to a target within reach of a position within its cap.
LEMMA ApprovedWithin ==
  ASSUME NEW symbol \in Symbol, NEW target \in Int, NEW ids,
         seen[symbol] \in 0..PositionCap, target >= 0,
         RiskVerdict(TargetOrder(symbol, target), Portfolio(symbol), ids) = "approved"
  PROVE  target \in 0..PositionCap
<1> DEFINE order == TargetOrder(symbol, target)
           snap == Portfolio(symbol)
<1>1. ~Breaks("position_cap", order, snap, FALSE, ids)
  BY ApprovedBreaksNothing, RuleOrder[5] = "position_cap", 5 \in 1..Len(RuleOrder)
  DEF RuleOrder, RiskVerdict
<1>2. RiskReducing(order, snap) \/ ~ (Magnitude(Projected(order, snap)) > PositionCap)
  BY <1>1 DEF Breaks
<1>3. snap.position = seen[symbol] /\ seen[symbol] \in Int /\ PositionCap \in Nat
  BY LimitsAssumption DEF Portfolio
<1>4. /\ order.side = IF target - seen[symbol] > 0 THEN "BUY" ELSE "SELL"
      /\ order.quantity = Magnitude(target - seen[symbol])
  BY DEF TargetOrder, OrderFor
<1> HIDE DEF order, snap
<1>5. Signed(order) = target - seen[symbol]
  BY <1>3, <1>4 DEF Signed, Magnitude
<1>6. Projected(order, snap) = target
  BY <1>3, <1>5 DEF Projected
<1>7. Magnitude(target) < Magnitude(seen[symbol]) \/ ~ (Magnitude(target) > PositionCap)
  BY <1>2, <1>3, <1>6 DEF RiskReducing
<1> QED
  BY <1>3, <1>7 DEF Magnitude

\* What the route of an approved target places, and the route's fitted order.
PlacesTrend(symbol, target, venue) ==
  LET id == <<"trend", symbol, cycleDay>> IN
  /\ placed[id] = None
  /\ target >= 0
  /\ RiskVerdict(TargetOrder(symbol, target), Portfolio(symbol), approved) = "approved"
  /\ placed' = [placed EXCEPT ![id] =
                 [venue |-> venue, quantity |-> target - seen[symbol], status |-> "OPEN"]]

PlacesFlat(symbol, venue) ==
  LET id == <<"fit-flat", symbol, cycleDay>> IN
  /\ placed[id] = None
  /\ seen[symbol] > 0
  /\ placed' = [placed EXCEPT ![id] =
                 [venue |-> venue, quantity |-> -seen[symbol], status |-> "OPEN"]]

Places(symbol) ==
  \E venue \in Routable :
    PlacesFlat(symbol, venue) \/ \E target \in Targets : PlacesTrend(symbol, target, venue)

\* The symbols that may be left to treat.  One that is treated is not left.
LEMMA LeftOver ==
  /\ Symbols \in Remainders /\ <<>> \in Remainders
  /\ \A s \in Remainders : s # <<>> =>
       /\ Head(s) \in Symbol /\ Tail(s) \in Remainders
       /\ \A symbol : Among(symbol, Tail(s)) => symbol # Head(s) /\ Among(symbol, s)
<1> DEFINE N == Len(Symbols)
<1>1. N \in Nat /\ Symbols \in Seq(STRING)
  BY EngineAssumption
<1>2. Symbols = SubSeq(Symbols, 0 + 1, N) /\ 0 \in 0..N
  BY <1>1
<1>3. <<>> = SubSeq(Symbols, N + 1, N) /\ N \in 0..N
  BY <1>1
<1>4. ASSUME NEW n \in 0..N, SubSeq(Symbols, n + 1, N) # <<>>
      PROVE  /\ Head(SubSeq(Symbols, n + 1, N)) \in Symbol
             /\ Tail(SubSeq(Symbols, n + 1, N)) \in Remainders
             /\ \A symbol : Among(symbol, Tail(SubSeq(Symbols, n + 1, N))) =>
                  /\ symbol # Head(SubSeq(Symbols, n + 1, N))
                  /\ Among(symbol, SubSeq(Symbols, n + 1, N))
  <2> DEFINE s == SubSeq(Symbols, n + 1, N)
  <2>1. n < N
    BY <1>1, <1>3, <1>4
  <2>2. Len(s) = N - n /\ \A i \in 1..(N - n) : s[i] = Symbols[n + i]
    BY <1>1, <2>1
  <2>3. Head(s) = Symbols[n + 1] /\ n + 1 \in 1..N
    BY <1>1, <2>1, <2>2
  <2>4. Tail(s) = SubSeq(Symbols, (n + 1) + 1, N) /\ n + 1 \in 0..N
    BY <1>1, <2>1
  <2>5. Len(Tail(s)) = N - (n + 1)
        /\ \A i \in 1..(N - (n + 1)) : Tail(s)[i] = Symbols[(n + 1) + i]
    <3>1. PICK r : r = SubSeq(Symbols, (n + 1) + 1, N)
      OBVIOUS
    <3>2. Len(r) = N - (n + 1) /\ \A i \in 1..(N - (n + 1)) : r[i] = Symbols[(n + 1) + i]
      BY <1>1, <2>1, <3>1
    <3>3. Tail(s) = r
      BY <2>4, <3>1
    <3> HIDE DEF s
    <3> QED
      BY <3>2, <3>3
  <2>6. ASSUME NEW symbol, Among(symbol, Tail(s)) PROVE symbol # Head(s) /\ Among(symbol, s)
    <3>0. PICK i \in 1..(N - (n + 1)) : Symbols[(n + 1) + i] = symbol
      BY <2>5, <2>6 DEF Among
    <3>1. i \in 1..(N - n - 1) /\ Symbols[n + i + 1] = symbol
      BY <1>1, <3>0, (n + 1) + i = n + i + 1
    <3>2. n + i + 1 \in 1..N /\ n + i + 1 # n + 1 /\ i + 1 \in 1..(N - n)
      BY <1>1, <2>1, <3>1
    <3>3. Symbols[n + i + 1] # Symbols[n + 1]
      BY <2>3, <3>2, EngineAssumption
    <3>4. s[i + 1] = symbol
      BY <1>1, <2>1, <2>2, <3>1, <3>2
    <3> HIDE DEF s
    <3> QED
      BY <2>2, <2>3, <3>1, <3>2, <3>3, <3>4 DEF Among
  <2>7. Head(s) \in Symbol /\ Tail(s) \in Remainders
    BY <2>3, <2>4 DEF Symbol, Remainders
  <2> QED
    BY <2>6, <2>7
<1> QED
  BY <1>2, <1>3, <1>4 DEF Remainders

\* What is left is a remainder.
LEMMA LeftIs == ASSUME TypeOK PROVE left \in Remainders
BY DEF TypeOK, Remainders

\* A step of the cycle's loop.
LEMMA DecideSteps ==
  ASSUME TypeOK, Decide
  PROVE  /\ task = "deciding" /\ task' \in {"deciding", "alerting"}
         /\ UNCHANGED <<clock, cycleDay, seen, equity, timer, oneShot, cycle, overlooked, crashes>>
         /\ left # <<>> /\ left' = Tail(left)
         /\ approved' \subseteq OrderIds
         /\ UNCHANGED placed \/ Places(Head(left))
<1> DEFINE symbol == Head(left)
           portfolio == Portfolio(symbol)
<1>1. task = "deciding" /\ left # <<>> /\ symbol \in Symbol
  BY LeftOver, LeftIs DEF Decide
<1>2. PICK target \in Targets :
        \/ Hold(symbol, target) \/ Veto(symbol, target, portfolio)
        \/ Fit(symbol, target, portfolio) \/ Submit(symbol, target, portfolio)
  BY DEF Decide
<1> HIDE DEF symbol
<1>3. <<"trend", symbol, cycleDay>> \in OrderIds /\ <<"fit-flat", symbol, cycleDay>> \in OrderIds
  BY <1>1 DEF TypeOK, OrderIds
<1>4. /\ TargetOrder(symbol, target).id = <<"trend", symbol, cycleDay>>
      /\ FitFlat(symbol).id = <<"fit-flat", symbol, cycleDay>>
  BY DEF TargetOrder, FitFlat, OrderFor
<1>5. approved \subseteq OrderIds
  BY DEF TypeOK
<1>6. CASE Hold(symbol, target)
  BY <1>1, <1>5, <1>6 DEF Hold, NextSymbol, process, durable, symbol
<1>7. CASE Veto(symbol, target, portfolio)
  BY <1>1, <1>5, <1>7 DEF Veto, NextSymbol, durable, symbol
<1>8. CASE Fit(symbol, target, portfolio)
  <2>1. /\ UNCHANGED <<clock, cycleDay, seen, equity, timer, oneShot, cycle, overlooked, crashes>>
        /\ left' = Tail(left)
    BY <1>8 DEF Fit, NextSymbol
  <2>2. /\ task' \in {"deciding", "alerting"}
        /\ approved' \subseteq OrderIds
    BY <1>1, <1>3, <1>4, <1>5, <1>8 DEF Fit
  <2>3. UNCHANGED placed \/ \E venue \in Routable : PlacesFlat(symbol, venue)
    BY <1>4, <1>8 DEF Fit, PlacesFlat
  <2> QED
    BY <1>1, <2>1, <2>2, <2>3 DEF Places, symbol
<1>9. CASE Submit(symbol, target, portfolio)
  <2>1. /\ UNCHANGED <<clock, cycleDay, seen, equity, task, timer, oneShot, cycle, overlooked, crashes>>
        /\ left' = Tail(left)
    BY <1>9 DEF Submit, NextSymbol
  <2>2. approved' \subseteq OrderIds
    BY <1>3, <1>4, <1>5, <1>9 DEF Submit
  <2>3. UNCHANGED placed \/ \E venue \in Routable : PlacesTrend(symbol, target, venue)
    BY <1>4, <1>9 DEF Submit, PlacesTrend
  <2> QED
    BY <1>1, <2>1, <2>2, <2>3 DEF Places, symbol
<1> QED
  BY <1>2, <1>6, <1>7, <1>8, <1>9

\* What it places is a resting order under an id of the cycle's date, for the
\* symbol it treats, and leads from the snapshot to where the position may be.
LEMMA PlacesOrder ==
  ASSUME TypeOK, NEW symbol \in Symbol, Places(symbol)
  PROVE  \E id \in OrderIds, order \in Orders :
           /\ placed[id] = None /\ id[2] = symbol /\ id[3] = cycleDay
           /\ order.status = "OPEN"
           /\ placed' = [placed EXCEPT ![id] = order]
           /\ seen[symbol] \in 0..PositionCap
                => seen[symbol] + order.quantity \in 0..PositionCap
<1>1. PICK venue \in Routable :
        PlacesFlat(symbol, venue) \/ \E target \in Targets : PlacesTrend(symbol, target, venue)
  BY DEF Places
<1>2. seen[symbol] \in Int /\ cycleDay \in Days /\ PositionCap \in Nat
  BY LimitsAssumption DEF TypeOK
<1>3. ASSUME NEW quantity \in Int
      PROVE  LET order == [venue |-> venue, quantity |-> quantity, status |-> "OPEN"]
             IN  order \in Orders /\ order.status = "OPEN" /\ order.quantity = quantity
  BY EngineAssumption DEF Orders, Venues
<1>4. CASE PlacesFlat(symbol, venue)
  <2> DEFINE id == <<"fit-flat", symbol, cycleDay>>
             order == [venue |-> venue, quantity |-> -seen[symbol], status |-> "OPEN"]
  <2>1. id \in OrderIds /\ id[2] = symbol /\ id[3] = cycleDay
    BY <1>2 DEF OrderIds
  <2>2. placed[id] = None /\ placed' = [placed EXCEPT ![id] = order]
    BY <1>4 DEF PlacesFlat
  <2>3. order \in Orders /\ order.status = "OPEN" /\ order.quantity = -seen[symbol]
    BY <1>2, <1>3
  <2> HIDE DEF id, order
  <2>4. seen[symbol] + order.quantity \in 0..PositionCap
    BY <1>2, <2>3
  <2> QED
    BY <2>1, <2>2, <2>3, <2>4
<1>5. ASSUME NEW target \in Targets, PlacesTrend(symbol, target, venue)
      PROVE  \E id \in OrderIds, order \in Orders :
               /\ placed[id] = None /\ id[2] = symbol /\ id[3] = cycleDay
               /\ order.status = "OPEN"
               /\ placed' = [placed EXCEPT ![id] = order]
               /\ seen[symbol] \in 0..PositionCap
                    => seen[symbol] + order.quantity \in 0..PositionCap
  <2> DEFINE id == <<"trend", symbol, cycleDay>>
             order == [venue |-> venue, quantity |-> target - seen[symbol], status |-> "OPEN"]
  <2>1. id \in OrderIds /\ id[2] = symbol /\ id[3] = cycleDay
    BY <1>2 DEF OrderIds
  <2>2. placed[id] = None /\ placed' = [placed EXCEPT ![id] = order]
    BY <1>5 DEF PlacesTrend
  <2>3. target \in Int
    BY EngineAssumption
  <2>4. order \in Orders /\ order.status = "OPEN" /\ order.quantity = target - seen[symbol]
    BY <1>2, <1>3, <2>3
  <2>5. seen[symbol] \in 0..PositionCap => target \in 0..PositionCap
    BY <1>5, <2>3, ApprovedWithin DEF PlacesTrend
  <2> HIDE DEF id, order
  <2>6. seen[symbol] \in 0..PositionCap => seen[symbol] + order.quantity \in 0..PositionCap
    BY <1>2, <2>3, <2>4, <2>5
  <2> QED
    BY <2>1, <2>2, <2>4, <2>6
<1> QED
  BY <1>1, <1>4, <1>5

\* One order more.
LEMMA PlacedKeeps ==
  ASSUME TypeOK, NEW id \in OrderIds, NEW order \in Orders,
         placed' = [placed EXCEPT ![id] = order]
  PROVE  /\ placed' \in Books /\ placed'[id] = order
         /\ \A x \in OrderIds : x # id => placed'[x] = placed[x]
BY DEF TypeOK, Books

-----------------------------------------------------------------------------
(* The shape of the state, and the cycle that is open.                     *)

\* The first state.
LEMMA EngineInvInit ==
  ASSUME Init
  PROVE  EngineInv
<1>1. MaxDays \in Nat \ {0} /\ MaxCrashes \in Nat /\ StartEquity \in Nat
  BY EngineAssumption
<1>2. 1 \in Days /\ 1 \in 1..(MaxDays + 1) /\ 0 \in 0..MaxCrashes
  BY <1>1 DEF Days
<1>3. /\ cycle \in [Days -> {"NONE", "PREPARED", "COMPLETED"}]
      /\ placed \in [OrderIds -> Orders \cup {None}]
      /\ seen \in [Symbol -> Int]
  BY DEF Init
<1>4. \E n \in 0..Len(Symbols) : left = SubSeq(Symbols, n + 1, Len(Symbols))
  BY LeftOver DEF Init, Remainders
<1> QED
  BY <1>1, <1>2, <1>3, <1>4 DEF Init, EngineInv, TypeOK, CycleOpen, InProgress

\* The next 00:05 is today's or tomorrow's.
LEMMA NextTimerType ==
  ASSUME TypeOK
  PROVE  NextTimer \in 1..(MaxDays + 1)
BY EngineAssumption DEF TypeOK, NextTimer, Days

\* A remainder is of the type of what is left.
LEMMA RemainderType ==
  ASSUME left' \in Remainders
  PROVE  \E n \in 0..Len(Symbols) : left' = SubSeq(Symbols, n + 1, Len(Symbols))
BY DEF Remainders

\* A cycle that begins is that of the date.
LEMMA BeginKeeps ==
  ASSUME EngineInv, BeginCycle, UNCHANGED <<clock, timer, overlooked, crashes>>,
         oneShot' \in BOOLEAN, approved' \subseteq OrderIds
  PROVE  EngineInv'
<1>1. cycle' \in [Days -> {"NONE", "PREPARED", "COMPLETED"}] /\ cycle'[day] = "PREPARED"
  BY DEF EngineInv, TypeOK, BeginCycle
<1>2. TypeOK'
  BY <1>1 DEF EngineInv, TypeOK, BeginCycle, clock
<1>3. day <= day
  BY EngineAssumption DEF EngineInv, TypeOK, Days
<1>4. CycleOpen'
  BY <1>1, <1>3 DEF CycleOpen, BeginCycle, clock
<1> QED
  BY <1>2, <1>4 DEF EngineInv

\* The loop of the cycle.
LEMMA DecideKeeps ==
  ASSUME EngineInv, Decide
  PROVE  EngineInv'
<1>1. TypeOK
  BY DEF EngineInv
<1>2. /\ task = "deciding" /\ task' \in {"deciding", "alerting"}
      /\ UNCHANGED <<clock, cycleDay, seen, equity, timer, oneShot, cycle, overlooked, crashes>>
      /\ left # <<>> /\ left' = Tail(left)
      /\ approved' \subseteq OrderIds
      /\ UNCHANGED placed \/ Places(Head(left))
  BY <1>1, DecideSteps
<1>3. Head(left) \in Symbol /\ left' \in Remainders
  BY <1>1, <1>2, LeftIs, LeftOver
<1>4. placed' \in [OrderIds -> Orders \cup {None}]
  <2>1. CASE UNCHANGED placed
    BY <1>1, <2>1 DEF TypeOK
  <2>2. CASE Places(Head(left))
    <3>1. PICK id \in OrderIds, order \in Orders : placed' = [placed EXCEPT ![id] = order]
      BY <1>1, <1>3, <2>2, PlacesOrder
    <3> QED
      BY <1>1, <3>1, PlacedKeeps DEF Books
  <2> QED
    BY <1>2, <2>1, <2>2
<1>5. TypeOK'
  BY <1>1, <1>2, <1>3, <1>4, RemainderType DEF TypeOK, clock
<1>6. CycleOpen'
  BY <1>2 DEF EngineInv, CycleOpen, InProgress, clock
<1> QED
  BY <1>5, <1>6 DEF EngineInv

\* The steps of the cycle outside its loop.
LEMMA CycleKeeps ==
  ASSUME EngineInv, Snapshot \/ Alerted \/ Record \/ Complete
  PROVE  EngineInv'
<1>1. TypeOK /\ CycleOpen
  BY DEF EngineInv
<1>2. NextTimer \in 1..(MaxDays + 1)
  BY <1>1, NextTimerType
<1>3. CASE Snapshot
  <2>1. placed \in Books
    BY <1>1 DEF TypeOK, Books
  <2>2. seen' \in [Symbol -> Int]
    BY <1>3, <2>1, PositionIs, PositionType DEF Snapshot
  <2>3. equity' \in Nat /\ left' \in Remainders
    BY <1>3, EngineAssumption, LeftOver DEF Snapshot
  <2>4. UNCHANGED <<clock, cycleDay, timer, oneShot, approved, durable, crashes>>
    BY <1>3 DEF Snapshot
  <2>5. task = "fetching" /\ task' = "deciding"
    BY <1>3 DEF Snapshot
  <2>6. overlooked' \subseteq Symbol
    BY <1>1, <1>3 DEF Snapshot, TypeOK
  <2>7. TypeOK'
    BY <1>1, <2>2, <2>3, <2>4, <2>5, <2>6, RemainderType DEF TypeOK, clock, durable
  <2>8. CycleOpen'
    BY <1>1, <2>4, <2>5 DEF CycleOpen, InProgress, clock, durable
  <2> QED
    BY <2>7, <2>8 DEF EngineInv
<1>4. CASE Alerted
  BY <1>1, <1>4 DEF Alerted, TypeOK, CycleOpen, InProgress, EngineInv, clock, inCycle, durable
<1>5. CASE Record
  BY <1>1, <1>5 DEF Record, TypeOK, CycleOpen, InProgress, EngineInv, clock, inCycle, durable
<1>6. CASE Complete
  <2>1. cycle' \in [Days -> {"NONE", "PREPARED", "COMPLETED"}]
    BY <1>1, <1>6 DEF Complete, TypeOK
  <2>2. UNCHANGED <<clock, inCycle, oneShot, approved, placed, overlooked, crashes>>
    BY <1>6 DEF Complete
  <2>3. task' \in {"down", "sleeping"} /\ timer' = NextTimer
    BY <1>6 DEF Complete
  <2>4. TypeOK'
    BY <1>1, <1>2, <2>1, <2>2, <2>3 DEF TypeOK, clock, inCycle
  <2> QED
    BY <2>3, <2>4 DEF CycleOpen, InProgress, EngineInv
<1> QED
  BY <1>3, <1>4, <1>5, <1>6

\* The quote loop and the clock.  A cycle may be open over midnight.
LEMMA WorldKeeps ==
  ASSUME EngineInv, Fill \/ Dawn \/ Midnight
  PROVE  EngineInv'
<1>1. TypeOK /\ CycleOpen
  BY DEF EngineInv
<1>2. CASE Fill
  <2>1. placed' \in Books
    BY <1>1, <1>2, FillSteps DEF TypeOK, Books
  <2>2. UNCHANGED <<clock, inCycle, process, cycle, overlooked, crashes>>
    BY <1>2 DEF Fill
  <2> QED
    BY <1>1, <2>1, <2>2 DEF TypeOK, CycleOpen, EngineInv, Books, clock, inCycle, process
<1>3. CASE Dawn
  BY <1>1, <1>3 DEF Dawn, TypeOK, CycleOpen, EngineInv, inCycle, process, durable
<1>4. CASE Midnight
  <2>1. day' \in Days /\ day \in Nat /\ day' = day + 1 /\ cycleDay \in Nat
    BY <1>1, <1>4, EngineAssumption DEF Midnight, TypeOK, Days
  <2>2. UNCHANGED <<inCycle, process, durable, overlooked, crashes>> /\ morning' = TRUE
    BY <1>4 DEF Midnight
  <2>3. TypeOK'
    BY <1>1, <2>1, <2>2 DEF TypeOK, inCycle, process, durable
  <2>4. CycleOpen'
    BY <1>1, <2>1, <2>2 DEF CycleOpen, inCycle, process, durable
  <2> QED
    BY <2>3, <2>4 DEF EngineInv
<1> QED
  BY <1>2, <1>3, <1>4

\* Deaths and beginnings.
LEMMA ProcessKeeps ==
  ASSUME EngineInv, Wake \/ WakeCompleted \/ Crash \/ Restart \/ RunCycleCommand
  PROVE  EngineInv'
<1>1. TypeOK /\ CycleOpen
  BY DEF EngineInv
<1>2. NextTimer \in 1..(MaxDays + 1) /\ <<>> \in Remainders
  BY <1>1, NextTimerType, LeftOver
<1>3. CASE Wake
  BY <1>1, <1>3, BeginKeeps DEF Wake, TypeOK
<1>4. CASE WakeCompleted
  BY <1>1, <1>2, <1>4 DEF WakeCompleted, TypeOK, CycleOpen, EngineInv, clock, inCycle, durable
<1>5. CASE Crash
  <2>1. crashes' \in 0..MaxCrashes
    BY <1>1, <1>5, EngineAssumption DEF Crash, TypeOK
  <2>2. \E n \in 0..Len(Symbols) : left' = SubSeq(Symbols, n + 1, Len(Symbols))
    BY <1>2, <1>5, RemainderType DEF Crash
  <2> QED
    BY <1>1, <1>5, <2>1, <2>2
    DEF Crash, TypeOK, CycleOpen, InProgress, EngineInv, clock, durable
<1>6. CASE Restart
  BY <1>1, <1>2, <1>6 DEF Restart, TypeOK, CycleOpen, InProgress, EngineInv, clock, inCycle, durable
<1>7. CASE RunCycleCommand
  BY <1>7, BeginKeeps DEF RunCycleCommand
<1> QED
  BY <1>3, <1>4, <1>5, <1>6, <1>7

\* No step but a cycle's changes anything else.
LEMMA StutterKeeps ==
  ASSUME EngineInv, UNCHANGED vars
  PROVE  EngineInv'
BY DEF EngineInv, TypeOK, CycleOpen, vars, clock, inCycle, process, durable

\* In every reachable state the variables have their types, and the record of a
\* cycle in progress is not completed, of no later date than this: no process that
\* died leaves it open to another one, and no midnight that passes in it closes it.
THEOREM CycleIsOpen == Spec => []EngineInv
<1>1. Init => EngineInv
  BY EngineInvInit
<1>2. EngineInv /\ [Next]_vars => EngineInv'
  BY DecideKeeps, CycleKeeps, WorldKeeps, ProcessKeeps, StutterKeeps DEF Next, DailyTask
<1> QED
  BY <1>1, <1>2, PTL DEF Spec

-----------------------------------------------------------------------------
(* A completed day.                                                        *)

Closed ==
  \A id \in OrderIds :
    cycle[id[3]] = "COMPLETED" =>
      /\ cycle'[id[3]] = "COMPLETED"
      /\ placed[id] = None => placed'[id] = None

\* A record is completed, or prepared for a date whose record is not completed;
\* an order is placed for a date whose record is prepared.
LEMMA StepsKeepClosed ==
  ASSUME EngineInv, [Next]_vars
  PROVE  Closed
<1>1. /\ TypeOK /\ CycleOpen /\ cycle \in [Days -> {"NONE", "PREPARED", "COMPLETED"}]
      /\ placed \in Books /\ day \in Days /\ cycleDay \in Days
  BY DEF EngineInv, TypeOK, Books
<1>2. \A id \in OrderIds : id[3] \in Days
  BY DEF OrderIds
<1>3. ASSUME cycle' = cycle, placed' = placed PROVE Closed
  BY <1>3 DEF Closed
<1>4. ASSUME BeginCycle, cycle[day] # "COMPLETED" PROVE Closed
  BY <1>1, <1>2, <1>4 DEF Closed, BeginCycle
<1>5. CASE Wake
  BY <1>4, <1>5 DEF Wake
<1>6. CASE RunCycleCommand
  BY <1>4, <1>6 DEF RunCycleCommand
<1>7. CASE Complete
  BY <1>1, <1>2, <1>7 DEF Closed, Complete
<1>8. CASE Decide
  <2>1. /\ task = "deciding" /\ cycle' = cycle /\ Head(left) \in Symbol
        /\ UNCHANGED placed \/ Places(Head(left))
    BY <1>1, <1>8, DecideSteps, LeftIs, LeftOver
  <2>2. cycle[cycleDay] = "PREPARED"
    BY <1>1, <2>1 DEF CycleOpen, InProgress
  <2>3. CASE UNCHANGED placed
    BY <1>3, <2>1, <2>3
  <2>4. CASE Places(Head(left))
    <3>1. PICK id \in OrderIds, order \in Orders :
            id[3] = cycleDay /\ placed' = [placed EXCEPT ![id] = order]
      BY <1>1, <2>1, <2>4, PlacesOrder
    <3>2. \A x \in OrderIds : x # id => placed'[x] = placed[x]
      BY <1>1, <3>1, PlacedKeeps
    <3> QED
      BY <2>1, <2>2, <3>1, <3>2 DEF Closed
  <2> QED
    BY <2>1, <2>3, <2>4
<1>9. CASE Fill
  <2>1. cycle' = cycle
    BY <1>9 DEF Fill
  <2>2. \A id \in OrderIds : placed[id] = None => placed'[id] = None
    BY <1>1, <1>9, FillSteps DEF OneFilled
  <2> QED
    BY <2>1, <2>2 DEF Closed
<1>10. CASE WakeCompleted \/ Snapshot \/ Alerted \/ Record \/ Dawn \/ Midnight \/ Crash
            \/ Restart \/ UNCHANGED vars
  BY <1>3, <1>10
  DEF WakeCompleted, Snapshot, Alerted, Record, Dawn, Midnight, Crash, Restart, vars, durable
<1> QED
  BY <1>5, <1>6, <1>7, <1>8, <1>9, <1>10 DEF Next, DailyTask

\* A completed day is never opened again and gets no more orders, from no process:
\* neither from the loop after a restart nor from the cycle command.
THEOREM DayIsClosed == Spec => CompletedIsClosed
<1>1. EngineInv /\ [Next]_vars => Closed
  BY StepsKeepClosed
<1>2. Closed => \A id \in OrderIds :
                  cycle[id[3]] = "COMPLETED" =>
                    /\ cycle'[id[3]] = "COMPLETED"
                    /\ placed[id] = None => placed'[id] = None
  BY DEF Closed
<1> QED
  BY <1>1, <1>2, CycleIsOpen, PTL DEF Spec, CompletedIsClosed

-----------------------------------------------------------------------------
(* The book of one instrument, step by step.                               *)

\* What is known of the orders in every state.
LEMMA BookTypes ==
  ASSUME TypeOK, NEW symbol \in Symbol
  PROVE  placed \in Books /\ seen[symbol] \in Int /\ Held(symbol) \in Int /\ PositionCap \in Nat
BY PositionIs, PositionType, LimitsAssumption DEF TypeOK, Books, Held

\* What rests of an instrument at a venue.
LEMMA RestingIs ==
  ASSUME NEW venue, NEW symbol, NEW id
  PROVE  /\ id \in RestingAt(venue, symbol) <=>
              /\ id \in OrderIds /\ placed[id] # None /\ placed[id].status = "OPEN"
              /\ id[2] = symbol /\ placed[id].venue = venue
         /\ id \in RestingAt(venue, symbol)' <=>
              /\ id \in OrderIds /\ placed'[id] # None /\ placed'[id].status = "OPEN"
              /\ id[2] = symbol /\ placed'[id].venue = venue
BY DEF RestingAt, Resting

\* A book is left alone as long as the position and what rests are.
LEMMA SameBook ==
  ASSUME NEW symbol \in Symbol, Book(symbol), Held(symbol)' = Held(symbol),
         RestingAt("coinbase", symbol)' = RestingAt("coinbase", symbol),
         \A id \in RestingAt("coinbase", symbol) : placed'[id] = placed[id]
  PROVE  Book(symbol)'
BY DEF Book

\* The orders of an instrument are left alone.
LEMMA SameOrders ==
  ASSUME TypeOK, placed' \in Books, NEW symbol \in Symbol,
         \A id \in OrderIds : id[2] = symbol => placed'[id] = placed[id]
  PROVE  /\ Held(symbol)' = Held(symbol)
         /\ RestingAt("coinbase", symbol)' = RestingAt("coinbase", symbol)
         /\ \A id \in RestingAt("coinbase", symbol) : placed'[id] = placed[id]
<1>1. Held(symbol)' = Held(symbol)
  BY BookTypes, PositionIs, PositionOwn DEF Held
<1>2. \A id : id \in RestingAt("coinbase", symbol)' <=> id \in RestingAt("coinbase", symbol)
  BY RestingIs
<1>3. RestingAt("coinbase", symbol)' = RestingAt("coinbase", symbol)
  BY <1>2
<1>4. \A id \in RestingAt("coinbase", symbol) : placed'[id] = placed[id]
  BY RestingIs
<1> QED
  BY <1>1, <1>3, <1>4

\* Then what is known of it stays known.
LEMMA SameKeeps ==
  ASSUME TypeOK, placed' \in Books, overlooked' = overlooked, NEW symbol \in Symbol, Kept(symbol),
         \A id \in OrderIds : id[2] = symbol => placed'[id] = placed[id],
         task' \in {"deciding", "alerting"} /\ Among(symbol, left') =>
           task \in {"deciding", "alerting"} /\ Among(symbol, left) /\ seen' = seen
  PROVE  Kept(symbol)'
<1> SUFFICES ASSUME symbol \notin overlooked PROVE Book(symbol)' /\ Exact(symbol)'
  BY DEF Kept, Tracked
<1>1. Book(symbol) /\ Exact(symbol)
  BY DEF Kept, Tracked
<1>2. /\ Held(symbol)' = Held(symbol)
      /\ RestingAt("coinbase", symbol)' = RestingAt("coinbase", symbol)
      /\ \A id \in RestingAt("coinbase", symbol) : placed'[id] = placed[id]
  BY SameOrders
<1>3. Book(symbol)'
  BY <1>1, <1>2, SameBook
<1>4. Exact(symbol)'
  BY <1>1, <1>2 DEF Exact
<1> QED
  BY <1>3, <1>4

\* The steps that change no order and no snapshot.
LEMMA QuietKeepsBooks ==
  ASSUME IInv, EngineInv', placed' = placed, overlooked' = overlooked,
         task' \in {"deciding", "alerting"} =>
           task \in {"deciding", "alerting"} /\ left' = left /\ seen' = seen
  PROVE  IInv'
<1>1. TypeOK /\ placed' \in Books
  BY DEF IInv, EngineInv, TypeOK, Books
<1>2. ASSUME NEW symbol \in Symbol PROVE Kept(symbol)'
  BY <1>1, SameKeeps DEF IInv
<1> QED
  BY <1>2 DEF IInv

\* Positions are read: of what stays tracked nothing rests.
LEMMA SnapshotKeepsBooks ==
  ASSUME IInv, Snapshot
  PROVE  IInv'
<1>1. /\ TypeOK /\ EngineInv' /\ placed' \in Books /\ placed' = placed
      /\ overlooked' = overlooked \cup {s \in Symbol : RestingAt("coinbase", s) # {}}
      /\ seen' = [s \in Symbol |-> Held(s)]
  BY CycleKeeps DEF IInv, EngineInv, TypeOK, Books, Snapshot, durable, Held
<1>2. ASSUME NEW symbol \in Symbol, symbol \notin overlooked'
      PROVE  Book(symbol)' /\ Exact(symbol)'
  <2>1. Book(symbol) /\ RestingAt("coinbase", symbol) = {}
    BY <1>1, <1>2 DEF IInv, Kept, Tracked
  <2>2. /\ Held(symbol)' = Held(symbol)
        /\ RestingAt("coinbase", symbol)' = RestingAt("coinbase", symbol)
        /\ \A id \in RestingAt("coinbase", symbol) : placed'[id] = placed[id]
    BY <1>1, SameOrders
  <2>3. Book(symbol)'
    BY <2>1, <2>2, SameBook
  <2>4. seen'[symbol] = Held(symbol)
    BY <1>1
  <2>5. Exact(symbol)'
    BY <2>1, <2>2, <2>4 DEF Exact
  <2> QED
    BY <2>3, <2>5
<1> QED
  BY <1>1, <1>2 DEF IInv, Kept, Tracked

\* An order is placed for a tracked instrument of which nothing rests, at a venue
\* whose positions are read or not.
LEMMA PlacedKeepsBook ==
  ASSUME TypeOK, NEW symbol \in Symbol, Book(symbol), RestingAt("coinbase", symbol) = {},
         NEW id \in OrderIds, NEW order \in Orders, order.status = "OPEN",
         placed[id] = None, placed' = [placed EXCEPT ![id] = order],
         Held(symbol) + order.quantity \in 0..PositionCap
  PROVE  Book(symbol)'
<1>1. /\ placed \in Books /\ placed' \in Books /\ placed'[id] = order
      /\ \A x \in OrderIds : x # id => placed'[x] = placed[x]
  BY BookTypes, PlacedKeeps
<1>2. Held(symbol)' = Held(symbol)
  <2>1. Total(placed', FilledOf(placed', "coinbase", symbol))
          = Total(placed, FilledOf(placed, "coinbase", symbol))
    <3>1. placed[id] = None /\ placed'[id].status = "OPEN" /\ id \in OrderIds
      BY <1>1
    <3> QED
      BY ONLY <1>1, <3>1, PositionPlaced
  <2> QED
    BY <2>1, PositionIs DEF Held
<1>3. RestingAt("coinbase", symbol)' \subseteq {id}
  <2>1. ASSUME NEW x \in OrderIds, x # id PROVE x \notin RestingAt("coinbase", symbol)'
    <3>1. x \notin RestingAt("coinbase", symbol) /\ placed'[x] = placed[x]
      BY <1>1, <2>1
    <3> QED
      BY <3>1, RestingIs
  <2> QED
    BY <2>1, RestingIs
<1>4. Held(symbol) \in 0..PositionCap
  BY DEF Book
<1>5. \A x \in RestingAt("coinbase", symbol)' : x = id
  BY <1>3
<1> QED
  BY <1>1, <1>2, <1>4, <1>5 DEF Book

\* The loop of the cycle.
LEMMA DecideKeepsBooks ==
  ASSUME IInv, Decide
  PROVE  IInv'
<1>1. TypeOK /\ EngineInv'
  BY DecideKeeps DEF IInv, EngineInv
<1>2. /\ task = "deciding" /\ left # <<>> /\ left' = Tail(left)
      /\ seen' = seen /\ overlooked' = overlooked
      /\ UNCHANGED placed \/ Places(Head(left))
  BY <1>1, DecideSteps
<1>0. PICK treated : treated = Head(left)
  OBVIOUS
<1>3. /\ treated \in Symbol
      /\ \A s : Among(s, left') => s # treated /\ Among(s, left)
  BY <1>0, <1>1, <1>2, LeftIs, LeftOver
<1>4. Among(treated, left)
  <2>1. left[1] = treated /\ Len(left) \in Nat /\ Len(left) # 0
    <3>1. left \in Seq(STRING)
      BY <1>1, EngineAssumption DEF TypeOK
    <3> QED
      BY <1>0, <1>2, <3>1
  <2> QED
    BY <2>1 DEF Among
<1>5. placed' \in Books
  BY <1>1 DEF EngineInv, TypeOK, Books
<1>6. CASE UNCHANGED placed
  <2>1. ASSUME NEW s \in Symbol PROVE Kept(s)'
    BY <1>1, <1>2, <1>3, <1>5, <1>6, SameKeeps DEF IInv
  <2> QED
    BY <1>1, <2>1 DEF IInv
<1>7. CASE Places(treated)
  <2>1. PICK id \in OrderIds, order \in Orders :
          /\ placed[id] = None /\ id[2] = treated /\ order.status = "OPEN"
          /\ placed' = [placed EXCEPT ![id] = order]
          /\ seen[treated] \in 0..PositionCap
               => seen[treated] + order.quantity \in 0..PositionCap
    BY <1>1, <1>3, <1>7, PlacesOrder
  <2>2. \A x \in OrderIds : x # id => placed'[x] = placed[x]
    BY <1>1, <2>1, PlacedKeeps
  <2>3. ASSUME NEW s \in Symbol, s # treated PROVE Kept(s)'
    <3>1. \A x \in OrderIds : x[2] = s => placed'[x] = placed[x]
      BY <2>1, <2>2, <2>3
    <3> QED
      BY <1>1, <1>2, <1>3, <1>5, <3>1, SameKeeps DEF IInv
  <2>4. ASSUME treated \notin overlooked PROVE Book(treated)' /\ Exact(treated)'
    <3>1. Book(treated) /\ RestingAt("coinbase", treated) = {} /\ seen[treated] = Held(treated)
      BY <1>2, <1>3, <1>4, <2>4 DEF IInv, Kept, Tracked, Exact
    <3>2. Held(treated) + order.quantity \in 0..PositionCap
      BY <2>1, <3>1 DEF Book
    <3>3. Book(treated)'
      BY <1>1, <1>3, <2>1, <3>1, <3>2, PlacedKeepsBook
    <3>4. ~ Among(treated, left')
      BY <1>3
    <3>5. Exact(treated)'
      BY <3>4 DEF Exact
    <3> QED
      BY <3>3, <3>5
  <2>5. ASSUME NEW s \in Symbol PROVE Kept(s)'
    BY <1>2, <2>3, <2>4 DEF Kept, Tracked
  <2> QED
    BY <1>1, <2>5 DEF IInv
<1> QED
  BY <1>0, <1>2, <1>6, <1>7

\* The quote loop: what rests of a tracked instrument is one order, and the
\* position gets to where that leads.
LEMMA FillKeepsBooks ==
  ASSUME IInv, Fill
  PROVE  IInv'
<1>1. TypeOK /\ EngineInv' /\ placed \in Books
  BY WorldKeeps DEF IInv, EngineInv, TypeOK, Books
<1>2. PICK id \in Resting :
        id \in OrderIds /\ placed' \in Books /\ OneFilled(placed, placed', id)
  BY <1>1, FillSteps
<1>3. /\ task' = task /\ left' = left /\ seen' = seen /\ overlooked' = overlooked
  BY DEF Fill, process, inCycle
<1>4. \A x \in OrderIds : x # id => placed'[x] = placed[x]
  BY <1>2 DEF OneFilled
<1>5. ASSUME NEW s \in Symbol, s # id[2] PROVE Kept(s)'
  <2>1. \A x \in OrderIds : x[2] = s => placed'[x] = placed[x]
    BY <1>4, <1>5
  <2> QED
    BY <1>1, <1>2, <1>3, <2>1, SameKeeps DEF IInv
<1>6. ASSUME NEW s \in Symbol, s = id[2], s \notin overlooked
      PROVE  Book(s)' /\ Exact(s)'
  <2>1. Book(s) /\ Exact(s)
    BY <1>6 DEF IInv, Kept, Tracked
  <2>2. /\ placed[id].status = "OPEN" /\ placed'[id].status = "FILLED"
        /\ placed'[id].venue = placed[id].venue /\ placed[id] # None
    BY <1>2 DEF OneFilled
  <2>3. RestingAt("coinbase", s)' = RestingAt("coinbase", s) \ {id}
    BY <1>2, <1>4, <2>2, RestingIs
  <2>4. CASE placed[id].venue # "coinbase"
    <3>1. Held(s)' = Held(s)
      BY <1>1, <1>2, <2>4, PositionIs, PositionElsewhere DEF Held
    <3>2. id \notin RestingAt("coinbase", s)
      BY <2>4, RestingIs
    <3>3. RestingAt("coinbase", s)' = RestingAt("coinbase", s)
      BY <2>3, <3>2
    <3>4. \A x \in RestingAt("coinbase", s) : placed'[x] = placed[x]
      BY <1>4, <3>2, RestingIs
    <3>5. Book(s)'
      BY <2>1, <3>1, <3>3, <3>4, SameBook
    <3>6. Exact(s)'
      BY <1>3, <2>1, <3>1, <3>3 DEF Exact
    <3> QED
      BY <3>5, <3>6
  <2>5. CASE placed[id].venue = "coinbase"
    <3>1. id \in RestingAt("coinbase", s)
      BY <1>2, <1>6, <2>2, <2>5, RestingIs
    <3>2. RestingAt("coinbase", s)' = {}
      BY <2>1, <2>3, <3>1 DEF Book
    <3>3. Held(s)' = Held(s) + placed[id].quantity
      <4>1. Total(placed', FilledOf(placed', "coinbase", s))
              = Total(placed, FilledOf(placed, "coinbase", s)) + placed[id].quantity
        BY <1>1, <1>2, <1>6, <2>5, PositionFilled
      <4> QED
        BY <4>1, PositionIs DEF Held
    <3>4. Held(s) + placed[id].quantity \in 0..PositionCap
      BY <2>1, <3>1 DEF Book
    <3>5. Book(s)'
      BY <3>2, <3>3, <3>4 DEF Book
    <3>6. Exact(s)'
      BY <1>3, <2>1, <3>1 DEF Exact
    <3> QED
      BY <3>5, <3>6
  <2> QED
    BY <2>4, <2>5
<1>7. ASSUME NEW s \in Symbol PROVE Kept(s)'
  BY <1>3, <1>5, <1>6 DEF Kept, Tracked
<1> QED
  BY <1>1, <1>7 DEF IInv

\* The books hold at the start.
LEMMA IInvInit ==
  ASSUME Init
  PROVE  IInv
<1>1. EngineInv /\ TypeOK /\ placed \in Books
  BY EngineInvInit DEF EngineInv, TypeOK, Books
<1>2. \A id \in OrderIds : placed[id] = None
  BY DEF Init
<1>3. ASSUME NEW symbol \in Symbol PROVE Kept(symbol)
  <2>1. Held(symbol) = 0
    BY <1>1, <1>2, PositionIs, NothingHeld DEF Held
  <2>2. RestingAt("coinbase", symbol) = {} /\ PositionCap \in Nat
    BY <1>2, RestingIs, LimitsAssumption
  <2>3. task = "sleeping"
    BY DEF Init
  <2> QED
    BY <2>1, <2>2, <2>3 DEF Kept, Book, Exact
<1> QED
  BY <1>1, <1>3 DEF IInv

\* The books hold after every step.
LEMMA IInvNext ==
  ASSUME IInv, [Next]_vars
  PROVE  IInv'
<1>1. EngineInv
  BY DEF IInv
<1>2. CASE Wake \/ WakeCompleted \/ Crash \/ Restart \/ RunCycleCommand
  <2>1. EngineInv'
    BY <1>1, <1>2, ProcessKeeps
  <2>2. placed' = placed /\ overlooked' = overlooked
    BY <1>2 DEF Wake, WakeCompleted, Crash, Restart, RunCycleCommand, BeginCycle, durable
  <2>3. task' \notin {"deciding", "alerting"}
    BY <1>2 DEF Wake, WakeCompleted, Crash, Restart, RunCycleCommand, BeginCycle
  <2> QED
    BY <2>1, <2>2, <2>3, QuietKeepsBooks
<1>3. CASE Alerted \/ Record \/ Complete
  <2>1. EngineInv'
    BY <1>1, <1>3, CycleKeeps
  <2>2. placed' = placed /\ overlooked' = overlooked
    BY <1>3 DEF Alerted, Record, Complete, durable
  <2>3. task' \in {"deciding", "alerting"} =>
          task \in {"deciding", "alerting"} /\ left' = left /\ seen' = seen
    BY <1>3 DEF Alerted, Record, Complete, inCycle
  <2> QED
    BY <2>1, <2>2, <2>3, QuietKeepsBooks
<1>4. CASE Dawn \/ Midnight
  <2>1. EngineInv'
    BY <1>1, <1>4, WorldKeeps
  <2> QED
    BY <1>4, <2>1, QuietKeepsBooks DEF Dawn, Midnight, durable, inCycle, process
<1>5. CASE UNCHANGED vars
  <2>1. EngineInv'
    BY <1>1, <1>5, StutterKeeps
  <2> QED
    BY <1>5, <2>1, QuietKeepsBooks DEF vars, durable, inCycle, process
<1> QED
  BY <1>2, <1>3, <1>4, <1>5, DecideKeepsBooks, FillKeepsBooks, SnapshotKeepsBooks
  DEF Next, DailyTask

-----------------------------------------------------------------------------
(* What follows.                                                           *)

\* In every reachable state, over deaths and over cycles that are run again or
\* beyond midnight, whatever venues are routable, the books of every tracked
\* instrument hold.
THEOREM BooksHold == Spec => []IInv
<1>1. Init => IInv
  BY IInvInit
<1>2. IInv /\ [Next]_vars => IInv'
  BY IInvNext
<1> QED
  BY <1>1, <1>2, PTL DEF Spec

\* The books bound every tracked position.
LEMMA BooksAreSafe ==
  ASSUME IInv
  PROVE  TypeOK /\ CapHolds /\ NoReversal
<1>1. TypeOK
  BY DEF IInv, EngineInv
<1>2. ASSUME NEW symbol \in Symbol, Tracked(symbol), NEW n \in Outcomes(symbol)
      PROVE  n >= 0 /\ n <= PositionCap
  <2>1. Book(symbol)
    BY <1>2 DEF IInv, Kept
  <2>2. n \in 0..PositionCap
    BY <1>2, <2>1 DEF Book, Outcomes, Held
  <2>3. PositionCap \in Nat
    BY LimitsAssumption
  <2> QED
    BY <2>2, <2>3
<1> QED
  BY <1>1, <1>2 DEF CapHolds, NoReversal

\* In every reachable state the variables have their types and no tracked position
\* is above its cap or will be when what rests is filled, whichever cycle of
\* whichever process placed it.
THEOREM EngineIsSafe == Spec => []EngineSafe
<1>1. IInv => EngineSafe
  BY BooksAreSafe DEF EngineSafe
<1> QED
  BY <1>1, BooksHold, PTL

\* No tracked position is reversed or will be: not by an exit of the day before,
\* not by the order that ends flat when a rerun places it after the one to a target.
THEOREM NothingIsReversed == Spec => []NoReversal
<1>1. IInv => NoReversal
  BY BooksAreSafe
<1> QED
  BY <1>1, BooksHold, PTL
=============================================================================
