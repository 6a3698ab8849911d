------------------------- MODULE EngineLedgerProofs -------------------------
(***************************************************************************)
(* Proofs about EngineLedger, for any number of days, process starts,      *)
(* days of a week, equities and positions.                                 *)
(*                                                                         *)
(* The argument is about time.  A round of the daily cycle carries the     *)
(* present time, because the date does not change under it; a round of the *)
(* quote loop may carry an earlier one, but none from before its process   *)
(* started.  So a close always comes last in the history, and a roll by an *)
(* old reading finds the day and the week where the last cycle left them.  *)
(***************************************************************************)
EXTENDS EngineLedger, TLAPS

-----------------------------------------------------------------------------
(* The inductive invariant.                                                *)

\* What a task may be in the middle of.  Only the daily task closes or recovers;
\* it carries the present time, the quote loop this or an earlier one; and what an
\* alert told is in the journal.
Working ==
  /\ process = "down" => work = [t \in Tasks |-> None]
  /\ process # "service" => work["quotes"] = None
  /\ work["quotes"] # None => work["quotes"].purpose = "refresh" /\ work["quotes"].now <= Now
  /\ work["daily"] # None => work["daily"].now = Now
  /\ \A t \in Tasks : work[t] # None =>
       /\ work[t].step \in {"fetching", "deciding"} => work[t].purpose = "refresh"
       /\ work[t].step = "alerting" => work[t].told \in alerts

\* A close that awaits its alert has left its point.
Closing ==
  work["daily"] # None /\ work["daily"].step = "alerting" /\ work["daily"].purpose = "close" =>
    ledger # None /\ ledger.lastCycle = day

\* The points are those of the cycles so far, in order, the last one of them that
\* of the last cycle.
History ==
  /\ ledger = None => done = {}
  /\ ledger # None =>
       LET history == ledger.history IN
       /\ ledger.lastCycle = None <=> history = <<>>
       /\ history # <<>> => ledger.lastCycle = Date(history[Len(history)].at)
       /\ \A i \in 1..Len(history) : history[i].at <= Now
       /\ \A i, j \in 1..Len(history) : i < j => Date(history[i].at) < Date(history[j].at)
       /\ \A d \in done : \E i \in 1..Len(history) : Date(history[i].at) = d

\* The baselines are those of the day and the week the last cycle was in, if the
\* present is still in them.
Baselines ==
  ledger # None /\ ledger.lastCycle # None =>
    /\ ledger.lastCycle = day => CloseBefore(ledger.history, day, ledger.dayStart)
    /\ Week(ledger.lastCycle) = Week(day) =>
         CloseBefore(ledger.history, Week(day) * WeekDays, ledger.weekStart)

\* The points of the PAPER run are those from its start on, and before its start is
\* recorded every point is older than what any task carries.
PaperRun ==
  ledger # None =>
    /\ ledger.paperStart # None =>
         /\ mode = "PAPER" /\ ledger.paperStart <= Now
         /\ \A i \in 1..Len(ledger.history) :
              ledger.history[i].mode = "PAPER" <=> ledger.history[i].at >= ledger.paperStart
    /\ ledger.paperStart = None =>
         /\ \A i \in 1..Len(ledger.history) : ledger.history[i].mode = "DRY_RUN"
         /\ mode = "PAPER" /\ process # "down" =>
              \A i \in 1..Len(ledger.history) :
                /\ ledger.history[i].at < Now
                /\ \A t \in Tasks : work[t] # None => ledger.history[i].at < work[t].now

IInv == TypeOK /\ Working /\ Closing /\ History /\ Baselines /\ AlertBeforeStored

-----------------------------------------------------------------------------
(* Numbers.                                                                *)

\* Multiplication keeps the order.
LEMMA ProductsInOrder ==
  ASSUME NEW a \in Nat, NEW b \in Nat, NEW k \in Nat, a <= b
  PROVE  a * k <= b * k
<1> DEFINE c == b - a
<1>1. c \in Nat /\ b = a + c
  OBVIOUS
<1>2. c * k \in Nat /\ b * k = a * k + c * k /\ a * k \in Nat
  BY <1>1
<1> QED
  BY <1>2

\* What division is.
LEMMA Division ==
  ASSUME NEW n \in Nat, NEW k \in Nat \ {0}
  PROVE  /\ n \div k \in Nat
         /\ (n \div k) * k <= n
         /\ n < (n \div k) * k + k
OBVIOUS

\* Division keeps the order: no date, and no week, goes back.
LEMMA QuotientsInOrder ==
  ASSUME NEW a \in Nat, NEW b \in Nat, NEW k \in Nat \ {0}, a <= b
  PROVE  a \div k <= b \div k
<1> DEFINE p == a \div k
           q == b \div k
<1>1. p \in Nat /\ q \in Nat /\ p * k <= a /\ b < q * k + k
  BY Division
<1> HIDE DEF p, q
<1>2. ASSUME q + 1 <= p PROVE FALSE
  <2>1. (q + 1) * k <= p * k
    BY <1>1, <1>2, ProductsInOrder
  <2>2. (q + 1) * k = q * k + k
    BY <1>1
  <2>3. p * k \in Nat /\ q * k \in Nat
    BY <1>1
  <2> QED
    BY <1>1, <2>1, <2>2, <2>3
<1>3. p <= q
  BY <1>1, <1>2
<1> QED
  BY <1>3 DEF p, q

\* The quotient is the only number whose multiple is that near.
LEMMA QuotientIs ==
  ASSUME NEW n \in Nat, NEW k \in Nat \ {0}, NEW q \in Nat, q * k <= n, n < q * k + k
  PROVE  n \div k = q
<1> DEFINE d == n \div k
<1>1. d \in Nat /\ d * k <= n /\ n < d * k + k
  BY Division
<1> HIDE DEF d
<1>2. d * k \in Nat /\ q * k \in Nat
  BY <1>1
<1>3. ASSUME q + 1 <= d PROVE FALSE
  <2>1. (q + 1) * k <= d * k
    BY <1>1, <1>3, ProductsInOrder
  <2>2. (q + 1) * k = q * k + k
    OBVIOUS
  <2> QED
    BY <1>1, <1>2, <2>1, <2>2
<1>4. ASSUME d + 1 <= q PROVE FALSE
  <2>1. (d + 1) * k <= q * k
    BY <1>1, <1>4, ProductsInOrder
  <2>2. (d + 1) * k = d * k + k
    BY <1>1
  <2> QED
    BY <1>1, <1>2, <2>1, <2>2
<1>5. d = q
  BY <1>1, <1>3, <1>4
<1> QED
  BY <1>5 DEF d

-----------------------------------------------------------------------------
(* Time.                                                                   *)

\* Every time has a date and every date a week, and neither goes back.
LEMMA DatesInOrder ==
  /\ \A t \in Nat : Date(t) \in Nat
  /\ \A s, t \in Nat : s <= t => Date(s) <= Date(t)
  /\ \A d \in Nat : Week(d) \in Nat
  /\ \A c, d \in Nat : c <= d => Week(c) <= Week(d)
<1>1. MaxStarts + 1 \in Nat \ {0} /\ WeekDays \in Nat \ {0}
  BY LedgerAssumption
<1>2. \A t \in Nat : Date(t) \in Nat
  BY <1>1, Division DEF Date
<1>3. \A s, t \in Nat : s <= t => Date(s) <= Date(t)
  BY <1>1, QuotientsInOrder DEF Date
<1>4. \A d \in Nat : Week(d) \in Nat
  BY <1>1, Division DEF Week
<1>5. \A c, d \in Nat : c <= d => Week(c) <= Week(d)
  BY <1>1, QuotientsInOrder DEF Week
<1> QED
  BY <1>2, <1>3, <1>4, <1>5

\* A date is before a week if its own week is.
LEMMA BeforeWeek ==
  ASSUME NEW d \in Nat, NEW w \in Nat
  PROVE  /\ w * WeekDays \in Nat
         /\ d < w * WeekDays <=> Week(d) < w
<1>1. WeekDays \in Nat \ {0}
  BY LedgerAssumption
<1> DEFINE q == d \div WeekDays
<1>2. q \in Nat /\ q * WeekDays <= d /\ d < q * WeekDays + WeekDays
  BY <1>1, Division
<1> HIDE DEF q
<1>3. q * WeekDays \in Nat /\ w * WeekDays \in Nat
  BY <1>1, <1>2
<1>4. ASSUME q < w PROVE d < w * WeekDays
  <2>1. (q + 1) * WeekDays <= w * WeekDays
    BY <1>1, <1>2, <1>4, ProductsInOrder
  <2>2. (q + 1) * WeekDays = q * WeekDays + WeekDays
    BY <1>1, <1>2
  <2> QED
    BY <1>1, <1>2, <1>3, <2>1, <2>2
<1>5. ASSUME w <= q PROVE w * WeekDays <= d
  <2>1. w * WeekDays <= q * WeekDays
    BY <1>1, <1>2, <1>5, ProductsInOrder
  <2> QED
    BY <1>2, <1>3, <2>1
<1>6. d < w * WeekDays <=> q < w
  BY <1>2, <1>3, <1>4, <1>5
<1> QED
  BY <1>3, <1>6 DEF q, Week

\* The time of a day and a process is of that day.
LEMMA DateOfNow ==
  ASSUME NEW d \in Nat, NEW n \in 0..MaxStarts
  PROVE  /\ d * (MaxStarts + 1) + n \in Nat
         /\ Date(d * (MaxStarts + 1) + n) = d
<1> DEFINE k == MaxStarts + 1
<1>1. k \in Nat \ {0} /\ n < k /\ n \in Nat
  BY LedgerAssumption
<1> HIDE DEF k
<1>2. d * k \in Nat
  BY <1>1
<1>3. (d * k + n) \div k = d
  BY <1>1, <1>2, QuotientIs
<1> QED
  BY <1>2, <1>1, <1>3 DEF k, Date

\* What every state knows of the time.
LEMMA Times ==
  ASSUME TypeOK
  PROVE  Now \in Nat /\ Date(Now) = day /\ day \in Nat /\ Week(day) \in Nat
<1>1. day \in Nat /\ starts \in 0..MaxStarts
  BY LedgerAssumption DEF TypeOK
<1> QED
  BY <1>1, DateOfNow, DatesInOrder DEF Now

-----------------------------------------------------------------------------
(* The ledger.                                                             *)

\* What is loaded is a ledger, without history if none was saved.
LEMMA LoadedIs ==
  ASSUME TypeOK
  PROVE  /\ Loaded \in Ledgers
         /\ ledger # None => Loaded = ledger
         /\ ledger = None =>
              Loaded.history = <<>> /\ Loaded.lastCycle = None /\ Loaded.paperStart = None
<1>1. CASE ledger # None
  BY <1>1 DEF TypeOK, Loaded
<1>2. CASE ledger = None
  <2>1. <<>> \in Seq(Points)
    OBVIOUS
  <2> QED
    BY <1>2, <2>1, LedgerAssumption DEF Loaded, Ledgers
<1> QED
  BY <1>1, <1>2

\* A roll leaves the points and dates alone, moves the baselines only in a later day
\* or week than the last cycle's, and then to the last close.
LEMMA RollIs ==
  ASSUME NEW old \in Ledgers, NEW t \in Nat, NEW equity \in Equities
  PROVE  LET new == Roll(old, t, equity)
             n == Len(old.history)
         IN /\ new \in Ledgers
            /\ new.history = old.history /\ new.lastCycle = old.lastCycle
            /\ new.paperStart = old.paperStart /\ new.peak >= old.peak
            /\ old.lastCycle # None /\ ~ (Date(t) > old.lastCycle) =>
                 new.dayStart = old.dayStart /\ new.weekStart = old.weekStart
            /\ old.lastCycle # None /\ Date(t) > old.lastCycle /\ old.history # <<>> =>
                 /\ new.dayStart = old.history[n].equity
                 /\ new.weekStart = IF Week(Date(t)) # Week(old.lastCycle)
                                      THEN old.history[n].equity ELSE old.weekStart
<1> DEFINE latest == IF old.history = <<>> THEN equity ELSE Last(old.history).equity
           newDay == old.lastCycle # None /\ Date(t) > old.lastCycle
           newWeek == newDay /\ Week(Date(t)) # Week(old.lastCycle)
           dayStart == IF old.lastCycle = None THEN equity ELSE IF newDay THEN latest
                         ELSE old.dayStart
           weekStart == IF old.lastCycle = None THEN equity ELSE IF newWeek THEN latest
                          ELSE old.weekStart
           peak == Highest(old.peak, equity)
<1>1. Roll(old, t, equity) =
        [old EXCEPT !.dayStart = dayStart, !.weekStart = weekStart, !.peak = peak]
  BY DEF Roll
<1>2. old.history \in Seq(Points) /\ old.peak \in Equities /\ old.dayStart \in Equities
        /\ old.weekStart \in Equities
  BY DEF Ledgers
<1>3. old.history # <<>> =>
        /\ Len(old.history) \in 1..Len(old.history)
        /\ Last(old.history) = old.history[Len(old.history)]
        /\ Last(old.history) \in Points
  BY <1>2 DEF Last
<1>4. latest \in Equities /\ (old.history # <<>> => latest = old.history[Len(old.history)].equity)
  BY <1>3 DEF Points
<1>5. peak \in Equities /\ peak >= old.peak
  <2>1. old.peak \in Nat /\ equity \in Nat
    BY <1>2, LedgerAssumption
  <2>2. CASE old.peak > equity
    BY <1>2, <2>1, <2>2 DEF Highest
  <2>3. CASE ~ (old.peak > equity)
    BY <1>2, <2>1, <2>3 DEF Highest
  <2> QED
    BY <2>2, <2>3
<1>6. (old.lastCycle # None /\ ~ (Date(t) > old.lastCycle) =>
         dayStart = old.dayStart /\ weekStart = old.weekStart)
      /\ (old.lastCycle # None /\ Date(t) > old.lastCycle =>
            /\ dayStart = latest
            /\ weekStart = IF Week(Date(t)) # Week(old.lastCycle) THEN latest ELSE old.weekStart)
  OBVIOUS
<1>7. dayStart \in Equities /\ weekStart \in Equities
  BY <1>2, <1>4
<1> HIDE DEF dayStart, weekStart, peak, latest, newDay, newWeek
<1>8. Roll(old, t, equity) \in Ledgers
  BY <1>1, <1>5, <1>7 DEF Ledgers
<1>9. /\ Roll(old, t, equity).dayStart = dayStart /\ Roll(old, t, equity).weekStart = weekStart
      /\ Roll(old, t, equity).peak = peak /\ Roll(old, t, equity).history = old.history
      /\ Roll(old, t, equity).lastCycle = old.lastCycle
      /\ Roll(old, t, equity).paperStart = old.paperStart
  BY <1>1 DEF Ledgers
<1> QED
  BY <1>4, <1>5, <1>6, <1>8, <1>9

\* What a round saves: a roll, and with a close the date and, if it is the first one
\* of its date, the point.
LEMMA RecordedIs ==
  ASSUME TypeOK, NEW t \in Nat, NEW equity \in Equities, NEW closing \in BOOLEAN
  PROVE  LET new == Recorded(t, equity, closing)
             rolled == Roll(Loaded, t, equity)
             history == Loaded.history
             point == [at |-> t, equity |-> equity, mode |-> mode]
         IN /\ new \in Ledgers /\ point \in Points
            /\ new.dayStart = rolled.dayStart /\ new.weekStart = rolled.weekStart
            /\ new.peak = rolled.peak
            /\ new.lastCycle = IF closing THEN Date(t) ELSE Loaded.lastCycle
            /\ new.paperStart = PaperStart(Loaded.paperStart, t)
            /\ new.history =
                 IF closing /\ (history = <<>> \/ Date(history[Len(history)].at) # Date(t))
                   THEN Append(history, point) ELSE history
<1> DEFINE rolled == Roll(Loaded, t, equity)
           point == [at |-> t, equity |-> equity, mode |-> mode]
           lastCycle == IF closing THEN Date(t) ELSE rolled.lastCycle
           paperStart == PaperStart(rolled.paperStart, t)
           history == IF closing THEN WithPoint(rolled.history, point) ELSE rolled.history
<1>1. Recorded(t, equity, closing) =
        [rolled EXCEPT !.lastCycle = lastCycle, !.paperStart = paperStart, !.history = history]
  BY DEF Recorded
<1>2. Loaded \in Ledgers
  BY LoadedIs
<1>3. rolled \in Ledgers /\ rolled.history = Loaded.history
        /\ rolled.lastCycle = Loaded.lastCycle /\ rolled.paperStart = Loaded.paperStart
  BY <1>2, RollIs
<1>4. point \in Points /\ Date(t) \in Nat
  BY DatesInOrder DEF Points, TypeOK
<1>5. Loaded.history \in Seq(Points) /\ Loaded.lastCycle \in Nat \cup {None}
        /\ Loaded.paperStart \in Nat \cup {None}
  BY <1>2 DEF Ledgers
<1>6. lastCycle \in Nat \cup {None} /\ paperStart \in Nat \cup {None}
  BY <1>3, <1>4, <1>5 DEF PaperStart
<1>7. history = IF closing /\ (Loaded.history = <<>>
                                 \/ Date(Loaded.history[Len(Loaded.history)].at) # Date(t))
                  THEN Append(Loaded.history, point) ELSE Loaded.history
  <2>1. point.at = t
    OBVIOUS
  <2> QED
    BY <1>3, <2>1 DEF WithPoint, Last
<1>8. history \in Seq(Points)
  <2> HIDE DEF point
  <2>1. Append(Loaded.history, point) \in Seq(Points)
    BY <1>4, <1>5
  <2> QED
    BY <1>5, <1>7, <2>1
<1>9. paperStart = PaperStart(Loaded.paperStart, t)
        /\ lastCycle = IF closing THEN Date(t) ELSE Loaded.lastCycle
  BY <1>3
<1> HIDE DEF lastCycle, paperStart, history, rolled
<1>10. Recorded(t, equity, closing) \in Ledgers
  BY <1>1, <1>3, <1>6, <1>8 DEF Ledgers
<1>11. /\ Recorded(t, equity, closing).dayStart = rolled.dayStart
       /\ Recorded(t, equity, closing).weekStart = rolled.weekStart
       /\ Recorded(t, equity, closing).peak = rolled.peak
       /\ Recorded(t, equity, closing).lastCycle = lastCycle
       /\ Recorded(t, equity, closing).paperStart = paperStart
       /\ Recorded(t, equity, closing).history = history
  BY <1>1, <1>3 DEF Ledgers
<1> QED
  BY <1>4, <1>7, <1>9, <1>10, <1>11 DEF rolled

-----------------------------------------------------------------------------
(* What is kept while the ledger is left alone.                            *)

\* The last cycle was on a date, which is not to come.
LEMMA LastCycleIs ==
  ASSUME TypeOK, History, ledger # None
  PROVE  /\ ledger \in Ledgers /\ ledger.history \in Seq(Points)
         /\ Len(ledger.history) \in Nat
         /\ ledger.history # <<>> => Len(ledger.history) \in 1..Len(ledger.history)
         /\ \A i \in 1..Len(ledger.history) :
              /\ ledger.history[i] \in Points /\ ledger.history[i].at \in Nat
              /\ Date(ledger.history[i].at) \in Nat
              /\ ledger.lastCycle \in Nat /\ Date(ledger.history[i].at) <= ledger.lastCycle
         /\ ledger.lastCycle # None =>
              /\ ledger.lastCycle \in Nat /\ ledger.lastCycle <= day
              /\ ledger.history # <<>>
              /\ ledger.lastCycle = Date(ledger.history[Len(ledger.history)].at)
<1> DEFINE h == ledger.history
<1>1. ledger \in Ledgers /\ h \in Seq(Points) /\ ledger.lastCycle \in Nat \cup {None}
  BY DEF TypeOK, Ledgers
<1>2. Len(h) \in Nat /\ (h # <<>> => Len(h) \in 1..Len(h))
  BY <1>1
<1>3. \A i \in 1..Len(h) : h[i] \in Points /\ h[i].at \in Nat
  <2>1. \A i \in 1..Len(h) : h[i] \in Points
    BY <1>1
  <2> QED
    BY <2>1 DEF Points
<1>4. \A i \in 1..Len(h) : Date(h[i].at) \in Nat /\ Date(h[i].at) <= day
  <2>1. \A i \in 1..Len(h) : h[i].at <= Now
    BY DEF History
  <2> QED
    BY <1>3, <2>1, Times, DatesInOrder
<1>5. ASSUME NEW i \in 1..Len(h)
      PROVE  ledger.lastCycle \in Nat /\ Date(h[i].at) <= ledger.lastCycle
  <2>1. h # <<>> /\ Len(h) \in 1..Len(h) /\ i <= Len(h)
    BY <1>1, <1>2
  <2>2. ledger.lastCycle = Date(h[Len(h)].at)
    BY <2>1 DEF History
  <2>3. i < Len(h) => Date(h[i].at) < Date(h[Len(h)].at)
    BY <2>1 DEF History
  <2>4. i \in Int /\ Len(h) \in Int /\ Date(h[i].at) \in Int /\ Date(h[Len(h)].at) \in Nat
    BY <1>2, <1>4, <2>1
  <2> QED
    BY <2>1, <2>2, <2>3, <2>4
<1>6. ASSUME ledger.lastCycle # None
      PROVE  h # <<>> /\ ledger.lastCycle = Date(h[Len(h)].at)
  BY <1>6 DEF History
<1> QED
  BY <1>1, <1>2, <1>3, <1>4, <1>5, <1>6

\* Time goes on, and the date of the last close is completed or not.
LEMMA HistoryKept ==
  ASSUME TypeOK, TypeOK', History, UNCHANGED ledger, Now' >= Now,
         \A d \in done' : d \in done \/ (ledger # None /\ d = ledger.lastCycle)
  PROVE  History'
<1>1. CASE ledger = None
  BY <1>1 DEF History
<1>2. CASE ledger # None
  <2> DEFINE h == ledger.history
  <2>1. \A i \in 1..Len(h) : h[i].at \in Nat
    BY <1>2, LastCycleIs
  <2>2. Now \in Int /\ Now' \in Int
    <3>1. Now' \in Int
      BY LedgerAssumption DEF TypeOK, Now
    <3> QED
      BY <3>1, Times
  <2>3. \A i \in 1..Len(h) : h[i].at <= Now'
    BY <1>2, <2>1, <2>2 DEF History
  <2>4. \A d \in done' : \E i \in 1..Len(h) : Date(h[i].at) = d
    <3> SUFFICES ASSUME NEW d \in done'
                 PROVE  \E i \in 1..Len(h) : Date(h[i].at) = d
      OBVIOUS
    <3>1. CASE d \in done
      BY <1>2, <3>1 DEF History
    <3>2. CASE d = ledger.lastCycle
      <4>1. d # None
        BY LedgerAssumption DEF TypeOK
      <4> QED
        BY <1>2, <3>2, <4>1, LastCycleIs
    <3> QED
      BY <3>1, <3>2
  <2> QED
    BY <1>2, <2>3, <2>4 DEF History
<1> QED
  BY <1>1, <1>2

\* The next day has no cycle yet, and its week, if it has one, is this day's.
LEMMA BaselinesKept ==
  ASSUME TypeOK, TypeOK', History, Baselines, UNCHANGED ledger, day' \in {day, day + 1}
  PROVE  Baselines'
<1> SUFFICES ASSUME ledger # None, ledger.lastCycle # None
             PROVE  /\ ledger.lastCycle = day' => CloseBefore(ledger.history, day', ledger.dayStart)
                    /\ Week(ledger.lastCycle) = Week(day') =>
                         CloseBefore(ledger.history, Week(day') * WeekDays, ledger.weekStart)
  BY DEF Baselines, CloseBefore, Week, Date
<1>1. ledger.lastCycle \in Nat /\ ledger.lastCycle <= day
  BY LastCycleIs
<1>2. day \in Nat /\ day' \in Nat
  BY Times, LedgerAssumption DEF TypeOK
<1>3. ledger.lastCycle = day' => day' = day
  BY <1>1, <1>2
<1>4. Week(ledger.lastCycle) = Week(day') => Week(day') = Week(day)
  <2>1. day <= day'
    BY <1>2
  <2>2. /\ Week(ledger.lastCycle) \in Nat /\ Week(day) \in Nat /\ Week(day') \in Nat
        /\ Week(ledger.lastCycle) <= Week(day) /\ Week(day) <= Week(day')
    BY <1>1, <1>2, <2>1, DatesInOrder
  <2> QED
    BY <2>2
<1> QED
  BY <1>3, <1>4 DEF Baselines

-----------------------------------------------------------------------------
(* The tasks.                                                              *)

\* A round begins with the present time.
LEMMA RoundIs ==
  ASSUME TypeOK, NEW step \in Steps, NEW purpose \in Purposes
  PROVE  /\ Round(step, purpose) \in Rounds
         /\ Round(step, purpose).step = step /\ Round(step, purpose).purpose = purpose
         /\ Round(step, purpose).now = Now
BY Times DEF Round, Rounds

\* A round that ends leaves the other task alone; the daily task goes on to its
\* decisions or is idle, a close completes the date, and a command dies idle.
LEMMA EndRoundIs ==
  ASSUME TypeOK, Working, NEW t \in Tasks, work[t] # None, EndRound(t)
  PROVE  /\ work' \in [Tasks -> Rounds \cup {None}]
         /\ \A u \in Tasks : u # t => work'[u] = work[u]
         /\ work'[t] # None =>
              /\ t = "daily" /\ work'[t].step = "deciding" /\ work'[t].purpose = "refresh"
              /\ work'[t].now = work[t].now
         /\ process' \in {"down", "service", "command"}
         /\ process' # process =>
              process = "command" /\ process' = "down" /\ work' = [u \in Tasks |-> None]
         /\ done' = IF work[t].purpose = "close" THEN done \cup {day} ELSE done
<1> DEFINE w == work[t]
<1>1. w \in Rounds /\ work \in [Tasks -> Rounds \cup {None}]
  BY DEF TypeOK
<1>2. [w EXCEPT !.step = "deciding"] \in Rounds
        /\ [w EXCEPT !.step = "deciding"].step = "deciding"
        /\ [w EXCEPT !.step = "deciding"].purpose = w.purpose
        /\ [w EXCEPT !.step = "deciding"].now = w.now
  BY <1>1 DEF Rounds, Steps
<1>3. work' = [work EXCEPT ![t] = IF t = "daily" /\ w.purpose = "refresh"
                                    THEN [w EXCEPT !.step = "deciding"] ELSE None]
  BY DEF EndRound
<1> DEFINE next == IF t = "daily" /\ w.purpose = "refresh"
                     THEN [w EXCEPT !.step = "deciding"] ELSE None
<1>4. next \in Rounds \cup {None}
  BY <1>2
<1>5. next # None => /\ t = "daily" /\ next.step = "deciding" /\ next.purpose = "refresh"
                     /\ next.now = w.now
  BY <1>2
<1>6. work' \in [Tasks -> Rounds \cup {None}] /\ work'[t] = next
        /\ \A u \in Tasks : u # t => work'[u] = work[u]
  <2> HIDE DEF next
  <2> QED
    BY <1>1, <1>3, <1>4 DEF next
<1>7. w.purpose = "close" => t = "daily" /\ w.now = Now
  BY DEF Working, Tasks
<1>8. done' = IF w.purpose = "close" THEN done \cup {day} ELSE done
  <2>1. done' = IF w.purpose = "close" THEN done \cup {Date(w.now)} ELSE done
    BY DEF EndRound
  <2> QED
    BY <1>7, <2>1, Times
<1>9. process' = IF w.purpose = "close" /\ process = "command" THEN "down" ELSE process
  BY DEF EndRound
<1>10. ASSUME process' # process
       PROVE  process = "command" /\ process' = "down" /\ work' = [u \in Tasks |-> None]
  <2>1. process = "command" /\ process' = "down" /\ w.purpose = "close"
    BY <1>9, <1>10
  <2>2. t = "daily" /\ next = None /\ work["quotes"] = None
    BY <1>7, <2>1 DEF Working
  <2>3. work'["daily"] = None /\ work'["quotes"] = None
    BY <1>6, <2>2 DEF Tasks
  <2> QED
    BY <1>6, <2>1, <2>3 DEF Tasks
<1> QED
  BY <1>5, <1>6, <1>8, <1>9, <1>10 DEF TypeOK

\* The ledger, its date and the journal stay as they are.
Quiet == UNCHANGED <<day, starts, mode, ledger>>

\* In such a step only the tasks, the completed dates and the report are looked at.
LEMMA QuietStep ==
  ASSUME IInv, Quiet, TypeOK', Working', Closing', AlertBeforeStored',
         \A d \in done' : d \in done \/ (ledger # None /\ d = ledger.lastCycle)
  PROVE  IInv'
<1>1. Now' = Now /\ Now \in Nat
  BY Times DEF Quiet, Now, IInv
<1>2. History'
  BY <1>1, HistoryKept DEF IInv, Quiet
<1>3. Baselines'
  BY BaselinesKept DEF IInv, Quiet
<1> QED
  BY <1>2, <1>3 DEF IInv

\* The quote loop begins.
LEMMA QuotesBeginStep == IInv /\ QuotesBegin => IInv'
<1> SUFFICES ASSUME IInv, QuotesBegin PROVE IInv'
  OBVIOUS
<1> USE DEF IInv, QuotesBegin, clock, server
<1> DEFINE r == Round("fetching", "refresh")
<1>1. r \in Rounds /\ r.step = "fetching" /\ r.purpose = "refresh" /\ r.now = Now
  BY RoundIs DEF Steps, Purposes
<1>2. work' = [work EXCEPT !["quotes"] = r]
  OBVIOUS
<1> HIDE DEF r
<1>3. work' \in [Tasks -> Rounds \cup {None}] /\ work'["quotes"] = r
        /\ work'["daily"] = work["daily"]
  BY <1>1, <1>2 DEF TypeOK, Tasks
<1>4. TypeOK'
  BY <1>3 DEF TypeOK
<1>5. Now' = Now /\ Now \in Nat
  BY Times DEF Now
<1>6. Working'
  BY <1>1, <1>3, <1>5 DEF Working, Tasks
<1>7. Closing' /\ AlertBeforeStored'
  BY <1>3 DEF Closing, AlertBeforeStored
<1> QED
  BY <1>4, <1>6, <1>7, QuietStep DEF Quiet

\* The daily cycle begins.
LEMMA CycleBeginStep == IInv /\ CycleBegin => IInv'
<1> SUFFICES ASSUME IInv, CycleBegin PROVE IInv'
  OBVIOUS
<1> USE DEF IInv, CycleBegin, server
<1> DEFINE r == Round("fetching", "refresh")
<1>1. r \in Rounds /\ r.step = "fetching" /\ r.purpose = "refresh" /\ r.now = Now
  BY RoundIs DEF Steps, Purposes
<1>2. work' = [work EXCEPT !["daily"] = r]
  OBVIOUS
<1> HIDE DEF r
<1>3. work' \in [Tasks -> Rounds \cup {None}] /\ work'["daily"] = r
        /\ work'["quotes"] = work["quotes"]
  BY <1>1, <1>2 DEF TypeOK, Tasks
<1>4. TypeOK'
  BY <1>3 DEF TypeOK
<1>5. Now' = Now /\ Now \in Nat
  BY Times DEF Now
<1>6. Working'
  BY <1>1, <1>3, <1>5 DEF Working, Tasks
<1>7. Closing' /\ AlertBeforeStored'
  BY <1>1, <1>3 DEF Closing, AlertBeforeStored
<1> QED
  BY <1>4, <1>6, <1>7, QuietStep DEF Quiet

\* A completed date is answered.
LEMMA CycleCompletedStep == IInv /\ CycleCompleted => IInv'
<1> SUFFICES ASSUME IInv, CycleCompleted PROVE IInv'
  OBVIOUS
<1> USE DEF IInv, CycleCompleted
<1>1. TypeOK'
  BY DEF TypeOK
<1>2. Now' = Now
  BY DEF Now
<1>3. work["quotes"] = None => work = [t \in Tasks |-> None]
  BY DEF TypeOK, Tasks
<1>4. Working'
  BY <1>2, <1>3 DEF Working
<1>5. Closing' /\ AlertBeforeStored'
  BY DEF Closing, AlertBeforeStored
<1> QED
  BY <1>1, <1>4, <1>5, QuietStep DEF Quiet

\* The decisions are made.
LEMMA DecideStep == IInv /\ Decide => IInv'
<1> SUFFICES ASSUME IInv, Decide PROVE IInv'
  OBVIOUS
<1> USE DEF IInv, Decide, clock, server
<1> DEFINE r == [work["daily"] EXCEPT !.step = "reading", !.purpose = "close"]
<1>1. work["daily"] \in Rounds
  BY DEF TypeOK, Tasks
<1>2. r \in Rounds /\ r.step = "reading" /\ r.purpose = "close" /\ r.now = Now
  BY <1>1 DEF Rounds, Steps, Purposes, Working
<1>3. work' = [work EXCEPT !["daily"] = r]
  BY DEF TypeOK, Tasks
<1> HIDE DEF r
<1>a. work \in [Tasks -> Rounds \cup {None}]
  BY DEF TypeOK
<1>4. work' \in [Tasks -> Rounds \cup {None}] /\ work'["daily"] = r
        /\ work'["quotes"] = work["quotes"]
  BY ONLY <1>a, <1>2, <1>3 DEF Tasks
<1>5. TypeOK'
  BY <1>4 DEF TypeOK
<1>6. Now' = Now
  BY DEF Now
<1>7. Working'
  BY <1>2, <1>4, <1>6 DEF Working, Tasks
<1>8. Closing' /\ AlertBeforeStored'
  BY <1>2, <1>4 DEF Closing, AlertBeforeStored
<1> QED
  BY <1>5, <1>7, <1>8, QuietStep DEF Quiet

\* The process dies.
LEMMA CrashStep == IInv /\ Crash => IInv'
<1> SUFFICES ASSUME IInv, Crash PROVE IInv'
  OBVIOUS
<1> USE DEF IInv, Crash, clock
<1>1. work'["daily"] = None /\ work'["quotes"] = None /\ work' \in [Tasks -> Rounds \cup {None}]
  BY DEF Tasks
<1>2. TypeOK'
  BY <1>1 DEF TypeOK
<1>3. Working'
  BY <1>1 DEF Working, Tasks
<1>4. Closing' /\ AlertBeforeStored'
  BY <1>1 DEF Closing, AlertBeforeStored
<1> QED
  BY <1>2, <1>3, <1>4, QuietStep DEF Quiet

\* What is true of the tasks when a round ends.
LEMMA EndRoundWorking ==
  ASSUME TypeOK, Working, NEW t \in Tasks, work[t] # None, EndRound(t),
         UNCHANGED <<day, starts, alerts>>
  PROVE  /\ Working'
         /\ work'["daily"] # None /\ work'["daily"].step = "alerting" =>
              work'["daily"] = work["daily"]
<1>1. /\ \A u \in Tasks : u # t => work'[u] = work[u]
      /\ work'[t] # None =>
           /\ t = "daily" /\ work'[t].step = "deciding" /\ work'[t].purpose = "refresh"
           /\ work'[t].now = work[t].now
      /\ process' # process =>
           process = "command" /\ process' = "down" /\ work' = [u \in Tasks |-> None]
  BY EndRoundIs
<1>2. Now' = Now
  BY DEF Now
<1>3. CASE process' # process
  <2>1. work'["daily"] = None /\ work'["quotes"] = None /\ work' = [u \in Tasks |-> None]
    BY <1>1, <1>3 DEF Tasks
  <2> QED
    BY <2>1 DEF Working, Tasks
<1>4. CASE process' = process
  <2>1. CASE t = "quotes"
    <3>1. work'["quotes"] = None /\ work'["daily"] = work["daily"]
      BY <1>1, <2>1 DEF Tasks
    <3>2. process' # "down"
      BY <1>4 DEF Working
    <3> QED
      BY <1>2, <1>4, <3>1, <3>2 DEF Working, Tasks
  <2>2. CASE t = "daily"
    <3>1. /\ work'["quotes"] = work["quotes"]
          /\ work'["daily"] # None =>
               /\ work'["daily"].step = "deciding" /\ work'["daily"].purpose = "refresh"
               /\ work'["daily"].now = work["daily"].now
      BY <1>1, <2>2 DEF Tasks
    <3>2. process' # "down"
      BY <1>4 DEF Working
    <3> QED
      BY <1>2, <1>4, <2>2, <3>1, <3>2 DEF Working, Tasks
  <2> QED
    BY <2>1, <2>2 DEF Tasks
<1> QED
  BY <1>3, <1>4

\* A refresh has its quotes.
LEMMA RefreshedStep == ASSUME NEW t \in Tasks PROVE IInv /\ Refreshed(t) => IInv'
<1> SUFFICES ASSUME IInv, Refreshed(t) PROVE IInv'
  OBVIOUS
<1> USE DEF IInv, Refreshed, clock
<1>1. work[t] \in Rounds /\ work[t].purpose = "refresh"
  BY DEF TypeOK, Working
<1>2. AlertBeforeStored'
  BY DEF AlertBeforeStored
<1>3. CASE mode = "PAPER"
  <2> DEFINE r == [work[t] EXCEPT !.step = "reading"]
  <2>1. r \in Rounds /\ r.step = "reading" /\ r.purpose = work[t].purpose /\ r.now = work[t].now
    BY <1>1 DEF Rounds, Steps
  <2>2. work' = [work EXCEPT ![t] = r] /\ UNCHANGED <<done, process>> /\ position' \in Positions
    BY <1>3 DEF TypeOK
  <2> HIDE DEF r
  <2>3. work' \in [Tasks -> Rounds \cup {None}] /\ work'[t] = r
          /\ \A u \in Tasks : u # t => work'[u] = work[u]
    BY <2>1, <2>2 DEF TypeOK
  <2>4. TypeOK'
    BY <2>2, <2>3 DEF TypeOK
  <2>5. Now' = Now
    BY DEF Now
  <2>6. Working'
    BY <2>1, <2>2, <2>3, <2>5 DEF Working, Tasks
  <2>7. Closing'
    BY <2>1, <2>3 DEF Closing, Tasks
  <2> QED
    BY <1>2, <2>2, <2>4, <2>6, <2>7, QuietStep DEF Quiet
<1>4. CASE mode # "PAPER"
  <2>1. EndRound(t) /\ UNCHANGED position
    BY <1>4
  <2>2. Working' /\ Closing'
    BY <2>1, EndRoundWorking DEF Closing
  <2>3. work' \in [Tasks -> Rounds \cup {None}] /\ done' = done
          /\ process' \in {"down", "service", "command"}
    BY <1>1, <2>1, EndRoundIs
  <2>4. TypeOK'
    BY <2>1, <2>3 DEF TypeOK
  <2> QED
    BY <1>2, <2>2, <2>3, <2>4, QuietStep DEF Quiet
<1> QED
  BY <1>3, <1>4

\* An alert is delivered.
LEMMA AlertedStep == ASSUME NEW t \in Tasks PROVE IInv /\ Alerted(t) => IInv'
<1> SUFFICES ASSUME IInv, Alerted(t) PROVE IInv'
  OBVIOUS
<1> USE DEF IInv, Alerted, clock
<1>1. stored' \in alerts /\ stored' \in Positions
  BY DEF Working, TypeOK
<1>2. AlertBeforeStored'
  BY <1>1 DEF AlertBeforeStored
<1>3. Working' /\ Closing'
  BY EndRoundWorking DEF Closing
<1>4. work' \in [Tasks -> Rounds \cup {None}] /\ process' \in {"down", "service", "command"}
        /\ done' = IF work[t].purpose = "close" THEN done \cup {day} ELSE done
  BY EndRoundIs
<1>5. TypeOK'
  BY <1>1, <1>4 DEF TypeOK
<1>6. work[t].purpose = "close" => ledger # None /\ ledger.lastCycle = day
  BY DEF Working, Closing, Tasks
<1> QED
  BY <1>2, <1>3, <1>4, <1>5, <1>6, QuietStep DEF Quiet

\* A process starts.
LEMMA StartStep ==
  ASSUME NEW kind \in {"service", "command"} PROVE IInv /\ Start(kind) => IInv'
<1> SUFFICES ASSUME IInv, Start(kind) PROVE IInv'
  OBVIOUS
<1> USE DEF IInv, Start
<1>1. Now \in Nat /\ day \in Nat /\ starts \in Nat /\ Now' = Now + 1
  <2>1. day \in Nat /\ starts \in Nat /\ MaxStarts \in Nat
    BY LedgerAssumption DEF TypeOK
  <2>2. day * (MaxStarts + 1) \in Nat
    BY <2>1
  <2>3. Now' = day * (MaxStarts + 1) + (starts + 1)
    BY DEF Now
  <2> QED
    BY <2>1, <2>2, <2>3 DEF Now
<1> DEFINE begun == Round("reading", "recover")
           r == [begun EXCEPT !.now = @ + 1]
<1>2. begun \in Rounds /\ begun.step = "reading" /\ begun.purpose = "recover" /\ begun.now = Now
  BY RoundIs DEF Steps, Purposes
<1>3. work' = [work EXCEPT !["daily"] = r]
  OBVIOUS
<1> HIDE DEF begun
<1>4. r \in Rounds /\ r.step = "reading" /\ r.purpose = "recover" /\ r.now = Now'
  BY <1>1, <1>2 DEF Rounds
<1> HIDE DEF r
<1>5. work["quotes"] = None
  BY DEF Working, Tasks
<1>6. work' \in [Tasks -> Rounds \cup {None}] /\ work'["daily"] = r /\ work'["quotes"] = None
  BY <1>3, <1>4, <1>5 DEF TypeOK, Tasks
<1>7. starts' \in 0..MaxStarts
  BY <1>1, LedgerAssumption
<1>8. process' \in {"service", "command"} /\ mode' \in {"DRY_RUN", "PAPER"} /\ due' \in BOOLEAN
  BY DEF TypeOK
<1>9. TypeOK'
  BY <1>6, <1>7, <1>8 DEF TypeOK
<1>10. Working'
  BY <1>4, <1>6, <1>8 DEF Working, Tasks
<1>11. Closing' /\ AlertBeforeStored'
  BY <1>4, <1>6 DEF Closing, AlertBeforeStored
<1>12. History' /\ Baselines'
  BY <1>1, <1>9, HistoryKept, BaselinesKept
<1> QED
  BY <1>9, <1>10, <1>11, <1>12

\* The date changes.
LEMMA MidnightStep == IInv /\ Midnight => IInv'
<1> SUFFICES ASSUME IInv, Midnight PROVE IInv'
  OBVIOUS
<1> USE DEF IInv, Midnight, server
<1>1. Now \in Nat /\ day \in Nat /\ Now' \in Nat /\ Now' >= Now
  <2> DEFINE k == MaxStarts + 1
  <2>1. day \in Nat /\ starts \in Nat /\ k \in Nat
    BY LedgerAssumption DEF TypeOK
  <2> HIDE DEF k
  <2>2. day * k \in Nat /\ (day + 1) * k = day * k + k
    BY <2>1
  <2>3. Now = day * k + starts /\ Now' = (day + 1) * k + starts
    BY DEF Now, k
  <2> QED
    BY <2>1, <2>2, <2>3
<1>2. TypeOK'
  BY <1>1, LedgerAssumption DEF TypeOK
<1>3. work["quotes"] # None => work["quotes"].now \in Nat
  BY DEF TypeOK, Tasks, Rounds
<1>4. Working'
  BY <1>1, <1>3 DEF Working, Tasks
<1>5. Closing' /\ AlertBeforeStored'
  BY DEF Closing, AlertBeforeStored
<1>6. History' /\ Baselines'
  BY <1>1, <1>2, HistoryKept, BaselinesKept
<1> QED
  BY <1>2, <1>4, <1>5, <1>6

-----------------------------------------------------------------------------
(* A round saves the ledger.                                               *)

\* What a round carries: the present, if it closes, and otherwise no later time.
LEMMA CarriedTime ==
  ASSUME TypeOK, Working, NEW t \in Tasks, work[t] # None
  PROVE  /\ work[t] \in Rounds /\ work[t].now \in Nat
         /\ Date(work[t].now) \in Nat /\ Date(work[t].now) <= day
         /\ work[t].purpose = "close" => t = "daily" /\ work[t].now = Now /\ Date(work[t].now) = day
<1>1. work[t] \in Rounds
  BY DEF TypeOK
<1>2. work[t].now \in Nat /\ work[t].now <= Now
  <2>1. work[t].now \in Nat
    BY <1>1 DEF Rounds
  <2>2. work[t].now <= Now
    BY <2>1, Times DEF Working, Tasks
  <2> QED
    BY <2>1, <2>2
<1>3. work[t].purpose = "close" => t = "daily" /\ work[t].now = Now
  BY DEF Working, Tasks
<1> QED
  BY <1>1, <1>2, <1>3, Times, DatesInOrder

\* A round that does not close changes no point and no baseline that still counts.
LEMMA NoClose ==
  ASSUME TypeOK, TypeOK', History, Baselines, NEW now \in Nat, Date(now) <= day,
         NEW equity \in Equities, ledger' = Recorded(now, equity, FALSE),
         UNCHANGED <<day, starts, mode>>, done' = done
  PROVE  /\ History' /\ Baselines' /\ ledger' # None
         /\ ledger # None => ledger'.lastCycle = ledger.lastCycle
<1> DEFINE rolled == Roll(Loaded, now, equity)
<1>1. /\ ledger' \in Ledgers /\ ledger'.dayStart = rolled.dayStart
      /\ ledger'.weekStart = rolled.weekStart /\ ledger'.lastCycle = Loaded.lastCycle
      /\ ledger'.history = Loaded.history
  BY RecordedIs
<1>2. ledger' # None /\ Loaded \in Ledgers
  BY <1>1, LoadedIs, NoneAssumption
<1>3. Now' = Now /\ Week(day)' = Week(day)
  BY DEF Now, Week
<1>4. CASE ledger = None
  <2>1. ledger'.history = <<>> /\ ledger'.lastCycle = None /\ done' = {}
    BY <1>1, <1>4, LoadedIs DEF History
  <2>2. 1..Len(ledger'.history) = {}
    <3>1. Len(<<>>) = 0 /\ 1..0 = {}
      OBVIOUS
    <3> QED
      BY <2>1, <3>1
  <2>3. Baselines'
    BY <2>1 DEF Baselines
  <2>4. History'
    BY <1>2, <2>1, <2>2 DEF History
  <2> QED
    BY <1>2, <1>4, <2>3, <2>4
<1>5. CASE ledger # None
  <2>1. Loaded = ledger
    BY <1>5, LoadedIs
  <2>a. ledger'.lastCycle = ledger.lastCycle /\ ledger'.history = ledger.history
    BY <1>1, <2>1
  <2>2. History'
    BY ONLY History, done' = done, <1>2, <1>3, <1>5, <2>a DEF History, Date
  <2>3. ASSUME ledger.lastCycle # None
        PROVE  /\ ledger.lastCycle = day => rolled.dayStart = ledger.dayStart
               /\ Week(ledger.lastCycle) = Week(day) => rolled.weekStart = ledger.weekStart
    <3>1. ledger.lastCycle \in Nat /\ ledger.history # <<>>
      BY <1>5, <2>3, LastCycleIs
    <3>2. Date(now) \in Nat /\ day \in Nat
      BY Times, DatesInOrder
    <3>3. CASE ~ (Date(now) > ledger.lastCycle)
      BY <1>2, <2>1, <2>3, <3>3, RollIs
    <3>4. CASE Date(now) > ledger.lastCycle
      <4>1. Week(ledger.lastCycle) = Week(day) => Week(Date(now)) = Week(ledger.lastCycle)
        <5>1. ledger.lastCycle <= Date(now)
          BY <3>1, <3>2, <3>4
        <5>2. /\ Week(ledger.lastCycle) \in Nat /\ Week(Date(now)) \in Nat /\ Week(day) \in Nat
              /\ Week(ledger.lastCycle) <= Week(Date(now)) /\ Week(Date(now)) <= Week(day)
          BY <3>1, <3>2, <5>1, DatesInOrder
        <5> QED
          BY <5>2
      <4>2. rolled.weekStart = IF Week(Date(now)) # Week(ledger.lastCycle)
                                 THEN ledger.history[Len(ledger.history)].equity
                                 ELSE ledger.weekStart
        BY <1>2, <2>1, <2>3, <3>1, <3>4, RollIs
      <4>3. ledger.lastCycle # day
        BY <3>1, <3>2, <3>4
      <4> QED
        BY <4>1, <4>2, <4>3
    <3> QED
      BY <3>3, <3>4
  <2>b. ledger.lastCycle # None =>
          /\ ledger.lastCycle = day => ledger'.dayStart = ledger.dayStart
          /\ Week(ledger.lastCycle) = Week(day) => ledger'.weekStart = ledger.weekStart
    BY <1>1, <2>3
  <2> HIDE DEF rolled
  <2>4. Baselines'
    BY ONLY Baselines, day' = day, <1>3, <1>5, <2>a, <2>b
       DEF Baselines, CloseBefore, Date, Week
  <2> QED
    BY <1>1, <1>2, <2>1, <2>2, <2>4
<1> QED
  BY <1>4, <1>5

\* A close of a date that has none yet adds the last point.
LEMMA FirstClose ==
  ASSUME TypeOK, TypeOK', History, Baselines, NEW equity \in Equities,
         ledger' = Recorded(Now, equity, TRUE),
         Loaded.history = <<>> \/ Date(Loaded.history[Len(Loaded.history)].at) # day,
         UNCHANGED <<day, starts, mode>>, done' \subseteq done \cup {day}
  PROVE  History' /\ Baselines' /\ ledger' # None /\ ledger'.lastCycle = day
<1> DEFINE rolled == Roll(Loaded, Now, equity)
           point == [at |-> Now, equity |-> equity, mode |-> mode]
           h == Loaded.history
           n == Len(h)
           g == ledger'.history
<1>1. Now \in Nat /\ Date(Now) = day /\ day \in Nat /\ Week(day) \in Nat
  BY Times
<1>2. /\ ledger' \in Ledgers /\ point \in Points
      /\ ledger'.dayStart = rolled.dayStart /\ ledger'.weekStart = rolled.weekStart
      /\ ledger'.lastCycle = day
      /\ g = Append(h, point)
  BY <1>1, RecordedIs
<1>3. ledger' # None /\ day # None
  BY <1>1, <1>2, NoneAssumption, LedgerAssumption
<1>4. Loaded \in Ledgers /\ h \in Seq(Points) /\ n \in Nat
  BY LoadedIs DEF Ledgers
<1>5. point.at = Now
  OBVIOUS
<1>6. Now' = Now /\ Week(day)' = Week(day)
  BY DEF Now, Week
<1>7. h # <<>> => ledger # None /\ Loaded = ledger /\ n \in 1..n
  BY <1>4, LoadedIs
<1>8. ASSUME NEW i \in 1..n
      PROVE  /\ ledger # None /\ Loaded = ledger /\ h # <<>>
             /\ h[i].at \in Nat /\ h[i].at <= Now /\ Date(h[i].at) \in Nat
             /\ ledger.lastCycle \in Nat
             /\ Date(h[i].at) <= ledger.lastCycle /\ ledger.lastCycle < day
  <2>1. h # <<>>
    BY <1>4
  <2>2. ledger # None /\ Loaded = ledger
    BY <1>7, <2>1
  <2>3. h[i].at <= Now /\ ledger.lastCycle # None
    BY <2>1, <2>2 DEF History
  <2>4. ledger.lastCycle \in Nat /\ ledger.lastCycle <= day /\ ledger.lastCycle = Date(h[n].at)
    BY <2>2, <2>3, LastCycleIs
  <2>5. ledger.lastCycle # day
    BY <2>1, <2>4
  <2>6. h[i].at \in Nat /\ Date(h[i].at) \in Nat /\ Date(h[i].at) <= ledger.lastCycle
    BY <2>2, LastCycleIs
  <2> QED
    BY <1>1, <2>1, <2>2, <2>3, <2>4, <2>5, <2>6
<1> HIDE DEF point, h, n, g, rolled
<1>9. /\ Len(g) = n + 1 /\ g # <<>> /\ g[n + 1] = point
      /\ \A i \in 1..n : g[i] = h[i]
      /\ g \in Seq(Points) /\ DOMAIN g = 1..(n + 1)
  BY <1>2, <1>4 DEF n
<1>10. \A i \in 1..(n + 1) : i \in 1..n \/ i = n + 1
  BY <1>4
<1>11. History'
  <2>1. \A i \in 1..(n + 1) : g[i].at <= Now
    BY <1>1, <1>5, <1>8, <1>9, <1>10
  <2>2. ASSUME NEW i \in 1..(n + 1), NEW j \in 1..(n + 1), i < j
        PROVE  Date(g[i].at) < Date(g[j].at)
    <3>1. i \in 1..n
      BY <1>4, <2>2
    <3>2. CASE j = n + 1
      BY <1>1, <1>5, <1>8, <1>9, <3>1, <3>2
    <3>3. CASE j \in 1..n
      <4>1. Loaded = ledger /\ ledger # None
        BY <1>8, <3>1
      <4>2. Date(h[i].at) < Date(h[j].at)
        BY <2>2, <3>1, <3>3, <4>1 DEF History, h, n
      <4> QED
        BY <1>9, <3>1, <3>3, <4>2
    <3> QED
      BY <1>10, <3>2, <3>3
  <2>3. ASSUME NEW d \in done'
        PROVE  \E i \in 1..(n + 1) : Date(g[i].at) = d
    <3>1. CASE d = day
      BY <1>1, <1>4, <1>5, <1>9, <3>1
    <3>2. CASE d \in done
      <4>1. ledger # None /\ Loaded = ledger
        BY <3>2, LoadedIs DEF History
      <4>2. PICK i \in 1..n : Date(h[i].at) = d
        BY <3>2, <4>1 DEF History, h, n
      <4>3. i \in 1..(n + 1) /\ g[i] = h[i]
        BY <1>4, <1>9
      <4> QED
        BY <4>2, <4>3
    <3> QED
      BY <3>1, <3>2
  <2>4. g[n + 1].at = Now
    BY <1>5, <1>9
  <2>5. \A t : Date(t)' = Date(t)
    BY DEF Date
  <2>6. g[Len(g)].at = Now /\ 1..Len(g) = 1..(n + 1)
    BY <1>9, <2>4
  <2> HIDE DEF g
  <2> QED
    BY <1>1, <1>2, <1>3, <1>6, <1>9, <2>1, <2>2, <2>3, <2>6 DEF History, Date, g
<1>12. CloseBefore(g, day, ledger'.dayStart)
  <2> SUFFICES ASSUME NEW i \in 1..(n + 1), Date(g[i].at) < day,
                      \A j \in 1..(n + 1) : Date(g[j].at) < day => j <= i
               PROVE  ledger'.dayStart = g[i].equity
    BY <1>9 DEF CloseBefore
  <2>1. i \in 1..n
    BY <1>1, <1>5, <1>9, <1>10
  <2>2. n \in 1..n /\ n \in 1..(n + 1) /\ h # <<>> /\ ledger.lastCycle # None
    BY <1>4, <1>8, <2>1, LedgerAssumption
  <2>3. Date(g[n].at) < day
    BY <1>1, <1>8, <1>9, <2>2
  <2>4. i = n
    BY <1>4, <2>1, <2>2, <2>3
  <2>5. Date(Now) > ledger.lastCycle /\ Loaded = ledger
    BY <1>1, <1>8, <2>1
  <2>6. rolled.dayStart = h[n].equity
    <3>1. /\ ledger \in Ledgers /\ Now \in Nat /\ ledger.history # <<>>
          /\ ledger.lastCycle # None /\ Date(Now) > ledger.lastCycle
      BY <1>1, <1>4, <2>2, <2>5 DEF h
    <3>2. rolled = Roll(ledger, Now, equity)
      BY <2>5 DEF rolled
    <3>3. equity \in Equities
      OBVIOUS
    <3>4. LET new == Roll(ledger, Now, equity) IN
          new.dayStart = ledger.history[Len(ledger.history)].equity
      BY ONLY <3>1, <3>3, RollIs
    <3> QED
      BY ONLY <2>5, <3>2, <3>4 DEF h, n
  <2> QED
    BY <1>2, <1>9, <2>1, <2>4, <2>6
<1>13. CloseBefore(g, Week(day) * WeekDays, ledger'.weekStart)
  <2> DEFINE w == Week(day) * WeekDays
  <2>1. w \in Nat /\ \A d \in Nat : d < w <=> Week(d) < Week(day)
    BY <1>1, BeforeWeek
  <2>2. ~ (day < w)
    BY <1>1, <2>1
  <2> SUFFICES ASSUME NEW i \in 1..(n + 1), Date(g[i].at) < w,
                      \A j \in 1..(n + 1) : Date(g[j].at) < w => j <= i
               PROVE  ledger'.weekStart = g[i].equity
    BY <1>9 DEF CloseBefore
  <2> HIDE DEF w
  <2>3. i \in 1..n
    BY <1>1, <1>5, <1>9, <1>10, <2>2
  <2>4. n \in 1..n /\ n \in 1..(n + 1) /\ h # <<>> /\ ledger.lastCycle # None
    BY <1>4, <1>8, <2>3, LedgerAssumption
  <2>5. Date(Now) > ledger.lastCycle /\ Loaded = ledger /\ ledger # None
        /\ ledger.lastCycle \in Nat /\ ledger.lastCycle < day
    BY <1>1, <1>8, <2>3
  <2>6. rolled.weekStart = IF Week(day) # Week(ledger.lastCycle) THEN h[n].equity
                           ELSE ledger.weekStart
    <3>1. /\ ledger \in Ledgers /\ Now \in Nat /\ equity \in Equities /\ Date(Now) = day
          /\ ledger.lastCycle # None /\ day > ledger.lastCycle /\ ledger.history # <<>>
      BY <1>1, <1>4, <2>4, <2>5 DEF h
    <3>2. Roll(ledger, Now, equity).weekStart =
            IF Week(day) # Week(ledger.lastCycle)
              THEN ledger.history[Len(ledger.history)].equity ELSE ledger.weekStart
      BY ONLY <3>1, RollIs
    <3> QED
      BY <2>5, <3>2 DEF rolled, h, n
  <2>7. CASE Week(day) # Week(ledger.lastCycle)
    <3>1. /\ Week(ledger.lastCycle) \in Nat /\ Week(ledger.lastCycle) <= Week(day)
      <4>1. ledger.lastCycle \in Nat /\ day \in Nat /\ ledger.lastCycle <= day
        BY <1>1, <2>5
      <4> QED
        BY ONLY <4>1, DatesInOrder
    <3>2. ledger.lastCycle < w
      BY <1>1, <2>1, <2>5, <2>7, <3>1
    <3>3. Date(h[n].at) \in Nat /\ Date(h[n].at) <= ledger.lastCycle
      BY <1>8, <2>4
    <3>4. Date(g[n].at) < w
      BY <1>9, <2>1, <2>4, <2>5, <3>2, <3>3
    <3>5. i = n
      BY <1>4, <2>3, <2>4, <3>4
    <3> QED
      BY <1>2, <1>9, <2>3, <2>6, <2>7, <3>5
  <2>8. CASE Week(day) = Week(ledger.lastCycle)
    <3>1. CloseBefore(h, w, ledger.weekStart)
      BY <2>4, <2>5, <2>8 DEF Baselines, w, h
    <3>2. Date(h[i].at) < w /\ \A j \in 1..n : Date(h[j].at) < w => j <= i
      <4>1. \A j \in 1..n : j \in 1..(n + 1) /\ g[j] = h[j]
        BY <1>4, <1>9
      <4> QED
        BY <2>3, <4>1
    <3>3. DOMAIN h = 1..n
      BY <1>4 DEF n
    <3>4. ledger.weekStart = h[i].equity
      BY <2>3, <3>1, <3>2, <3>3 DEF CloseBefore
    <3> QED
      BY <1>2, <1>9, <2>3, <2>6, <2>8, <3>4
  <2> QED
    BY <2>7, <2>8
<1>14. Baselines'
  BY <1>2, <1>3, <1>6, <1>12, <1>13 DEF Baselines, CloseBefore, Date, Week, g
<1> QED
  BY <1>2, <1>3, <1>11, <1>14

\* A close of a date that has its point already changes no point and no baseline.
LEMMA SecondClose ==
  ASSUME TypeOK, TypeOK', History, Baselines, NEW equity \in Equities,
         ledger' = Recorded(Now, equity, TRUE),
         ~ (Loaded.history = <<>> \/ Date(Loaded.history[Len(Loaded.history)].at) # day),
         UNCHANGED <<day, starts, mode>>, done' \subseteq done \cup {day}
  PROVE  History' /\ Baselines' /\ ledger' # None /\ ledger'.lastCycle = day
<1> DEFINE rolled == Roll(Loaded, Now, equity)
<1>1. Now \in Nat /\ Date(Now) = day /\ day \in Nat
  BY Times
<1>2. ledger # None /\ Loaded = ledger
  BY LoadedIs
<1>3. /\ ledger' \in Ledgers
      /\ ledger'.dayStart = rolled.dayStart /\ ledger'.weekStart = rolled.weekStart
      /\ ledger'.lastCycle = day /\ ledger'.history = ledger.history
  BY <1>1, <1>2, RecordedIs
<1>4. ledger' # None /\ day # None
  BY <1>1, <1>3, NoneAssumption, LedgerAssumption
<1>5. ledger.lastCycle = day /\ ledger.history # <<>>
        /\ Len(ledger.history) \in 1..Len(ledger.history)
        /\ Date(ledger.history[Len(ledger.history)].at) = day
  BY <1>2, LastCycleIs DEF History
<1>6. rolled.dayStart = ledger.dayStart /\ rolled.weekStart = ledger.weekStart
  <2>1. ledger \in Ledgers /\ ~ (Date(Now) > ledger.lastCycle) /\ ledger.lastCycle # None
    BY <1>1, <1>2, <1>4, <1>5, LastCycleIs
  <2> QED
    BY <1>1, <1>2, <2>1, RollIs
<1>7. Now' = Now
  BY DEF Now
<1> HIDE DEF rolled
<1>8. History'
  BY ONLY History, done' \subseteq done \cup {day}, <1>2, <1>3, <1>4, <1>5, <1>7
     DEF History, Date
<1>9. Baselines'
  <2>1. ledger'.dayStart = ledger.dayStart /\ ledger'.weekStart = ledger.weekStart
    BY <1>3, <1>6
  <2> QED
    BY ONLY Baselines, day' = day, <1>2, <1>3, <1>4, <1>5, <2>1
       DEF Baselines, CloseBefore, Date, Week
<1> QED
  BY <1>3, <1>4, <1>8, <1>9

\* A round of either task saves the ledger.
LEMMA RecordStep == ASSUME NEW t \in Tasks PROVE IInv /\ Record(t) => IInv'
<1> SUFFICES ASSUME IInv, Record(t) PROVE IInv'
  OBVIOUS
<1> USE DEF IInv, clock
<1> DEFINE closing == work[t].purpose = "close"
<1>1. PICK equity \in Equities : ledger' = Recorded(work[t].now, equity, closing)
  BY DEF Record
<1>2. /\ work[t] # None /\ work[t].step = "reading"
      /\ UNCHANGED <<day, due, starts, mode, position, stored>>
  BY DEF Record
<1>3. /\ work[t] \in Rounds /\ work[t].now \in Nat /\ Date(work[t].now) <= day
      /\ closing => t = "daily" /\ work[t].now = Now
  BY <1>2, CarriedTime
<1>4. ledger' \in Ledgers
  BY <1>1, <1>3, RecordedIs
<1>5. Now' = Now
  BY <1>2 DEF Now
<1> DEFINE r == [work[t] EXCEPT !.step = "alerting", !.told = position]
<1>6. Moved(work[t]) =>
        /\ r \in Rounds /\ r.step = "alerting" /\ r.purpose = work[t].purpose
        /\ r.now = work[t].now /\ r.told = position
        /\ work' \in [Tasks -> Rounds \cup {None}] /\ work'[t] = r
        /\ \A u \in Tasks : u # t => work'[u] = work[u]
        /\ alerts' = alerts \cup {position} /\ UNCHANGED <<done, process>>
  <2>1. r \in Rounds /\ r.step = "alerting" /\ r.purpose = work[t].purpose
          /\ r.now = work[t].now /\ r.told = position
    BY <1>3 DEF Rounds, Steps, TypeOK
  <2>2. Moved(work[t]) => work' = [work EXCEPT ![t] = r] /\ alerts' = alerts \cup {position}
                            /\ UNCHANGED <<done, process>>
    BY DEF Record, Journalled, TypeOK
  <2> HIDE DEF r
  <2> QED
    BY <2>1, <2>2 DEF TypeOK
<1>7. ~ Moved(work[t]) => EndRound(t) /\ UNCHANGED alerts
  BY DEF Record
<1>8. TypeOK'
  <2>1. CASE Moved(work[t])
    BY <1>2, <1>4, <1>6, <2>1 DEF TypeOK
  <2>2. CASE ~ Moved(work[t])
    <3>1. work' \in [Tasks -> Rounds \cup {None}] /\ process' \in {"down", "service", "command"}
            /\ done' \subseteq done \cup {day}
      BY <1>2, <1>7, <2>2, EndRoundIs
    <3> QED
      BY <1>2, <1>4, <1>7, <2>2, <3>1 DEF TypeOK
  <2> QED
    BY <2>1, <2>2
<1>9. done' \subseteq done \cup {day} /\ (~ closing => done' = done)
  <2>1. ~ Moved(work[t]) => done' = IF closing THEN done \cup {day} ELSE done
    BY <1>2, <1>7, EndRoundIs
  <2> QED
    BY <1>6, <2>1
<1>10. /\ History' /\ Baselines' /\ ledger' # None
       /\ closing \/ (ledger # None /\ ledger.lastCycle = day) => ledger'.lastCycle = day
  <2>1. CASE closing
    BY <1>1, <1>2, <1>3, <1>8, <1>9, <2>1, FirstClose, SecondClose
  <2>2. CASE ~ closing
    BY <1>1, <1>2, <1>3, <1>4, <1>8, <1>9, <2>2, NoClose, NoneAssumption
  <2> QED
    BY <2>1, <2>2
<1>11. Working' /\ Closing'
  <2>1. CASE Moved(work[t])
    <3> HIDE DEF r
    <3>1. Closing'
      BY <1>2, <1>3, <1>6, <1>10, <2>1 DEF Closing, Tasks
    <3>2. Working'
      BY <1>2, <1>5, <1>6, <2>1 DEF Working, Tasks
    <3> QED
      BY <3>1, <3>2
  <2>2. CASE ~ Moved(work[t])
    <3>1. EndRound(t) /\ UNCHANGED alerts
      BY <1>7, <2>2
    <3> QED
      BY <1>2, <1>10, <3>1, EndRoundWorking DEF Closing
  <2> QED
    BY <2>1, <2>2
<1>12. AlertBeforeStored'
  <2>1. alerts \subseteq alerts'
    BY <1>6, <1>7
  <2> QED
    BY <1>2, <2>1 DEF AlertBeforeStored
<1> QED
  BY <1>8, <1>10, <1>11, <1>12

-----------------------------------------------------------------------------
(* Every state.                                                            *)

\* The process is down at first, and there is no ledger.
LEMMA Begins == Init => IInv
<1> SUFFICES ASSUME Init PROVE IInv
  OBVIOUS
<1>1. TypeOK
  BY LedgerAssumption DEF Init, TypeOK
<1>2. work["quotes"] = None /\ work["daily"] = None
  BY DEF Init, Tasks
<1>3. Working /\ Closing
  BY <1>2 DEF Init, Working, Closing, Tasks
<1>4. History /\ Baselines /\ AlertBeforeStored
  BY DEF Init, History, Baselines, AlertBeforeStored
<1> QED
  BY <1>1, <1>3, <1>4 DEF IInv

\* No step of a task, of the day or of the operator breaks it.
LEMMA Continues == IInv /\ [Next]_vars => IInv'
<1> SUFFICES ASSUME IInv, [Next]_vars PROVE IInv'
  OBVIOUS
<1>1. CASE UNCHANGED vars
  <2> USE DEF vars, clock, server
  <2>1. TypeOK' /\ Working' /\ Closing' /\ AlertBeforeStored'
    BY <1>1 DEF IInv, TypeOK, Working, Closing, AlertBeforeStored, Now
  <2> QED
    BY <1>1, <2>1, QuietStep DEF Quiet
<1>2. CASE QuotesBegin \/ CycleBegin \/ CycleCompleted \/ Decide
  BY <1>2, QuotesBeginStep, CycleBeginStep, CycleCompletedStep, DecideStep
<1>3. ASSUME NEW t \in Tasks, Refreshed(t) \/ Record(t) \/ Alerted(t) PROVE IInv'
  BY <1>3, RefreshedStep, RecordStep, AlertedStep
<1>4. ASSUME NEW kind \in {"service", "command"}, Start(kind) PROVE IInv'
  BY <1>4, StartStep
<1>5. CASE Crash \/ Midnight
  BY <1>5, CrashStep, MidnightStep
<1> QED
  BY <1>1, <1>2, <1>3, <1>4, <1>5 DEF Next

\* The inductive invariant holds of every state.
THEOREM LedgerInvariant == Spec => []IInv
<1>1. Init => IInv
  BY Begins
<1>2. IInv /\ [Next]_vars => IInv'
  BY Continues
<1> QED
  BY <1>1, <1>2, PTL DEF Spec

\* Every variable has its type, whatever process wrote it.
THEOREM TypeCorrect == Spec => []TypeOK
<1>1. IInv => TypeOK
  BY DEF IInv
<1> QED
  BY <1>1, LedgerInvariant, PTL

\* The curve has its points in order, one for every completed date, though a process
\* may die between the save and the COMPLETED record and run the cycle again.
THEOREM PointsHold == Spec => []OnePointPerDay
<1>1. ASSUME IInv PROVE OnePointPerDay
  <2>1. CASE ledger = None
    <3>1. Loaded.history = <<>> /\ done = {} /\ DOMAIN <<>> = {}
      BY <1>1, <2>1, LoadedIs DEF IInv, History
    <3> QED
      BY <3>1 DEF OnePointPerDay
  <2>2. CASE ledger # None
    <3>1. Loaded = ledger /\ DOMAIN ledger.history = 1..Len(ledger.history)
      BY <1>1, <2>2, LoadedIs, LastCycleIs DEF IInv
    <3> QED
      BY <1>1, <2>2, <3>1 DEF IInv, History, OnePointPerDay
  <2> QED
    BY <2>1, <2>2
<1> QED
  BY <1>1, LedgerInvariant, PTL

\* What counts as reported has an alert in the journal.
THEOREM AlertsHold == Spec => []AlertBeforeStored
<1>1. IInv => AlertBeforeStored
  BY DEF IInv
<1> QED
  BY <1>1, LedgerInvariant, PTL

\* Whenever a cycle decides, its loss limits are about its day and its week.
THEOREM BaselinesHold == Spec => []BaselinesAreCloses
<1>1. ASSUME IInv PROVE BaselinesAreCloses
  <2> USE DEF IInv
  <2> SUFFICES ASSUME work["daily"] # None, work["daily"].step = "deciding",
                      NEW equity \in Equities
               PROVE  LET rolled == Roll(Loaded, Now, equity)
                      IN /\ CloseBefore(rolled.history, day, rolled.dayStart)
                         /\ CloseBefore(rolled.history, Week(day) * WeekDays, rolled.weekStart)
    <3>1. work["daily"] # None => work["daily"].now = Now /\ Date(Now) = day
      BY <1>1, Times DEF Working
    <3> QED
      BY <3>1 DEF BaselinesAreCloses
  <2> DEFINE rolled == Roll(Loaded, Now, equity)
             h == Loaded.history
             n == Len(h)
  <2>1. Now \in Nat /\ Date(Now) = day /\ day \in Nat /\ Week(day) \in Nat
    BY <1>1, Times
  <2>2. Loaded \in Ledgers /\ rolled.history = h
    BY <1>1, <2>1, LoadedIs, RollIs
  <2>3. CASE h = <<>>
    <3>1. DOMAIN h = {}
      BY <2>3
    <3> QED
      BY <2>2, <3>1 DEF CloseBefore
  <2>4. CASE h # <<>>
    <3>1. ledger # None /\ Loaded = ledger
      BY <1>1, <2>4, LoadedIs
    <3>2. /\ h \in Seq(Points) /\ n \in 1..n /\ n \in Nat
          /\ ledger.lastCycle # None /\ ledger.lastCycle \in Nat /\ ledger.lastCycle <= day
      BY <1>1, <2>4, <3>1, LastCycleIs DEF History
    <3>3. \A i \in 1..n : Date(h[i].at) \in Nat /\ Date(h[i].at) <= ledger.lastCycle
      BY <1>1, <3>1, LastCycleIs
    <3>4. DOMAIN h = 1..n
      BY <3>2
    <3>5. CASE ledger.lastCycle = day
      <4>1. rolled.dayStart = ledger.dayStart /\ rolled.weekStart = ledger.weekStart
        <5>1. ~ (Date(Now) > ledger.lastCycle) /\ ledger \in Ledgers
          BY <2>1, <2>2, <3>1, <3>5
        <5>2. rolled = Roll(ledger, Now, equity) /\ Now \in Nat /\ equity \in Equities
          BY <2>1, <3>1
        <5> QED
          BY ONLY <3>2, <5>1, <5>2, RollIs
      <4> QED
        BY <1>1, <2>2, <3>1, <3>2, <3>5, <4>1 DEF Baselines
    <3>6. CASE ledger.lastCycle < day
      <4>1. /\ rolled.dayStart = h[n].equity
            /\ rolled.weekStart = IF Week(day) # Week(ledger.lastCycle) THEN h[n].equity
                                  ELSE ledger.weekStart
        <5>1. /\ ledger \in Ledgers /\ Now \in Nat /\ Date(Now) = day /\ day > ledger.lastCycle
              /\ ledger.lastCycle # None /\ ledger.history # <<>>
          BY <2>1, <2>2, <2>4, <3>1, <3>2, <3>6
        <5>2. LET new == Roll(ledger, Now, equity) IN
              /\ new.dayStart = ledger.history[Len(ledger.history)].equity
              /\ new.weekStart = IF Week(day) # Week(ledger.lastCycle)
                                   THEN ledger.history[Len(ledger.history)].equity
                                   ELSE ledger.weekStart
          BY ONLY <5>1, equity \in Equities, RollIs
        <5> QED
          BY <3>1, <5>2
      <4>2. \A i \in 1..n : Date(h[i].at) < day
        BY <2>1, <3>2, <3>3, <3>6
      <4>3. \A i \in 1..n : (\A j \in 1..n : j <= i) => i = n
        BY <3>2
      <4> HIDE DEF h, n, rolled
      <4>4. CloseBefore(h, day, h[n].equity)
        BY <3>4, <4>2, <4>3 DEF CloseBefore
      <4>5. CASE Week(day) # Week(ledger.lastCycle)
        <5> DEFINE w == Week(day) * WeekDays
        <5>1. w \in Nat /\ \A d \in Nat : d < w <=> Week(d) < Week(day)
          BY <2>1, BeforeWeek
        <5> HIDE DEF w
        <5>2. Week(ledger.lastCycle) \in Nat /\ Week(ledger.lastCycle) <= Week(day)
          BY <2>1, <3>2, DatesInOrder
        <5>3. ledger.lastCycle < w
          BY <2>1, <3>2, <4>5, <5>1, <5>2
        <5>4. \A i \in 1..n : Date(h[i].at) < w
          BY <3>2, <3>3, <5>1, <5>3
        <5>5. CloseBefore(h, w, h[n].equity)
          BY <3>4, <4>3, <5>4 DEF CloseBefore
        <5> QED
          BY <2>2, <4>1, <4>4, <4>5, <5>5 DEF w, rolled
      <4>6. CASE Week(day) = Week(ledger.lastCycle)
        <5>1. CloseBefore(h, Week(day) * WeekDays, ledger.weekStart)
          BY <1>1, <3>1, <3>2, <4>6 DEF Baselines, h
        <5> QED
          BY <2>2, <4>1, <4>4, <4>6, <5>1 DEF rolled
      <4> QED
        BY <4>5, <4>6
    <3> QED
      BY <2>1, <3>2, <3>5, <3>6
  <2> QED
    BY <2>3, <2>4
<1> QED
  BY <1>1, LedgerInvariant, PTL

-----------------------------------------------------------------------------
(* Every step of the ledger.                                               *)

\* What was saved stays at the head of what is saved next.
LEMMA AppendIsPrefix ==
  ASSUME NEW s \in Seq(Points), NEW e \in Points
  PROVE  IsPrefix(s, s) /\ IsPrefix(s, Append(s, e))
<1>1. Len(s) \in Nat /\ Len(Append(s, e)) = Len(s) + 1
  OBVIOUS
<1>2. \A i \in 1..Len(s) : Append(s, e)[i] = s[i]
  OBVIOUS
<1>3. SubSeq(Append(s, e), 1, Len(s)) = SubSeq(s, 1, Len(s))
  <2>1. SubSeq(s, 1, Len(s)) = [i \in 1..Len(s) |-> s[i]]
    BY <1>1
  <2>2. SubSeq(Append(s, e), 1, Len(s)) = [i \in 1..Len(s) |-> Append(s, e)[i]]
    BY <1>1
  <2> QED
    BY <1>2, <2>1, <2>2
<1> QED
  BY <1>1, <1>3 DEF IsPrefix

\* Points are only added, the high-water mark never falls, and the start of the
\* PAPER run is never moved, by whichever task and process.
THEOREM LedgerGrowsHolds == Spec => LedgerGrows
<1> DEFINE Grown ==
      ledger # None =>
        /\ IsPrefix(ledger.history, ledger'.history)
        /\ ledger'.peak >= ledger.peak
        /\ ledger.paperStart # None => ledger'.paperStart = ledger.paperStart
<1>1. ASSUME IInv, [Next]_vars PROVE [Grown]_vars
  <2> USE DEF IInv
  <2> SUFFICES ASSUME ledger # None PROVE Grown
    OBVIOUS
  <2>1. ledger \in Ledgers /\ ledger.history \in Seq(Points) /\ Loaded = ledger
          /\ ledger.peak \in Equities
    BY <1>1, LoadedIs DEF TypeOK, Ledgers
  <2>2. CASE UNCHANGED ledger
    <3>1. IsPrefix(ledger.history, ledger.history)
      BY <2>1 DEF IsPrefix
    <3>2. ledger.peak \in Nat
      BY <2>1, LedgerAssumption
    <3> QED
      BY <2>2, <3>1, <3>2
  <2>3. ASSUME NEW t \in Tasks, Record(t) PROVE Grown
    <3> DEFINE closing == work[t].purpose = "close"
    <3>1. PICK equity \in Equities : ledger' = Recorded(work[t].now, equity, closing)
      BY <2>3 DEF Record
    <3>2. work[t].now \in Nat
      BY <1>1, <2>3, CarriedTime DEF Record
    <3> DEFINE now == work[t].now
               rolled == Roll(ledger, now, equity)
               point == [at |-> now, equity |-> equity, mode |-> mode]
    <3>3. rolled.peak >= ledger.peak
      BY <2>1, <3>2, RollIs
    <3>4. /\ point \in Points /\ ledger'.peak = rolled.peak
          /\ ledger'.paperStart = PaperStart(ledger.paperStart, now)
          /\ ledger'.history = ledger.history \/ ledger'.history = Append(ledger.history, point)
      BY <1>1, <2>1, <3>1, <3>2, RecordedIs
    <3> HIDE DEF point, rolled, now, closing
    <3>5. IsPrefix(ledger.history, ledger'.history)
      BY <2>1, <3>4, AppendIsPrefix
    <3>6. ledger.paperStart # None => ledger'.paperStart = ledger.paperStart
      BY <3>4 DEF PaperStart
    <3> QED
      BY <3>3, <3>4, <3>5, <3>6
  <2>4. (\E t \in Tasks : Record(t)) \/ UNCHANGED ledger
    BY <1>1 DEF Next, vars, QuotesBegin, CycleBegin, CycleCompleted, Decide, Refreshed, Alerted,
                Start, Crash, Midnight
  <2> QED
    BY <2>2, <2>3, <2>4
<1> QED
  BY <1>1, LedgerInvariant, PTL DEF Spec, LedgerGrows

-----------------------------------------------------------------------------
(* The PAPER run, which does not go back to DRY_RUN.                       *)

\* A task in progress began at the present time or before this step.
Carries ==
  \A t \in Tasks : work'[t] # None =>
    work'[t].now = Now \/ (work[t] # None /\ work'[t].now = work[t].now)

\* The steps that leave the ledger and the clock alone start no process.
LEMMA QuietCarries ==
  ASSUME IInv,
         \/ QuotesBegin \/ CycleBegin \/ CycleCompleted \/ Decide \/ Crash
         \/ \E t \in Tasks : Refreshed(t) \/ Alerted(t)
  PROVE  Carries /\ Quiet /\ (process' # "down" => process # "down")
<1> USE DEF IInv
<1>1. CASE QuotesBegin
  <2>1. Round("fetching", "refresh").now = Now
    BY DEF Round
  <2> QED
    BY <1>1, <2>1 DEF QuotesBegin, Carries, Quiet, clock, server, TypeOK, Tasks
<1>2. CASE CycleBegin
  <2>1. Round("fetching", "refresh").now = Now
    BY DEF Round
  <2> QED
    BY <1>2, <2>1 DEF CycleBegin, Carries, Quiet, clock, server, TypeOK, Tasks
<1>3. CASE CycleCompleted
  BY <1>3 DEF CycleCompleted, Carries, Quiet
<1>4. CASE Decide
  <2>1. \A r \in Rounds : [r EXCEPT !.step = "reading", !.purpose = "close"].now = r.now
    BY DEF Rounds
  <2>2. work["daily"] \in Rounds
    BY <1>4 DEF Decide, TypeOK, Tasks
  <2>3. work' = [work EXCEPT !["daily"] =
                   [work["daily"] EXCEPT !.step = "reading", !.purpose = "close"]]
    BY <1>4 DEF Decide, TypeOK, Tasks
  <2> QED
    BY <1>4, <2>1, <2>2, <2>3 DEF Decide, Carries, Quiet, clock, server, TypeOK, Tasks
<1>5. CASE Crash
  BY <1>5 DEF Crash, Carries, Quiet, clock
<1>6. ASSUME NEW t \in Tasks, work[t] # None, EndRound(t)
      PROVE  Carries /\ (process' # "down" => process # "down")
  <2>1. /\ \A u \in Tasks : u # t => work'[u] = work[u]
        /\ work'[t] # None => work'[t].now = work[t].now
        /\ process' # process => process' = "down"
    BY <1>6, EndRoundIs
  <2> QED
    BY <1>6, <2>1 DEF Carries
<1>7. ASSUME NEW t \in Tasks, Refreshed(t)
      PROVE  Carries /\ Quiet /\ (process' # "down" => process # "down")
  <2>1. CASE mode = "PAPER"
    <3>1. work[t] \in Rounds
      BY <1>7 DEF Refreshed, TypeOK
    <3>2. [work[t] EXCEPT !.step = "reading"].now = work[t].now
      BY <3>1 DEF Rounds
    <3>3. work' = [work EXCEPT ![t] = [work[t] EXCEPT !.step = "reading"]] /\ work[t] # None
      BY <1>7, <2>1 DEF Refreshed, TypeOK
    <3> QED
      BY <1>7, <2>1, <3>2, <3>3 DEF Refreshed, Carries, Quiet, clock, TypeOK
  <2>2. CASE mode # "PAPER"
    BY <1>6, <1>7, <2>2 DEF Refreshed, Quiet, clock
  <2> QED
    BY <2>1, <2>2
<1>8. ASSUME NEW t \in Tasks, Alerted(t)
      PROVE  Carries /\ Quiet /\ (process' # "down" => process # "down")
  BY <1>6, <1>8 DEF Alerted, Quiet, clock
<1> QED
  BY <1>1, <1>2, <1>3, <1>4, <1>5, <1>7, <1>8

\* While the ledger is left alone, the points stay what they were to the run.
LEMMA PaperRunKept ==
  ASSUME IInv, PaperRun, Carries, Quiet, process' # "down" => process # "down"
  PROVE  PaperRun'
<1>1. Now' = Now
  BY DEF Now, Quiet
<1> QED
  BY <1>1 DEF PaperRun, Carries, Quiet

\* A point of a DRY_RUN process is older than the start of a PAPER one.
LEMMA PaperRunStart ==
  ASSUME ~ Demotes, IInv, PaperRun, NEW kind \in {"service", "command"}, Start(kind)
  PROVE  PaperRun'
<1> USE DEF IInv, Start
<1>1. Now \in Nat /\ Now' = Now + 1
  <2>1. day \in Nat /\ starts \in Nat /\ MaxStarts \in Nat
    BY LedgerAssumption DEF TypeOK
  <2>2. day * (MaxStarts + 1) \in Nat
    BY <2>1
  <2>3. Now' = day * (MaxStarts + 1) + (starts + 1)
    BY DEF Now
  <2> QED
    BY <2>1, <2>2, <2>3 DEF Now
<1> DEFINE begun == Round("reading", "recover")
<1>2. begun \in Rounds /\ begun.now = Now
  BY RoundIs DEF Steps, Purposes
<1>3. work' = [work EXCEPT !["daily"] = [begun EXCEPT !.now = @ + 1]] /\ work["quotes"] = None
  BY DEF Working, Tasks
<1> HIDE DEF begun
<1>4. [begun EXCEPT !.now = @ + 1].now = Now + 1
  BY <1>2 DEF Rounds
<1>5. work'["daily"].now = Now' /\ work'["quotes"] = None
  BY <1>1, <1>3, <1>4 DEF TypeOK, Tasks
<1>6. \A t \in Tasks : work'[t] # None => work'[t].now = Now'
  BY <1>5 DEF Tasks
<1> SUFFICES ASSUME ledger # None PROVE PaperRun'
  BY DEF PaperRun
<1>7. \A i \in 1..Len(ledger.history) :
         ledger.history[i].at \in Nat /\ ledger.history[i].at < Now'
  <2>1. \A i \in 1..Len(ledger.history) : ledger.history[i].at \in Nat
    BY LastCycleIs
  <2> QED
    BY <1>1, <2>1 DEF History
<1>8. ledger.paperStart # None => mode' = "PAPER"
  BY DEF PaperRun
<1>9. ledger.paperStart # None => ledger.paperStart \in Nat /\ ledger.paperStart <= Now'
  <2>1. ledger.paperStart # None => ledger.paperStart \in Nat
    BY DEF TypeOK, Ledgers
  <2> QED
    BY <1>1, <2>1 DEF PaperRun
<1> QED
  BY <1>6, <1>7, <1>8, <1>9 DEF PaperRun

\* The date changes, and every time so far is older.
LEMMA PaperRunMidnight ==
  ASSUME IInv, PaperRun, Midnight
  PROVE  PaperRun'
<1> USE DEF IInv, Midnight, server
<1>1. Now \in Nat /\ Now' \in Nat /\ Now < Now'
  <2> DEFINE k == MaxStarts + 1
  <2>1. day \in Nat /\ starts \in Nat /\ k \in Nat \ {0}
    BY LedgerAssumption DEF TypeOK
  <2> HIDE DEF k
  <2>2. day * k \in Nat /\ (day + 1) * k = day * k + k
    BY <2>1
  <2>3. Now = day * k + starts /\ Now' = (day + 1) * k + starts
    BY DEF Now, k
  <2> QED
    BY <2>1, <2>2, <2>3
<1> SUFFICES ASSUME ledger # None PROVE PaperRun'
  BY DEF PaperRun
<1>2. \A i \in 1..Len(ledger.history) :
         ledger.history[i].at \in Nat /\ ledger.history[i].at < Now'
  <2>1. \A i \in 1..Len(ledger.history) : ledger.history[i].at \in Nat
    BY LastCycleIs
  <2> QED
    BY <1>1, <2>1 DEF History
<1>3. ledger.paperStart # None => ledger.paperStart \in Nat /\ ledger.paperStart <= Now'
  <2>1. ledger.paperStart # None => ledger.paperStart \in Nat
    BY DEF TypeOK, Ledgers
  <2> QED
    BY <1>1, <2>1 DEF PaperRun
<1> QED
  BY <1>2, <1>3 DEF PaperRun

\* The first round of the PAPER run starts it; every point it adds is from then on,
\* and in DRY_RUN nothing starts.
LEMMA PaperRunRecord ==
  ASSUME IInv, PaperRun, NEW t \in Tasks, Record(t)
  PROVE  PaperRun'
<1> USE DEF IInv, clock
<1> DEFINE closing == work[t].purpose = "close"
           now == work[t].now
           point(e) == [at |-> now, equity |-> e, mode |-> mode]
           h == Loaded.history
           n == Len(h)
           g == ledger'.history
           begun == Loaded.paperStart
<1>1. PICK equity \in Equities : ledger' = Recorded(now, equity, closing)
  BY DEF Record
<1>2. work[t] # None /\ UNCHANGED <<day, starts, mode>> /\ process # "down"
  BY DEF Record, Working
<1>3. /\ work[t] \in Rounds /\ now \in Nat /\ (closing => t = "daily" /\ now = Now)
      /\ Now' = Now /\ Now \in Nat
  BY <1>2, CarriedTime, Times DEF Now
<1>4. now <= Now
  BY <1>2, <1>3 DEF Working, Tasks
<1>5. /\ ledger' \in Ledgers /\ point(equity) \in Points
      /\ ledger'.paperStart = PaperStart(begun, now)
      /\ g = h \/ (closing /\ g = Append(h, point(equity)))
  BY <1>1, <1>3, RecordedIs
<1>6. Loaded \in Ledgers /\ h \in Seq(Points) /\ n \in Nat /\ begun \in Nat \cup {None}
  BY LoadedIs DEF Ledgers
<1>7. mode \in {"DRY_RUN", "PAPER"}
  BY DEF TypeOK
<1>8. /\ begun # None =>
           /\ mode = "PAPER" /\ begun <= Now
           /\ \A i \in 1..n : h[i].mode = "PAPER" <=> h[i].at >= begun
      /\ begun = None =>
           /\ \A i \in 1..n : h[i].mode = "DRY_RUN"
           /\ mode = "PAPER" => \A i \in 1..n : h[i].at < now
      /\ \A i \in 1..n : h[i].at \in Nat
  <2>1. CASE ledger = None
    <3>1. h = <<>> /\ begun = None /\ n = 0 /\ 1..0 = {}
      BY <2>1, LoadedIs
    <3> QED
      BY <3>1
  <2>2. CASE ledger # None
    <3>1. Loaded = ledger
      BY <2>2, LoadedIs
    <3>2. \A i \in 1..n : h[i].at \in Nat
      BY <2>2, <3>1, LastCycleIs
    <3> QED
      BY <1>2, <2>2, <3>1, <3>2 DEF PaperRun
  <2> QED
    BY <2>1, <2>2
<1> DEFINE p == point(equity)
<1>9. p.at = now /\ p.mode = mode
  OBVIOUS
<1>10. \/ Len(g) = n /\ \A i \in 1..n : g[i] = h[i]
       \/ /\ closing /\ Len(g) = n + 1 /\ g[n + 1] = p
          /\ \A i \in 1..n : g[i] = h[i]
  <2> HIDE DEF p
  <2>1. CASE g = h
    BY <2>1
  <2>2. CASE closing /\ g = Append(h, p)
    <3>1. p \in Points
      BY <1>5 DEF p
    <3> QED
      BY <1>6, <2>2, <3>1
  <2> QED
    BY <1>5, <2>1, <2>2 DEF p
<1>11. ledger'.paperStart = IF begun # None THEN begun ELSE IF mode = "PAPER" THEN now ELSE None
  BY <1>5 DEF PaperStart
<1> DEFINE since == ledger'.paperStart
<1>12. now # None
  BY <1>3, LedgerAssumption
<1> HIDE DEF p, h, n, begun, now, closing, g, since
<1>13. ASSUME since # None
       PROVE  /\ mode = "PAPER" /\ since <= Now
              /\ \A i \in 1..Len(g) : g[i].mode = "PAPER" <=> g[i].at >= since
  <2>1. since \in Nat /\ since <= Now /\ mode = "PAPER"
    BY <1>3, <1>4, <1>6, <1>8, <1>11, <1>13 DEF since
  <2>2. \A i \in 1..n : h[i].mode = "PAPER" <=> h[i].at >= since
    <3>1. CASE begun # None
      BY <1>8, <1>11, <3>1 DEF since
    <3>2. CASE begun = None
      <4>1. since = now
        BY <1>11, <2>1, <3>2 DEF since
      <4>2. \A i \in 1..n : h[i].mode # "PAPER" /\ ~ (h[i].at >= now)
        BY <1>3, <1>8, <2>1, <3>2
      <4> QED
        BY <4>1, <4>2
    <3> QED
      BY <3>1, <3>2
  <2>3. closing => p.mode = "PAPER" /\ p.at >= since
    BY <1>3, <1>9, <2>1
  <2>4. ASSUME NEW i \in 1..Len(g)
        PROVE  g[i].mode = "PAPER" <=> g[i].at >= since
    <3>1. i \in 1..n \/ (closing /\ i = n + 1 /\ g[i] = p)
      BY <1>6, <1>10
    <3>2. CASE i \in 1..n
      BY <1>10, <2>2, <3>2
    <3>3. CASE closing /\ i = n + 1 /\ g[i] = p
      BY <2>3, <3>3
    <3> QED
      BY <3>1, <3>2, <3>3
  <2> QED
    BY <2>1, <2>4
<1>14. ASSUME since = None
       PROVE  mode = "DRY_RUN" /\ \A i \in 1..Len(g) : g[i].mode = "DRY_RUN"
  <2>1. begun = None /\ mode = "DRY_RUN"
    BY <1>7, <1>11, <1>12, <1>14 DEF since
  <2>2. \A i \in 1..n : h[i].mode = "DRY_RUN"
    BY <1>8, <2>1
  <2> QED
    BY <1>6, <1>9, <1>10, <2>1, <2>2
<1> QED
  BY <1>2, <1>3, <1>13, <1>14 DEF PaperRun, g, since

\* Every step keeps apart what belongs to the PAPER run.
LEMMA PaperRunContinues == ~ Demotes /\ IInv /\ PaperRun /\ [Next]_vars => PaperRun'
<1> SUFFICES ASSUME ~ Demotes, IInv, PaperRun, [Next]_vars PROVE PaperRun'
  OBVIOUS
<1>1. CASE UNCHANGED vars
  BY <1>1 DEF vars, clock, server, PaperRun, Now
<1>2. CASE QuotesBegin \/ CycleBegin \/ CycleCompleted \/ Decide \/ Crash
             \/ \E t \in Tasks : Refreshed(t) \/ Alerted(t)
  BY <1>2, QuietCarries, PaperRunKept
<1>3. ASSUME NEW t \in Tasks, Record(t) PROVE PaperRun'
  BY <1>3, PaperRunRecord
<1>4. ASSUME NEW kind \in {"service", "command"}, Start(kind) PROVE PaperRun'
  BY <1>4, PaperRunStart
<1>5. CASE Midnight
  BY <1>5, PaperRunMidnight
<1> QED
  BY <1>1, <1>2, <1>3, <1>4, <1>5 DEF Next

\* Every state of the ledger, where the mode is not set back to DRY_RUN (a deployment
\* does that): types, one point per completed date, a live return that is compared over
\* the points of the PAPER run and no others, and no change passed over in silence.
THEOREM LedgerSafe == ASSUME ~ Demotes PROVE Spec => []LedgerInv
<1>1. Init => PaperRun
  BY DEF Init, PaperRun
<1>2. IInv /\ PaperRun /\ [Next]_vars => PaperRun'
  BY PaperRunContinues
<1>3. ASSUME IInv, PaperRun PROVE DiffUsesPaperPoints
  <2> USE DEF IInv
  <2> SUFFICES ASSUME Loaded.paperStart # None
               PROVE  Compared = {point \in Range(Loaded.history) : point.mode = "PAPER"}
    BY DEF DiffUsesPaperPoints
  <2>1. ledger # None /\ Loaded = ledger
    BY <1>3, LoadedIs
  <2>2. DOMAIN ledger.history = 1..Len(ledger.history)
    BY <1>3, <2>1, LastCycleIs
  <2>3. \A point \in Range(ledger.history) :
           point.mode = "PAPER" <=> point.at >= ledger.paperStart
    BY <1>3, <2>1, <2>2 DEF PaperRun, Range
  <2> QED
    BY <2>1, <2>3 DEF Compared
<1>4. Spec => []PaperRun
  BY <1>1, <1>2, LedgerInvariant, PTL DEF Spec
<1> QED
  BY <1>3, <1>4, LedgerInvariant, TypeCorrect, PointsHold, AlertsHold, PTL DEF LedgerInv
=============================================================================
