---------------------------- MODULE FuturesChain ----------------------------
(***************************************************************************)
(* data/futures_chain.py: the dates on which a future rolls from one       *)
(* contract to the next, the continuous price series that is put together  *)
(* from the contracts, and a position that is rolled along.                *)
(*                                                                         *)
(* A date is a number of days, 0 being a Monday, and a month the number of *)
(* months since the first one.  Both loops over sessions are stepped side  *)
(* by side, with whatever bars a session has.  A bar is its close: all its *)
(* prices are shifted alike.                                               *)
(***************************************************************************)
EXTENDS Integers, SequencesExt

CONSTANTS
  MonthLengths,  \* days of each month, from a January on
  Symbols,       \* futures, out of the ROLL_RULES
  FirstMonths,   \* bound: months a calendar may begin with
  Contracts,     \* bound: contracts of a calendar
  Holidays,      \* bound: sets of holidays
  Prices,        \* bound: prices
  Quantity,      \* of the position
  Nothing        \* no date, no bar, no contract

ASSUME FuturesAssumption ==
  /\ MonthLengths \in Seq(28..31)
  /\ Symbols \subseteq {"MES", "MGC", "MHG", "MCL", "MNG", "M6E"}
  /\ Contracts \in Nat /\ Contracts > 1
  /\ Prices \subseteq Nat \ {0} /\ Nothing \notin Int /\ Quantity \in Int \ {0}
  \* all dates are within the known months, and no week is all holidays
  /\ \A m \in FirstMonths : m \in Nat \ {0} /\ m + 3 * (Contracts - 1) + 1 <= Len(MonthLengths)
  /\ \A h \in Holidays : ~ \E d \in h : d \in Int /\ d % 7 = 0 /\ d..(d + 4) \subseteq h

-----------------------------------------------------------------------------
(* Dates.                                                                  *)

\* The first day of month m, counted from 0.
MonthStart(m) == FoldLeft(LAMBDA days, length : days + length, 0, SubSeq(MonthLengths, 1, m))

Weekday(d) == d % 7

\* _is_business_day; Saturday and Sunday are 5 and 6.
BusinessDay(d, holidays) == Weekday(d) < 5 /\ d \notin holidays

\* The business day before d, which the loops of the code reach day by day; no
\* two are a month apart.
PreviousBusinessDay(d, holidays) == Max({e \in (d - 31)..(d - 1) : BusinessDay(e, holidays)})

\* _business_days_before.
BusinessDaysBefore(anchor, count, holidays) ==
  LET back[n \in 0..count] ==
        IF n = 0 THEN anchor ELSE PreviousBusinessDay(back[n - 1], holidays)
  IN back[count]

\* _nth_last_business_day and _last_business_day.
NthLastBusinessDay(m, count, holidays) == BusinessDaysBefore(MonthStart(m + 1), count, holidays)

\* _third_weekday.
ThirdWeekday(m, weekday) ==
  LET first == MonthStart(m) IN first + ((weekday - Weekday(first)) % 7) + 14

\* ROLL_RULES: of the futures with one convention, one stands for all.
RollLead == [MES |-> 5, MGC |-> 5, MHG |-> 5, MCL |-> 4, MNG |-> 4, M6E |-> 3]

\* Every how many months a contract is listed, December being the last one.
ListedEvery == [MES |-> 3, MGC |-> 2, MHG |-> 1, MCL |-> 1, MNG |-> 1, M6E |-> 3]

Listed(symbol, m) == (m + 1) % ListedEvery[symbol] = 0

Dates(lastTrade, firstNotice) == [lastTrade |-> lastTrade, firstNotice |-> firstNotice]

OilLead(d, holidays) == IF BusinessDay(d, holidays) THEN 4 ELSE 5

\* _contract_dates.
ContractDates(symbol, m, holidays) ==
  CASE symbol = "MES" -> Dates(ThirdWeekday(m, 4), Nothing)
    [] symbol = "M6E" -> Dates(BusinessDaysBefore(ThirdWeekday(m, 2), 2, holidays), Nothing)
    [] symbol = "MGC" -> Dates(NthLastBusinessDay(m, 3, holidays),
                               NthLastBusinessDay(m - 1, 1, holidays))
    [] symbol = "MHG" -> Dates(NthLastBusinessDay(m - 1, 3, holidays), Nothing)
    [] symbol = "MCL" -> LET d == MonthStart(m - 1) + 24
                         IN Dates(BusinessDaysBefore(d, OilLead(d, holidays), holidays), Nothing)
    [] symbol = "MNG" -> Dates(NthLastBusinessDay(m - 1, 4, holidays), Nothing)

\* Mutant: the first notice is not looked at.
MutAnchor(dates) == dates.lastTrade

Anchor(dates) ==
  IF dates.firstNotice = Nothing THEN dates.lastTrade ELSE Min({dates.lastTrade, dates.firstNotice})

Schedule(symbol, m, holidays) ==
  LET dates == ContractDates(symbol, m, holidays)
  IN [month |-> m, lastTrade |-> dates.lastTrade, firstNotice |-> dates.firstNotice,
      roll |-> BusinessDaysBefore(Anchor(dates), RollLead[symbol], holidays)]

\* build_roll_calendar, for consecutive listed months.
BuildRollCalendar(symbol, first, holidays) ==
  [i \in 1..Contracts |-> Schedule(symbol, first + (i - 1) * ListedEvery[symbol], holidays)]

-----------------------------------------------------------------------------

VARIABLES
  symbol, holidays, calendar,   \* a future and its calendar
  session,    \* the last session
  output,     \* the continuous series: contract and price
  bars,       \* the bars of the last session of the series
  skipped,    \* whether sessions without the active bar followed
  positions,  \* quantity per contract
  held,       \* the contract the position is in, or Nothing
  status      \* running, or the error that was raised

rules == <<symbol, holidays, calendar>>
FCvars == <<rules, session, output, bars, skipped, positions, held, status>>

Contract == 1..Contracts

FCInit ==
  /\ symbol \in Symbols /\ holidays \in Holidays
  /\ \E first \in FirstMonths :
       /\ Listed(symbol, first)
       /\ calendar = BuildRollCalendar(symbol, first, holidays)
  /\ session = 0
  /\ output = <<>>
  /\ bars = [c \in Contract |-> Nothing]
  /\ skipped = FALSE
  /\ positions = [c \in Contract |-> 0]
  /\ held = Nothing
  /\ status = "running"

\* active_contract: the first that is not rolled yet, or the last one.
ActiveContract(d) == Min({i \in Contract : i = Contracts \/ d < calendar[i].roll})

\* The sessions looked at: those about the rolls.
Sessions == UNION {{calendar[i].roll - 1, calendar[i].roll} : i \in 1..(Contracts - 1)}

Prior == IF output = <<>> THEN Nothing ELSE Last(output).contract

\* Mutant: the gap is taken off.
MutShift(item, gap) == [item EXCEPT !.close = @ - gap]

\* _shift_bar.
Shift(item, gap) == [item EXCEPT !.close = @ + gap]

Positive(items) == \A i \in DOMAIN items : items[i].close > 0

\* panama_back_adjust at a session with bars b: it has none of the active contract,
\* or the series goes on, or rolls, for which the old contract needs a bar, too,
\* and no price may fall to zero.
Continue(d, b) ==
  LET active == ActiveContract(d)
      rolls == Prior # Nothing /\ active # Prior
      gap == b[active] - b[Prior]
      adjusted == IF rolls THEN [i \in DOMAIN output |-> Shift(output[i], gap)] ELSE output
  IN IF b[active] = Nothing
       THEN skipped' = (output # <<>>) /\ UNCHANGED <<output, bars, status>>
     ELSE IF rolls /\ b[Prior] = Nothing
       THEN status' = "no overlap" /\ UNCHANGED <<output, bars, skipped>>
     ELSE IF ~Positive(adjusted)
       THEN status' = "not positive" /\ UNCHANGED <<output, bars, skipped>>
     ELSE /\ output' = Append(adjusted, [contract |-> active, close |-> b[active]])
          /\ bars' = b /\ skipped' = FALSE
          /\ UNCHANGED status

\* Mutant: the old contract is kept.
MutMoved(active) == [positions EXCEPT ![active] = Quantity]

Moved(active) == [c \in Contract |-> IF c = active THEN Quantity ELSE
                                     IF c = held THEN 0 ELSE positions[c]]

\* simulate_position_rolls at a session.
RollPosition(d) ==
  LET active == ActiveContract(d) IN
  /\ positions' = IF active = held THEN positions ELSE Moved(active)
  /\ held' = active

\* Only the bars of the active and the prior contract are ever looked at.
Step ==
  /\ status = "running"
  /\ \E d \in Sessions :
       /\ d > session
       /\ session' = d
       /\ RollPosition(d)
       /\ \E b \in [Contract -> Prices \cup {Nothing}] :
            /\ \A c \in Contract \ {ActiveContract(d), Prior} : b[c] = Nothing
            /\ Continue(d, b)
  /\ UNCHANGED rules

FCNext == Step

FCSpec == FCInit /\ [][FCNext]_FCvars

-----------------------------------------------------------------------------
(* Properties.                                                             *)

\* Every variable has its type.
FCTypeOK ==
  /\ symbol \in Symbols /\ Len(calendar) = Contracts
  /\ \A item \in Range(output) : item.contract \in Contract /\ item.close \in Nat \ {0}
  /\ bars \in [Contract -> Prices \cup {Nothing}] /\ skipped \in BOOLEAN
  /\ held \in Contract \cup {Nothing} /\ positions \in [Contract -> {0, Quantity}]
  /\ status \in {"running", "no overlap", "not positive"}

BusinessDays(from, to) == {d \in from..to : BusinessDay(d, holidays)}

\* "roll date must precede first notice/last trade" and the lead is one of business
\* days: over weekends, holidays and the end of a month, the roll is a business
\* day and there are as many of them as the lead says until the contract may be
\* traded or kept no more.
RollsInTime ==
  \A i \in Contract :
    LET c == calendar[i]
        end == Min({c.lastTrade, IF c.firstNotice = Nothing THEN c.lastTrade ELSE c.firstNotice})
    IN /\ BusinessDay(c.roll, holidays)
       /\ Cardinality(BusinessDays(c.roll, end - 1)) = RollLead[symbol]

\* The rules of the exchange, as CME states them: gold trades until the third last
\* business day of the month, copper and gas until the third and fourth last of
\* the month before, oil until the fourth business day before the 25th of the
\* month before or, if that is none, before the business day that precedes it.
LastTradeIsTheRule ==
  \A i \in Contract :
    LET c == calendar[i]
        Left(m) == Cardinality(BusinessDays(c.lastTrade, MonthStart(m + 1) - 1))
        the25th == MonthStart(c.month - 1) + 24
        oilDay == Max(BusinessDays(the25th - 14, the25th))
    IN CASE symbol = "MGC" -> Left(c.month) = 3
         [] symbol = "MHG" -> Left(c.month - 1) = 3
         [] symbol = "MNG" -> Left(c.month - 1) = 4
         [] symbol = "MCL" -> Cardinality(BusinessDays(c.lastTrade, oilDay - 1)) = 4
         [] OTHER -> TRUE

\* The contracts of a calendar roll in their order, so that from one session to a
\* later one the active contract never goes back.
RollsInOrder ==
  \A i \in 1..(Contracts - 1) :
    /\ calendar[i].roll < calendar[i + 1].roll
    /\ ActiveContract(calendar[i].roll - 1) <= i /\ ActiveContract(calendar[i].roll) = i + 1

\* "Each roll gap applied to prior history": from one session of the series to the
\* next the price moves as the contract held in between did, over a roll as on
\* any other day, and no later roll changes a move of the past.
NoRollGap ==
  [][Len(output') > Len(output) =>
       LET n == Len(output) IN
       /\ \A i \in 1..(n - 1) : output'[i + 1].close - output'[i].close
                                  = output[i + 1].close - output[i].close
       /\ n > 0 => output'[n + 1].close - output'[n].close = bars'[Prior] - bars[Prior]]_FCvars

\* "Without duplicating or dropping exposure": the whole position is in the contract
\* whose price the series shows, also when sessions are missing and a roll skips
\* a contract; only while the series waits for a bar the two may differ.
ExposureKept ==
  held # Nothing =>
    /\ positions[held] = Quantity /\ \A c \in Contract \ {held} : positions[c] = 0
    /\ status = "running" /\ output # <<>> /\ ~skipped => held = Prior

\* What holds of every calendar, wherever weekends, holidays and the ends of months
\* fall, and of the series made with it: the variables have their types, the rolls
\* are in time and in order, and the last trading days are those of the rules.
CalendarInv == FCTypeOK /\ RollsInTime /\ LastTradeIsTheRule /\ RollsInOrder
=============================================================================
