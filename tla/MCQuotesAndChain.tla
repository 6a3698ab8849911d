-------------------------- MODULE MCQuotesAndChain --------------------------
(***************************************************************************)
(* The two small parts of the package data/, which share neither state nor *)
(* process: a behaviour is one of the recorder of quotes or one of the     *)
(* chain of futures contracts, and the other part stays as it began.       *)
(***************************************************************************)
EXTENDS QuoteRecorder, FuturesChain

\* Three prices: the two midpoints furthest apart are a jump.
MCLevels == 1..3

\* 2024, a leap year that begins on a Monday, and 2025.
MCMonthLengths ==
  <<31, 29, 31, 30, 31, 30, 31, 31, 30, 31, 30, 31,
    31, 28, 31, 30, 31, 30, 31, 31, 30, 31, 30, 31>>

MCSymbols == {"MES", "MGC", "MHG", "MCL", "MNG", "M6E"}

MCFirstMonths == {2, 3, 7, 11}

\* One or two of the last eight days of a month are holidays, or none are.
MCHolidays ==
  {{}} \cup {{MonthStart(m) + d} : m \in MCFirstMonths, d \in -8..-1}
       \cup {{MonthStart(m) - 1, MonthStart(m) - 4} : m \in MCFirstMonths}

MCPrices == {1, 2}

VARIABLE part

Parts == {"quotes", "chain"}

AtRest(p) ==
  IF p = "quotes"
    THEN \A v \in Venues : market[v] = CHOOSE book \in MarketBooks : TRUE
    ELSE symbol = "MES" /\ holidays = {} /\ \A i \in DOMAIN calendar : calendar[i].month < 9

MCInit ==
  /\ part \in Parts
  /\ Init /\ FCInit
  /\ \A p \in Parts \ {part} : AtRest(p)

MCNext ==
  /\ \/ part = "quotes" /\ Next /\ UNCHANGED FCvars
     \/ part = "chain" /\ FCNext /\ UNCHANGED vars
  /\ UNCHANGED part

\* The fairness is that of the recorder: no behaviour of the chain alone has it.
MCSpec == MCInit /\ [][MCNext]_<<part, vars, FCvars>> /\ Fairness
=============================================================================
