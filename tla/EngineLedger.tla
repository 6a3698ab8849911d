---------------------------- MODULE EngineLedger ----------------------------
(***************************************************************************)
(* The equity ledger of engines/crypto_paper_engine.py, the position alerts*)
(* of ops/monitor.py, and the points that the daily live-backtest diff     *)
(* compares.  The quote loop and the daily cycle both rewrite the ledger;  *)
(* the service dies and starts again, in DRY_RUN or in PAPER, and in       *)
(* between an operator runs the cycle command.                             *)
(*                                                                         *)
(* Granularity.  A task ends a step where it awaits a thread that reads    *)
(* quotes, or the alert transport.  Equity and position are what the paper *)
(* adapter happens to hold: any value.                                     *)
(***************************************************************************)
EXTENDS Integers, SequencesExt

CONSTANTS
  Equities,     \* values of the portfolio
  Initial,      \* initial_equity
  Positions,    \* what may be held; the first call of the monitor assumes Flat
  Flat,
  WeekDays,     \* days of a week
  Demotes,      \* whether the mode may be set back to DRY_RUN
  MaxDays,      \* bound: days
  MaxStarts,    \* bound: starts of a process
  None

ASSUME LedgerAssumption ==
  /\ Equities \subseteq Nat \ {0} /\ Initial \in Equities
  /\ Flat \in Positions
  /\ WeekDays \in Nat \ {0} /\ MaxDays \in Nat \ {0} /\ MaxStarts \in Nat \ {0}
  /\ Demotes \in BOOLEAN
  /\ None \notin Nat

Tasks == {"quotes", "daily"}

VARIABLES
  day,       \* the date
  due,       \* the 00:05 of this date is still to come
  starts,    \* number of processes so far
  process,   \* down, service (run) or command (cycle)
  mode,      \* DRY_RUN or PAPER, as the process was or will be started
  work,      \* what each task is doing, or None
  position,  \* durable: the paper adapter's
  ledger,    \* durable: EngineLedger, or None
  done,      \* durable: the dates with a COMPLETED record
  stored,    \* durable: monitor:positions, the position last reported
  alerts     \* durable: the positions the journal has an alert of

clock == <<day, due>>
server == <<starts, process, mode>>
vars == <<clock, server, work, position, ledger, done, stored, alerts>>

Purposes == {"refresh", "close", "recover"}

Steps == {"fetching", "reading", "alerting", "deciding"}

\* A task at a step of a round; told is the position of its alert.
Rounds == [step : Steps, purpose : Purposes, now : Nat, told : Positions \cup {None}]

\* The time, later in every process than in the one before.
Now == day * (MaxStarts + 1) + starts

Date(t) == t \div (MaxStarts + 1)

Week(d) == d \div WeekDays

Round(step, purpose) == [step |-> step, purpose |-> purpose, now |-> Now, told |-> None]

Init ==
  /\ day = 1 /\ due = TRUE
  /\ starts = 0 /\ process = "down" /\ mode = "DRY_RUN"
  /\ work = [t \in Tasks |-> None]
  /\ position = Flat
  /\ ledger = None
  /\ done = {}
  /\ stored = Flat
  /\ alerts = {}

-----------------------------------------------------------------------------
(* The ledger.                                                             *)

\* PortfolioPoint and EngineLedger.
Points == [at : Nat, equity : Equities, mode : {"DRY_RUN", "PAPER"}]

Ledgers ==
  [dayStart : Equities, weekStart : Equities, peak : Equities, lastCycle : Nat \cup {None},
   paperStart : Nat \cup {None}, history : Seq(Points)]

ASSUME NoneAssumption == None \notin Rounds /\ None \notin Ledgers

\* _load_ledger.
Loaded ==
  IF ledger # None THEN ledger
  ELSE [dayStart |-> Initial, weekStart |-> Initial, peak |-> Initial,
        lastCycle |-> None, paperStart |-> None, history |-> <<>>]

Highest(a, b) == IF a > b THEN a ELSE b

\* Mutant: until the first cycle the high-water mark starts again, too.
MutRollPeak(old, t, equity) ==
  IF old.lastCycle = None
    THEN [old EXCEPT !.dayStart = equity, !.weekStart = equity, !.peak = equity]
    ELSE [old EXCEPT !.peak = Highest(@, equity)]

\* Mutant: a new day starts with the equity of its first reading.
MutRollNow(old, t, equity) ==
  LET newDay == old.lastCycle # None /\ Date(t) > old.lastCycle
  IN [old EXCEPT !.peak = Highest(@, equity),
                 !.dayStart = IF old.lastCycle = None \/ newDay THEN equity ELSE @]

\* _roll_ledger: until the first cycle, day and week start now; a new day starts
\* with the equity of the last cycle, and so does a new week.
Roll(old, t, equity) ==
  LET latest == IF old.history = <<>> THEN equity ELSE Last(old.history).equity
      newDay == old.lastCycle # None /\ Date(t) > old.lastCycle
      newWeek == newDay /\ Week(Date(t)) # Week(old.lastCycle)
  IN [old EXCEPT
        !.dayStart = IF old.lastCycle = None THEN equity ELSE IF newDay THEN latest ELSE @,
        !.weekStart = IF old.lastCycle = None THEN equity ELSE IF newWeek THEN latest ELSE @,
        !.peak = Highest(@, equity)]

\* Mutant: the last point's date is not looked at.
MutWithPoint(history, point) == Append(history, point)

\* One point per date.  Its mode is not part of the file.
WithPoint(history, point) ==
  IF history # <<>> /\ Date(Last(history).at) = Date(point.at) THEN history
  ELSE Append(history, point)

PaperStart(old, t) == IF old # None THEN old ELSE IF mode = "PAPER" THEN t ELSE None

\* What _record_portfolio saves; closing is append_history.
Recorded(t, equity, closing) ==
  LET rolled == Roll(Loaded, t, equity) IN
  [rolled EXCEPT
     !.lastCycle = IF closing THEN Date(t) ELSE @,
     !.paperStart = PaperStart(@, t),
     !.history = IF closing THEN WithPoint(@, [at |-> t, equity |-> equity, mode |-> mode]) ELSE @]

-----------------------------------------------------------------------------
(* The tasks.                                                              *)

\* The end of a round: the daily cycle decides after its refresh and is completed
\* after its record, with which the cycle command ends.
EndRound(t) ==
  LET w == work[t] IN
  /\ work' = [work EXCEPT ![t] = IF t = "daily" /\ w.purpose = "refresh"
                                   THEN [w EXCEPT !.step = "deciding"] ELSE None]
  /\ done' = IF w.purpose = "close" THEN done \cup {Date(w.now)} ELSE done
  /\ process' = IF w.purpose = "close" /\ process = "command" THEN "down" ELSE process

Recovering == work["daily"] # None /\ work["daily"].purpose = "recover"

\* refresh_quotes begins in the quote loop.
QuotesBegin ==
  /\ process = "service" /\ work["quotes"] = None /\ ~Recovering
  /\ work' = [work EXCEPT !["quotes"] = Round("fetching", "refresh")]
  /\ UNCHANGED <<clock, server, position, ledger, done, stored, alerts>>

\* run_daily_cycle begins, at 00:05 or as the command.
CycleBegin ==
  /\ process = "command" \/ (process = "service" /\ due)
  /\ work["daily"] = None /\ day \notin done
  /\ work' = [work EXCEPT !["daily"] = Round("fetching", "refresh")]
  /\ due' = FALSE
  /\ UNCHANGED <<day, server, position, ledger, done, stored, alerts>>

\* The date has its COMPLETED record already.
CycleCompleted ==
  /\ process = "command" \/ (process = "service" /\ due)
  /\ work["daily"] = None /\ day \in done
  /\ process' = IF process = "command" THEN "down" ELSE process
  /\ due' = FALSE
  /\ UNCHANGED <<day, starts, mode, work, position, ledger, done, stored, alerts>>

\* refresh_quotes has its quotes: in PAPER they may fill orders, and the
\* portfolio is recorded next.
Refreshed(t) ==
  /\ work[t] # None /\ work[t].step = "fetching"
  /\ IF mode = "PAPER"
       THEN /\ position' \in Positions
            /\ work' = [work EXCEPT ![t].step = "reading"]
            /\ UNCHANGED <<done, process>>
       ELSE UNCHANGED position /\ EndRound(t)
  /\ UNCHANGED <<clock, starts, mode, ledger, stored, alerts>>

\* Mutant: only the cycle reports positions.
MutMoved(w) == stored # position /\ w.purpose = "close"

Moved(w) == stored # position

Journalled == alerts \cup {position}

\* _record_portfolio has its quotes: the ledger is loaded, rolled and saved, and
\* position_changes journals an alert and sends it.
Record(t) ==
  /\ work[t] # None /\ work[t].step = "reading"
  /\ \E equity \in Equities :
       ledger' = Recorded(work[t].now, equity, work[t].purpose = "close")
  /\ IF Moved(work[t])
       THEN /\ alerts' = Journalled
            /\ work' = [work EXCEPT ![t].step = "alerting", ![t].told = position]
            /\ UNCHANGED <<done, process>>
       ELSE UNCHANGED alerts /\ EndRound(t)
  /\ UNCHANGED <<clock, starts, mode, position, stored>>

\* The alert is delivered, or its failure journalled.
Alerted(t) ==
  /\ work[t] # None /\ work[t].step = "alerting"
  /\ stored' = work[t].told
  /\ EndRound(t)
  /\ UNCHANGED <<clock, starts, mode, position, ledger, alerts>>

\* The cycle approved and submitted its orders with the baselines it loaded.
Decide ==
  /\ work["daily"] # None /\ work["daily"].step = "deciding"
  /\ work' = [work EXCEPT !["daily"].step = "reading", !["daily"].purpose = "close"]
  /\ UNCHANGED <<clock, server, position, ledger, done, stored, alerts>>

-----------------------------------------------------------------------------
(* Processes and the clock.                                                *)

\* A process starts, before or after 00:05, and recovers.
Start(kind) ==
  /\ process = "down" /\ starts + (IF kind = "command" THEN 1 ELSE 0) < MaxStarts
  /\ starts' = starts + 1
  /\ process' = kind
  /\ \E m \in {"DRY_RUN", "PAPER"} :
       /\ mode = "PAPER" /\ ~Demotes => m = "PAPER"
       /\ mode' = m
  /\ due' \in {due, FALSE}
  /\ work' = [work EXCEPT !["daily"] = [Round("reading", "recover") EXCEPT !.now = @ + 1]]
  /\ UNCHANGED <<day, position, ledger, done, stored, alerts>>

\* The process is killed, or an exception leaves one of its tasks.
Crash ==
  /\ process # "down" /\ starts < MaxStarts
  /\ process' = "down"
  /\ work' = [t \in Tasks |-> None]
  /\ UNCHANGED <<clock, starts, mode, position, ledger, done, stored, alerts>>

\* A cycle takes minutes and begins at 00:05; a reading may span midnight.
Midnight ==
  /\ day < MaxDays /\ work["daily"] = None
  /\ day' = day + 1
  /\ due' = TRUE
  /\ UNCHANGED <<server, work, position, ledger, done, stored, alerts>>

Next ==
  \/ QuotesBegin \/ CycleBegin \/ CycleCompleted \/ Decide
  \/ \E t \in Tasks : Refreshed(t) \/ Record(t) \/ Alerted(t)
  \/ \E kind \in {"service", "command"} : Start(kind)
  \/ Crash \/ Midnight

Spec == Init /\ [][Next]_vars

\* The loop goes on, threads and the transport (15 s) return, systemd restarts
\* the service.
FairSpec ==
  /\ Spec
  /\ WF_vars(QuotesBegin) /\ WF_vars(CycleBegin) /\ WF_vars(CycleCompleted) /\ WF_vars(Decide)
  /\ \A t \in Tasks : WF_vars(Refreshed(t)) /\ WF_vars(Record(t)) /\ WF_vars(Alerted(t))
  /\ WF_vars(Start("service"))

-----------------------------------------------------------------------------
(* The diff.                                                               *)

\* DailyLiveBacktestDiff.run: the points it compares with the backtest.
Compared ==
  {point \in Range(Loaded.history) : Loaded.paperStart = None \/ point.at >= Loaded.paperStart}

-----------------------------------------------------------------------------
(* Properties.                                                             *)

\* Every variable has its type.
TypeOK ==
  /\ day \in 1..MaxDays /\ due \in BOOLEAN /\ starts \in 0..MaxStarts
  /\ process \in {"down", "service", "command"} /\ mode \in {"DRY_RUN", "PAPER"}
  /\ work \in [Tasks -> Rounds \cup {None}]
  /\ {position, stored} \cup alerts \subseteq Positions
  /\ done \subseteq 1..MaxDays
  /\ ledger \in Ledgers \cup {None}

\* The equity curve has one point for every completed date and at most one for
\* any, in order, though the process may die between the save of the ledger and
\* the COMPLETED record and the cycle is then run again.
OnePointPerDay ==
  LET history == Loaded.history IN
  /\ \A i, j \in DOMAIN history : i < j => Date(history[i].at) < Date(history[j].at)
  /\ done \subseteq {Date(history[i].at) : i \in DOMAIN history}

\* The equity of the last point of a date before d, if there is one.
CloseBefore(history, d, equity) ==
  LET Earlier == {i \in DOMAIN history : Date(history[i].at) < d}
  IN \A i \in Earlier : (\A j \in Earlier : j <= i) => equity = history[i].equity

\* The daily and the weekly loss limit are about the day and the week: whenever
\* a cycle decides, however often the quote loop rolled the ledger before, after
\* days without a cycle and in a second run of the date, the day starts with the
\* last close before this date and the week with the last close before this week.
BaselinesAreCloses ==
  work["daily"] # None /\ work["daily"].step = "deciding" =>
    \A equity \in Equities :
      LET today == Date(work["daily"].now)
          rolled == Roll(Loaded, work["daily"].now, equity)
      IN /\ CloseBefore(rolled.history, today, rolled.dayStart)
         /\ CloseBefore(rolled.history, Week(today) * WeekDays, rolled.weekStart)

\* No task writes back what another has replaced: points are only added, the
\* high-water mark never falls, and the start of the PAPER run is never moved.
LedgerGrows ==
  [][ledger # None =>
       /\ IsPrefix(ledger.history, ledger'.history)
       /\ ledger'.peak >= ledger.peak
       /\ ledger.paperStart # None => ledger'.paperStart = ledger.paperStart]_vars

\* The live return that is compared with the backtest is that of the PAPER run:
\* all of its points and none of the DRY_RUN before it.
DiffUsesPaperPoints ==
  Loaded.paperStart # None =>
    Compared = {point \in Range(Loaded.history) : point.mode = "PAPER"}

\* No change of position is passed over in silence: what counts as reported has
\* an alert in the journal, also when the process dies while the alert is sent.
AlertBeforeStored == stored = Flat \/ stored \in alerts

\* Once the position stays, the monitor comes to know it and has reported it,
\* though an older call may overwrite what a newer one stored.
PositionLearned == <>[][FALSE]_position => <>[](stored = position)

\* What every state keeps whatever task wrote last and wherever a process died:
\* the variables have their types, the curve has one point per completed date, the
\* diff takes the points of the PAPER run, and no change of position counts as
\* reported without an alert in the journal.
LedgerInv == TypeOK /\ OnePointPerDay /\ DiffUsesPaperPoints /\ AlertBeforeStored
=============================================================================
