---------------------------- MODULE BarRecorder ----------------------------
(***************************************************************************)
(* The candles: data/recorder.py fetches them from Coinbase and Kraken     *)
(* once an hour, data/store.py keeps them, data/quality.py reports what is *)
(* missing, and the trading engine reads the daily ones.  Recorder, report *)
(* and engine are three processes that share the files.                    *)
(*                                                                         *)
(* Time is in hours.  A poll begins at minute 5 of an hour; each fetch     *)
(* awaits the exchange, which answers in some hour from that of the        *)
(* request to that in which the answer is parsed, and a slow poll reaches  *)
(* into later hours.  Any fetch may fail, which ends the process           *)
(* (run_forever is one TaskGroup); systemd starts it again, after the      *)
(* backfill.                                                               *)
(*                                                                         *)
(* All symbols close at the same prices.  A Parquet fragment is published  *)
(* atomically, and a fetch appends to one partition per day it covers.     *)
(***************************************************************************)
EXTENDS Integers, SequencesExt

CONSTANTS
  CoinbaseSpot, \* the spot symbols recorded at Coinbase, in order
  KrakenSpot,   \* and at Kraken
  DayHours,     \* the hours of a day
  PageRows,     \* how many intervals back a Coinbase poll asks for
  Closes,       \* closing prices
  MaxHour,      \* bound: when the clock stops
  MaxTroubles,  \* bound: fetches that fail, are answered late or take an hour
  Idle          \* no poll or backfill

Series == CoinbaseSpot \o KrakenSpot

Lens == {1, DayHours}

ASSUME RecorderAssumption ==
  /\ CoinbaseSpot \in Seq(Range(CoinbaseSpot)) /\ KrakenSpot \in Seq(Range(KrakenSpot))
  /\ IsInjective(Series) /\ CoinbaseSpot # <<>>
  /\ DayHours \in Nat /\ DayHours > 1
  /\ PageRows \in Nat \ {0}
  /\ Closes \subseteq Nat \ {0}
  /\ MaxHour \in Nat /\ MaxHour >= DayHours
  /\ MaxTroubles \in Nat

VARIABLES
  hour,      \* the present hour
  closing,   \* the closing price of every hour that is over
  phase,     \* of the recorder: down, backfill, run
  job,       \* the poll or backfill in progress, begun in hour now: [now, asked, left],
             \* asked the hour of the request that is under way; or Idle
  wake,      \* the hour of the next poll
  marker,    \* backfill-complete.json exists
  stored,    \* the rows of the ohlcv dataset
  cycle,     \* the last cycle of the engine: [day, bar], at first that of day 0
  vouched,   \* the last day that has a report without gaps, stale or missing series
  troubles

BRvars == <<hour, closing, phase, job, wake, marker, stored, cycle, vouched, troubles>>

-----------------------------------------------------------------------------
(* Candles.                                                                *)

Row(s, len, bucket, close, final) ==
  [series |-> s, len |-> len, bucket |-> bucket, close |-> close, final |-> final]

\* The candle of a bucket that is over.
Candle(s, len, bucket) == Row(s, len, bucket, closing[(bucket + 1) * len], TRUE)

\* The exchange's candles before bucket next, from bucket first on.
ListedCandles(s, len, first, next) ==
  [i \in 1..(next - first) |-> Candle(s, len, first + i - 1)]

\* What the exchange answers in hour at.  The last candle is the one it is forming,
\* unless Coinbase, which is asked for no later bucket than the job's own, has
\* closed that one.  When it is late, Coinbase does not list the last closed
\* candle, and Kraken is still forming it.
Answers(s, len, first, late, at) ==
  LET open == (at \div len) - (IF late THEN 1 ELSE 0)
      next == IF Contains(CoinbaseSpot, s) THEN Min({open, (job.now \div len) + 1}) ELSE open
      Forming == {<<Row(s, len, open, close, FALSE)>> : close \in Closes}
      end == IF next < open \/ (late /\ Contains(CoinbaseSpot, s)) THEN {<<>>} ELSE Forming
  IN {ListedCandles(s, len, first, next) \o f : f \in end}

\* valid_price: a move of more than half the last accepted price is refused.
ValidClose(close, previous) ==
  LET move == IF close > previous THEN close - previous ELSE previous - close
  IN 2 * move <= previous

Accept(rows, row) ==
  IF rows = <<>> \/ ValidClose(row.close, Last(rows).close) THEN Append(rows, row) ELSE rows

\* Mutant: the candle that is still forming is taken for closed.
MutClosed(s, row) == TRUE

\* A Coinbase candle is taken when its interval is over as the answer is parsed.
\* Kraken's are not looked at.
Closed(s, row) == Contains(KrakenSpot, s) \/ (row.bucket + 1) * row.len <= hour

\* parse_spot_candles, which never takes the last of Kraken's candles.
Parsed(s, rows) ==
  FoldLeft(LAMBDA kept, row : IF Closed(s, row) THEN Accept(kept, row) ELSE kept, <<>>,
           IF Contains(KrakenSpot, s) THEN Front(rows) ELSE rows)

\* fetch_spot_candles, and whether the exchange was late.
Fetched(s, len, first) ==
  UNION {{[late |-> late, rows |-> Parsed(s, rows)] : rows \in Answers(s, len, first, late, at)} :
         late \in {l \in BOOLEAN : l => troubles < MaxTroubles /\ first < hour \div len},
         at \in job.asked..hour}

\* Mutant: the candles before the bucket of the present hour are taken for complete.
MutLatestCompleted(rows, now) ==
  LET completed == {row \in Range(rows) : row.bucket < hour \div row.len}
  IN {row \in completed : \A other \in completed : other.bucket <= row.bucket}

\* _latest_completed: of the candles before the bucket of the poll, the last.
LatestCompleted(rows, now) ==
  LET completed == {row \in Range(rows) : row.bucket < now \div row.len}
  IN {row \in completed : \A other \in completed : other.bucket <= row.bucket}

-----------------------------------------------------------------------------
(* The recorder.                                                           *)

\* _hourly_poll: per symbol the hourly candles and, in hour 0, the daily ones.
Fetches(s, now) ==
  <<[series |-> s, len |-> 1]>>
    \o (IF now % DayHours = 0 THEN <<[series |-> s, len |-> DayHours]>> ELSE <<>>)

PollJob ==
  [now |-> hour, asked |-> hour,
   left |-> FlattenSeq([i \in DOMAIN Series |-> Fetches(Series[i], hour)])]

BackfillJob ==
  [now |-> hour, asked |-> hour,
   left |-> FlattenSeq([i \in DOMAIN Series |->
              <<[series |-> Series[i], len |-> 1], [series |-> Series[i], len |-> DayHours]>>])]

BRInit ==
  /\ hour = DayHours
  /\ closing \in [1..DayHours -> Closes]
  /\ phase = "down"
  /\ job = Idle
  /\ wake = 0
  /\ marker = FALSE
  /\ stored = {}
  /\ cycle = [day |-> 0, bar |-> 0]
  /\ vouched = 0
  /\ troubles = 0

PollDue == phase = "run" /\ job = Idle /\ wake = hour

HourPasses ==
  /\ hour < MaxHour /\ ~PollDue
  /\ troubles' = troubles + (IF job = Idle THEN 0 ELSE 1) /\ troubles' <= MaxTroubles
  /\ hour' = hour + 1
  /\ \E close \in Closes : closing' = Append(closing, close)
  /\ UNCHANGED <<phase, job, wake, marker, stored, cycle, vouched>>

\* _sleep_until_minute(5), at a minute before or after 5.
NextMinute5 == {hour, hour + 1}

\* ExecStartPre runs the backfill, which returns when its marker exists.
Start ==
  /\ phase = "down"
  /\ IF marker
       THEN phase' = "run" /\ wake' \in NextMinute5 /\ UNCHANGED job
       ELSE phase' = "backfill" /\ job' = BackfillJob /\ UNCHANGED wake
  /\ UNCHANGED <<hour, closing, marker, stored, cycle, vouched, troubles>>

\* One fetch of the backfill, from the first candle there is.
BackfillFetch ==
  /\ phase = "backfill" /\ job.left # <<>>
  /\ LET f == Head(job.left) IN
     \E answer \in Fetched(f.series, f.len, 0) :
       /\ stored' = stored \cup Range(answer.rows)
       /\ troubles' = troubles + (IF answer.late THEN 1 ELSE 0)
  /\ job' = [job EXCEPT !.left = Tail(@), !.asked = hour]
  /\ UNCHANGED <<hour, closing, phase, wake, marker, cycle, vouched>>

BackfillEnd ==
  /\ phase = "backfill" /\ job.left = <<>>
  /\ marker' = TRUE /\ phase' = "run" /\ job' = Idle
  /\ wake' \in NextMinute5
  /\ UNCHANGED <<hour, closing, stored, cycle, vouched, troubles>>

PollBegin ==
  /\ PollDue
  /\ job' = PollJob
  /\ UNCHANGED <<hour, closing, phase, wake, marker, stored, cycle, vouched, troubles>>

\* The first bucket of the page: all of Kraken's, the last ones of Coinbase's.
PageStart(f) ==
  IF Contains(KrakenSpot, f.series) THEN 0 ELSE Max({0, (job.now \div f.len) - PageRows + 1})

PollFetch ==
  /\ phase = "run" /\ job # Idle /\ job.left # <<>>
  /\ LET f == Head(job.left) IN
     \E answer \in Fetched(f.series, f.len, PageStart(f)) :
       /\ stored' = stored \cup LatestCompleted(answer.rows, job.now)
       /\ troubles' = troubles + (IF answer.late THEN 1 ELSE 0)
  /\ job' = [job EXCEPT !.left = Tail(@), !.asked = hour]
  /\ UNCHANGED <<hour, closing, phase, wake, marker, cycle, vouched>>

\* The funding rates arrived; to sleep until the next minute 5.
PollEnd ==
  /\ phase = "run" /\ job # Idle /\ job.left = <<>>
  /\ job' = Idle
  /\ wake' \in IF hour = job.now THEN {hour + 1} ELSE NextMinute5
  /\ UNCHANGED <<hour, closing, phase, marker, stored, cycle, vouched, troubles>>

\* An exchange does not answer, or no funding rates come, or another task of the
\* group fails.
Fail ==
  /\ phase # "down" /\ troubles < MaxTroubles
  /\ troubles' = troubles + 1
  /\ phase' = "down" /\ job' = Idle
  /\ UNCHANGED <<hour, closing, wake, marker, stored, cycle, vouched>>

-----------------------------------------------------------------------------
(* The readers.                                                            *)

Times(s, len) == {row.bucket : row \in {r \in stored : r.series = s /\ r.len = len}}

\* RecordedCryptoFeed.daily_bars: the days that all of Coinbase's symbols have.
CommonDays == {d \in Times(Head(CoinbaseSpot), DayHours) :
                 \A s \in Range(CoinbaseSpot) : d \in Times(s, DayHours)}

\* run_daily_cycle, at 00:05 or by hand later in the day: the last bar is the one
\* its signal is computed from.
Cycle ==
  LET day == hour \div DayHours IN
  /\ cycle.day # day
  /\ CommonDays # {}
  /\ cycle' = [day |-> day, bar |-> Max(CommonDays)]
  /\ UNCHANGED <<hour, closing, phase, job, wake, marker, stored, vouched, troubles>>

\* Mutant: the threshold is exceeded when more than two intervals have passed.
MutIsStale(bucket, len) == hour - bucket * len > 2 * len

\* is_stale, two intervals after the start of the last candle.
IsStale(bucket, len) == hour - bucket * len >= 2 * len

\* detect_gaps, the points between two neighbours.
Missing(times) ==
  {b \in Min(times)..Max(times) :
     /\ b \notin times
     /\ \E p, c \in times : p < b /\ b < c /\ \A t \in times : t <= p \/ c <= t}

\* Mutant: the newest candle of all series tells whether they are stale.
MutClean(len) ==
  /\ \A s \in Range(Series) : Times(s, len) # {} /\ Missing(Times(s, len)) = {}
  /\ ~IsStale(Max(UNION {Times(s, len) : s \in Range(Series)}), len)

\* build_daily_report: no series is missing, none has a gap, none is stale.
Clean(len) ==
  \A s \in Range(Series) :
    LET times == Times(s, len) IN
    /\ times # {}
    /\ Missing(times) = {}
    /\ ~IsStale(Max(times), len)

\* _quality_reporter at 00:10 and the timer of monitor_data_quality at 00:12, or at
\* the start of a machine that was down then: nothing orders them and the cycle.
Report ==
  /\ Clean(DayHours)
  /\ vouched' = hour \div DayHours
  /\ UNCHANGED <<hour, closing, phase, job, wake, marker, stored, cycle, troubles>>

BRNext ==
  \/ HourPasses \/ Start \/ BackfillFetch \/ BackfillEnd
  \/ PollBegin \/ PollFetch \/ PollEnd \/ Fail
  \/ Cycle \/ Report

BRSpec == BRInit /\ [][BRNext]_BRvars

-----------------------------------------------------------------------------
(* Properties.                                                             *)

\* Every variable has its type, and of whatever is stored the interval is over.
BRTypeOK ==
  /\ hour \in 0..MaxHour /\ closing \in [1..hour -> Closes]
  /\ phase \in {"down", "backfill", "run"} /\ marker \in BOOLEAN
  /\ wake \in 0..(MaxHour + 1) /\ troubles \in 0..MaxTroubles
  /\ job = Idle \/ (/\ job.now \in 0..hour /\ job.asked \in job.now..hour
                    /\ \A f \in Range(job.left) : f.len \in Lens)
  /\ \A row \in stored : /\ row.series \in Range(Series) /\ row.len \in Lens
                         /\ (row.bucket + 1) * row.len <= hour
  /\ cycle.day \in 0..hour /\ cycle.bar \in 0..hour
  /\ vouched \in 0..hour

\* A candle as the exchange has it when its interval is over.
Final(row) == row = Candle(row.series, row.len, row.bucket)

\* "Only a fully closed candle is valid data", said of whatever is stored.  A
\* backfill breaks it: the candle that was forming when Coinbase answered is over
\* when the answer is parsed.
StoredFinal == \A row \in stored : Final(row)

\* An hourly poll never stores a candle that was forming when the exchange
\* answered, however slow the poll, and though its answers are parsed later: it
\* takes candles of buckets that were over before it began.
PolledFinal == [][phase = "run" => \A row \in stored' \ stored : Final(row)]_BRvars

\* A report without gaps, stale or missing series means what it says: of every
\* series, each candle since the first one stored is there, but for those of the
\* interval that has just ended.
CleanMeansComplete ==
  \A len \in Lens : Clean(len) =>
    \A s \in Range(Series), b \in 0..hour :
      b >= Min(Times(s, len)) /\ (b + 2) * len <= hour => b \in Times(s, len)

\* What a clean report says of the cycles that come after it, while the recorder
\* goes on writing, fails half way and starts again: the day's own cycle uses
\* yesterday's candle, and a later one none that is older, nor the candle of a day
\* that is not over.  Of a cycle before the report (00:05 against 00:10) it says
\* nothing.
CycleAfterReport ==
  [][cycle' # cycle => cycle'.bar \in (vouched - 1)..(cycle'.day - 1)]_BRvars
=============================================================================
