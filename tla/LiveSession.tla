------------------------------- MODULE LiveSession -----------------------------
(***************************************************************************)
(* A live paper session: LiveSimRunner (live/quote_loop.py) warms up,       *)
(* calibrates in a worker thread, trades and refits, while SessionRecorder  *)
(* logs it; load_session and replay_session (backtest/session.py) rerun the *)
(* log, also of a process that was killed.  The paper exchange, which       *)
(* Simulator describes, is taken as a function of what it is fed: at every  *)
(* decision it quotes from the features it has, every trade fills it, and   *)
(* its kill switch depends on the position and the top it is marked at.     *)
(***************************************************************************)
EXTENDS Features, SequencesExt

CONSTANTS
  Warmup,      \* warmup_s, in the model's unit of time
  Postponed,   \* 60 s more after a failed calibration
  Interval,    \* decision_ms, and the 100 ms between two mids
  SampleMs,    \* sample_ms
  RoundTrip,   \* round_trip_ms, until a cancel takes effect
  Drawdowns,   \* positions and tops at which max_drawdown is lost
  MaxTs,       \* bound: event times
  MaxEvents,   \* bound: market events
  MaxRefits,   \* bound: refits
  MaxFailures  \* bound: calibrations that fail

(* The simulators of a session; None is none of them.                        *)
FillRecords == [ts : Nat, taker : Takers, maker : BOOLEAN, lots : Int, qty : Tops \cup {None},
                basis : FeatureStates]
Sims == [qty : Tops \cup {None}, nextDecision : Nat, nextSample : Int \cup {None},
         sampled : BOOLEAN, position : Int, cancelled : Nat \cup {None},
         basis : FeatureStates \cup {None}, fills : Seq(FillRecords)]

ASSUME LiveAssumption ==
  /\ {Warmup, Postponed, Interval, RoundTrip, MaxTs, MaxEvents, MaxRefits, MaxFailures}
       \subseteq Nat
  /\ SampleMs \in Nat \ {0}
  /\ Drawdowns \subseteq Int \X Tops
  /\ None \notin Sims \cup FeatureStates \cup Int

VARIABLES
  feed,        \* the engines: [features, sim], sim = None before start_trading
  status,      \* "warming up", "calibrating", "trading", "closed", "killed"
  warmup,      \* self.warmup_s
  mids,        \* first_event_ms, the last of _mid_ts, and _next_mid
  lastL1,      \* _last_l1
  warmTop,     \* the last of recorded_book when the calibration started
  refits,      \* refits in flight
  failures,    \* calibrations that failed
  log,         \* the lines given to the recorder
  file,        \* the lines read_session gives once the process is gone
  clocks       \* time of the last event of each stream

liveVars == <<feed, status, warmup, mids, lastL1, warmTop, refits, failures, log, file, clocks>>

BookLine(ts, top) == [k |-> "book", ts |-> ts, top |-> top]
TradeLine(ts, taker) == [k |-> "trade", ts |-> ts, taker |-> taker]
CalibrationLine(ts, p, qty) == [k |-> "calibration", ts |-> ts, params |-> p, qty |-> qty]
HawkesLine(ts, p) == [k |-> "hawkes", ts |-> ts, params |-> p]
FillLine(fill) == [k |-> "fill", fill |-> fill]
EndLine(summary) == [k |-> "end", summary |-> summary]

-----------------------------------------------------------------------------
(* The engines.  qty is the size of a quote and the unit of a position and   *)
(* of the lots of a fill, `basis' the features a price is from; cancels of   *)
(* the kill switch have taken effect at ts `cancelled'.                      *)
NewSim(qty) == [qty |-> qty, nextDecision |-> 0, nextSample |-> None, sampled |-> FALSE,
                position |-> 0, cancelled |-> None, basis |-> None, fills |-> <<>>]

(* SimAccount.mark: at max_drawdown the quotes are cancelled and the position *)
(* is closed with a taker order.                                             *)
Mark(sim, ts, f) ==
  IF sim.cancelled # None \/ <<sim.position, f.top>> \notin Drawdowns
  THEN [sim EXCEPT !.sampled = TRUE]
  ELSE LET long == sim.position > 0
           close == [ts |-> ts, taker |-> IF long THEN "sell" ELSE "buy", maker |-> FALSE,
                     lots |-> IF long THEN sim.position ELSE -sim.position,
                     qty |-> sim.qty, basis |-> f]
       IN [sim EXCEPT !.sampled = TRUE, !.cancelled = ts + RoundTrip, !.position = 0,
                      !.fills = IF sim.position = 0 THEN @ ELSE Append(@, close)]

NextSample(ts) == ts - (ts % SampleMs) + SampleMs

Sample(sim, ts, f) ==
  IF sim.nextSample = None THEN [sim EXCEPT !.nextSample = NextSample(ts)]
  ELSE IF ts < sim.nextSample THEN sim
  ELSE [Mark(sim, ts, f) EXCEPT !.nextSample = NextSample(ts)]

Decide(sim, ts, f) ==
  IF ts < sim.nextDecision THEN sim
  ELSE [sim EXCEPT !.nextDecision = ts + Interval,
                   !.basis = IF sim.cancelled = None THEN f ELSE @]

(* MarketSimulator.on_book leaves a crossed book out.                        *)
OnBook(e, ts, top) ==
  LET f == FeedBook(e.features, ts, top) IN
  IF e.sim = None THEN [features |-> f, sim |-> None]
  ELSE IF top \in CrossedTops THEN e
  ELSE [features |-> f, sim |-> Decide(Sample(e.sim, ts, f), ts, f)]

(* The quotes rest from a decision on, until a halt has cancelled them.      *)
Quoting(sim, ts) == sim.basis # None /\ (sim.cancelled = None \/ ts < sim.cancelled)

OnTrade(e, ts, taker) ==
  LET f == FeedTrade(e.features, ts, taker)
      fill == [ts |-> ts, taker |-> taker, maker |-> TRUE, lots |-> 1,
               qty |-> e.sim.qty, basis |-> e.sim.basis]
  IN [features |-> f,
      sim |-> IF e.sim = None \/ ~Ready(f) THEN e.sim
              ELSE IF ~Quoting(e.sim, ts) THEN e.sim
              ELSE [e.sim EXCEPT !.fills = Append(@, fill),
                                 !.position = IF taker = "sell" THEN @ + 1 ELSE @ - 1]]

Fills(e) == IF e.sim = None THEN <<>> ELSE e.sim.fills

(* replay_session, line by line.                                             *)
ReplayLine(e, line) ==
  CASE line.k = "book" -> OnBook(e, line.ts, line.top)
    [] line.k = "trade" -> OnTrade(e, line.ts, line.taker)
    [] line.k = "calibration" /\ e.sim = None ->
         [features |-> SetHawkes(e.features, line.params), sim |-> NewSim(line.qty)]
    [] line.k = "hawkes" /\ e.sim # None ->
         [e EXCEPT !.features = SetHawkes(@, line.params)]
    [] OTHER -> e

NewFeed == [features |-> NewFeatures, sim |-> None]
Replay(lines) ==
  LET after[n \in 0 .. Len(lines)] ==
        IF n = 0 THEN NewFeed ELSE ReplayLine(after[n - 1], lines[n])
  IN after[Len(lines)]

OfKind(lines, k) == Select(lines, {line \in Range(lines) : line.k = k})

-----------------------------------------------------------------------------
Init ==
  /\ feed = NewFeed
  /\ status = "warming up" /\ warmup = Warmup
  /\ mids = [first |-> None, last |-> 0, next |-> 0]
  /\ lastL1 = None /\ warmTop = None
  /\ refits = 0 /\ failures = 0
  /\ log = <<>> /\ file = <<>>
  /\ clocks = [book |-> 0, trade |-> 0]

Running == status \in {"warming up", "calibrating", "trading"}

NewFills(e) == [i \in 1 .. Len(Fills(e)) - Len(Fills(feed)) |->
                  FillLine(Fills(e)[Len(Fills(feed)) + i])]

(* The line of the event, then those of the listener.                        *)
Record(line, e) == log' = Append(log, line) \o NewFills(e)

SampleMid(ts) ==
  mids' = [first |-> IF mids.first = None THEN ts ELSE mids.first,
           last |-> IF ts >= mids.next THEN ts ELSE mids.last,
           next |-> IF ts >= mids.next THEN ts + Interval ELSE mids.next]

(* Mistake: only the log leaves out a top that has not changed.              *)
HandleBookFedAnyway(ts, top) ==
  /\ clocks' = [clocks EXCEPT !.book = ts]
  /\ feed' = OnBook(feed, ts, top)
  /\ IF top = lastL1 THEN UNCHANGED <<lastL1, mids, log>>
     ELSE lastL1' = top /\ SampleMid(ts) /\ Record(BookLine(ts, top), feed')

HandleBook(ts, top) ==
  /\ clocks' = [clocks EXCEPT !.book = ts]
  /\ IF top = lastL1 THEN UNCHANGED <<feed, lastL1, mids, log>>
     ELSE /\ lastL1' = top
          /\ SampleMid(ts)
          /\ feed' = OnBook(feed, ts, top)
          /\ Record(BookLine(ts, top), feed')

Fed == Cardinality({i \in DOMAIN log : log[i].k \in {"book", "trade"}})

BookEvent ==
  /\ Running /\ Fed < MaxEvents
  /\ \E ts \in clocks.book .. MaxTs, top \in Tops : HandleBook(ts, top)
  /\ UNCHANGED <<status, warmup, warmTop, refits, failures, file>>

TradeEvent ==
  /\ Running /\ Fed < MaxEvents
  /\ \E ts \in clocks.trade .. MaxTs, taker \in Takers :
       /\ clocks' = [clocks EXCEPT !.trade = ts]
       /\ feed' = OnTrade(feed, ts, taker)
       /\ Record(TradeLine(ts, taker), feed')
  /\ UNCHANGED <<status, warmup, mids, lastL1, warmTop, refits, failures, file>>

-----------------------------------------------------------------------------
(* maintain: warmup_elapsed_s has reached warmup_s.                          *)
StartCalibration ==
  /\ status = "warming up"
  /\ mids.first # None /\ mids.last - mids.first >= warmup
  /\ status' = "calibrating" /\ warmTop' = lastL1
  /\ UNCHANGED <<feed, warmup, mids, lastL1, refits, failures, log, file, clocks>>

(* start_trading, in the event loop once the thread has ended; the size is   *)
(* from the mid at the start of the calibration.                             *)
StartTrading ==
  /\ status = "calibrating"
  /\ \E p \in Params :
       /\ feed' = [features |-> SetHawkes(feed.features, p), sim |-> NewSim(warmTop)]
       /\ log' = Append(log, CalibrationLine(feed.features.lastTs, p, warmTop))
  /\ status' = "trading"
  /\ UNCHANGED <<warmup, mids, lastL1, warmTop, refits, failures, file, clocks>>

(* calibrate raises in its thread, or build_suite after set_hawkes.          *)
CalibrationFails ==
  /\ status = "calibrating" /\ failures < MaxFailures
  /\ \/ UNCHANGED feed
     \/ \E p \in Params : feed' = [feed EXCEPT !.features = SetHawkes(@, p)]
  /\ status' = "warming up" /\ warmup' = warmup + Postponed
  /\ failures' = failures + 1
  /\ UNCHANGED <<mids, lastL1, warmTop, refits, log, file, clocks>>

(* A refit on too few events ends without a result.  One that takes longer   *)
(* than refit_s overlaps the next.                                           *)
StartRefit ==
  /\ status = "trading" /\ CanFit(feed.features)
  /\ Len(OfKind(log, "hawkes")) + refits < MaxRefits
  /\ refits' = refits + 1
  /\ UNCHANGED <<feed, status, warmup, mids, lastL1, warmTop, failures, log, file, clocks>>

EndRefit ==
  /\ status = "trading" /\ refits > 0
  /\ refits' = refits - 1
  /\ \E p \in Params :
       /\ feed' = [feed EXCEPT !.features = SetHawkes(@, p)]
       /\ log' = Append(log, HawkesLine(feed.features.lastTs, p))
  /\ UNCHANGED <<status, warmup, mids, lastL1, warmTop, failures, file, clocks>>

(* LiveSimRunner.reports: nothing before the first sample, then the maker    *)
(* fills of the account.                                                     *)
MakerFills(fills) == Cardinality({i \in DOMAIN fills : fills[i].maker})

(* Mistake: the summary counts the fill of the kill switch too.              *)
SummaryOfAll(sim) == IF sim = None \/ ~sim.sampled THEN None ELSE Len(sim.fills)

Summary(sim) ==
  IF sim = None THEN None ELSE IF sim.sampled THEN MakerFills(sim.fills) ELSE None

(* cmd_sim: the loop has ended.                                              *)
Close ==
  /\ Running
  /\ status' = "closed"
  /\ log' = Append(log, EndLine(Summary(feed.sim)))
  /\ file' = log'
  /\ UNCHANGED <<feed, warmup, mids, lastL1, warmTop, refits, failures, clocks>>

(* Killed: the file ends somewhere after the last flush, perhaps inside a    *)
(* line; the complete lines are still read.                                  *)
Kill ==
  /\ Running
  /\ status' = "killed"
  /\ \E n \in 0 .. Len(log) : file' = SubSeq(log, 1, n)
  /\ UNCHANGED <<feed, warmup, mids, lastL1, warmTop, refits, failures, log, clocks>>

Next ==
  \/ BookEvent
  \/ TradeEvent
  \/ StartCalibration
  \/ StartTrading
  \/ CalibrationFails
  \/ StartRefit
  \/ EndRefit
  \/ Close
  \/ Kill

Spec == Init /\ [][Next]_liveVars
=============================================================================
