-------------------------------- MODULE Terminal ------------------------------
(***************************************************************************)
(* The live terminal (terminal/dashboard.py): LiveDashboard feeds the       *)
(* trades and books of the collector to the session's signals, the chart    *)
(* and the tape, on a clock anchored at the exchange's times, and refits    *)
(* the Hawkes parameters in a worker thread.  The panels are left out, but  *)
(* for the chart (Drawing).                                                 *)
(***************************************************************************)
EXTENDS Signals, Drawing

CONSTANTS
  Own,           \* self.symbol
  Trades,        \* trades the feed delivers, late ones among them
  BookTimes,     \* values of a depth event's "E", 0 when it has none
  TapeLength,    \* maxlen of recent_trades (20 in the code)
  Sizes,         \* charts: the buckets they have room for, and their rows in all
  LabelLengths,  \* cells of a label of the time axis
  Sketches,      \* charts of other markets, drawn beside those of the session
  MaxDeliveries, \* bound: deliveries of trades
  MaxUpdates,    \* bound: book updates
  MaxRefits,     \* bound: refits
  MaxNow         \* bound: the monotonic clock

ASSUME TerminalAssumption ==
  /\ \A t \in Trades : /\ t.ts \in Nat \ {0} /\ {t.price, t.qty} \subseteq Nat \ {0}
                       /\ t.taker \in Takers
  /\ LabelLengths \subseteq Nat \ {0} /\ Sizes \subseteq (Nat \ {0}) \X (Nat \ 0 .. 7)
  /\ \A h \in Sketches : IsChart(h)
  /\ BookTimes \subseteq Nat /\ TapeLength \in Nat \ {0}
  /\ {MaxDeliveries, MaxUpdates, MaxRefits, MaxNow} \subseteq Nat

VARIABLES
  now,        \* time.monotonic(), in the exchange's unit
  signals,    \* self.signals
  history,    \* self.chart._candles
  processed,  \* trades_processed
  tape,       \* recent_trades
  updates,    \* [count, at]: depth_events and _book_received
  clock,      \* [anchor, at]: _exchange_anchor and _exchange_received
  latest,     \* [ts, at]: _latest_trade_time and _trade_received
  refitting,  \* a refit is in flight
  refits,     \* refits started
  closed,     \* run() has left its loop
  delivered   \* ghost: every delivery of a trade of this symbol

terminalVars == <<now, signals, history, processed, tape, updates, clock, latest, refitting,
                  refits, closed, delivered>>

Init ==
  /\ now = 0
  /\ signals = NewSignals /\ history = <<>>
  /\ processed = 0 /\ tape = <<>> /\ updates = [count |-> 0, at |-> None]
  /\ clock = [anchor |-> None, at |-> None]
  /\ latest = [ts |-> 0, at |-> None]
  /\ refitting = FALSE /\ refits = 0 /\ closed = FALSE
  /\ delivered = <<>>

(* _exchange_now_ms.                                                         *)
ExchangeNow == IF clock.anchor = None THEN 1 ELSE clock.anchor + (now - clock.at)

AdvanceClock(ts) ==
  clock' = IF ts > 0 /\ (clock.anchor = None \/ ts >= clock.anchor)
           THEN [anchor |-> ts, at |-> now] ELSE clock

(* _on_book_update.                                                          *)
BookUpdate ==
  /\ ~closed /\ updates.count < MaxUpdates
  /\ updates' = [count |-> updates.count + 1, at |-> now]
  /\ \E top \in Tops, ts \in BookTimes :
       signals' = ReplaceBook(signals, top, ts) /\ AdvanceClock(ts)
  /\ UNCHANGED <<now, history, processed, tape, latest, refitting, refits, closed, delivered>>

(* A deque with maxlen.                                                      *)
Taped(t) == IF Len(tape) < TapeLength THEN Append(tape, t) ELSE Append(Tail(tape), t)

(* _on_trade, of this symbol; the count of the signals tells whether they    *)
(* have accepted the trade.                                                  *)
OnTrade(t) ==
  /\ signals' = Evaluated(Accumulate(signals, t), ExchangeNow)
  /\ IF Snapshot(signals').count = processed
     THEN UNCHANGED <<history, processed, latest, clock, tape>>
     ELSE /\ history' = AddTrade(history, t)
          /\ processed' = Snapshot(signals').count
          /\ latest' = IF t.ts >= latest.ts THEN [ts |-> t.ts, at |-> now] ELSE latest
          /\ AdvanceClock(t.ts)
          /\ tape' = Taped(t)

TradeDelivered ==
  /\ ~closed /\ Len(delivered) < MaxDeliveries
  /\ \E t \in Trades :
       IF t.symbol # Own
       THEN UNCHANGED <<signals, history, processed, latest, clock, tape, delivered>>
       ELSE OnTrade(t) /\ delivered' = Append(delivered, t)
  /\ UNCHANGED <<now, updates, refitting, refits, closed>>

(* generate_layout evaluates the signals.                                    *)
Render ==
  /\ ~closed
  /\ signals' = Evaluated(signals, ExchangeNow)
  /\ UNCHANGED <<now, history, processed, tape, updates, clock, latest, refitting, refits,
                 closed, delivered>>

StartRefit ==
  /\ ~closed /\ ~refitting /\ refits < MaxRefits
  /\ refitting' = TRUE /\ refits' = refits + 1
  /\ UNCHANGED <<now, signals, history, processed, tape, updates, clock, latest, closed, delivered>>

(* Without enough market orders at its start a refit has no result; they are *)
(* never fewer later, but for the length of the history.                     *)
EndRefit ==
  /\ ~closed /\ refitting
  /\ refitting' = FALSE
  /\ \/ UNCHANGED signals
     \/ /\ CanFit(signals.features)
        /\ \E p \in Params : signals' = [signals EXCEPT !.features = SetHawkes(@, p)]
  /\ UNCHANGED <<now, history, processed, tape, updates, clock, latest, refits, closed, delivered>>

(* Ctrl+C, or the feed has ended: what is in flight is cancelled.            *)
Quit ==
  /\ ~closed /\ closed' = TRUE /\ refitting' = FALSE
  /\ UNCHANGED <<now, signals, history, processed, tape, updates, clock, latest, refits, delivered>>

TimePasses ==
  /\ ~closed /\ now < MaxNow /\ now' = now + 1
  /\ UNCHANGED <<signals, history, processed, tape, updates, clock, latest, refitting, refits,
                 closed, delivered>>

Next ==
  \/ BookUpdate
  \/ TradeDelivered
  \/ Render
  \/ StartRefit
  \/ EndRefit
  \/ Quit
  \/ TimePasses

Spec == Init /\ [][Next]_terminalVars

-----------------------------------------------------------------------------
(* Signals' docstring (122-126): a delivery counts unless its id is one of   *)
(* the last Capacity that counted.                                           *)
Accepted ==
  LET Accept(acc, t) ==
        IF \E i \in DOMAIN acc : i > Len(acc) - Capacity /\ acc[i].id = t.id
        THEN acc ELSE Append(acc, t)
  IN FoldLeft(Accept, <<>>, delivered)

Newest(seq, n) == SubSeq(seq, Max({1, Len(seq) - n + 1}), Len(seq))

(* The market orders of a side among trades: prints that are not late, and   *)
(* those of one millisecond and side in a row are one order.                 *)
MarketOrders(ts, taker) ==
  LET Timely(i) == \A j \in 1 .. i - 1 : ts[j].ts <= ts[i].ts
      Key(i) == <<ts[i].ts, ts[i].taker>>
      Opens(i) == LET before == {j \in 1 .. i - 1 : Timely(j)} IN
                  Timely(i) /\ (before = {} \/ Key(Max(before)) # Key(i))
      orders == Select([i \in DOMAIN ts |-> i],
                       {i \in DOMAIN ts : Opens(i) /\ ts[i].taker = taker})
  IN [n \in DOMAIN orders |-> ts[orders[n]].ts]

(* dashboard.py:127-140: candles, tape and statistics tell of the same       *)
(* trades, each once, however they were delivered; a late one changes the    *)
(* totals and not the intensities, no refit forgets a market order, and no   *)
(* intensity is evaluated at a time before one of its orders.                *)
SessionExact ==
  LET Total(F(_)) == Added([i \in DOMAIN Accepted |-> F(Accepted[i])])
      view == Snapshot(signals)
      volume == Total(LAMBDA t : t.qty)
  IN /\ processed = Len(Accepted) /\ view.count = processed
     /\ tape = Newest(Accepted, TapeLength)
     /\ view.volume = volume /\ view.buyVolume = Total(LAMBDA t : Part(t, "buy"))
     /\ IF Accepted = <<>> THEN view.vwap = None /\ view.lastTrade = None
        ELSE /\ view.vwap = <<Total(LAMBDA t : t.price * t.qty), volume>>
             /\ view.lastTrade = Max({Accepted[i].ts : i \in DOMAIN Accepted})
     /\ \A taker \in Takers :
          LET orders == MarketOrders(Accepted, taker) IN
          /\ signals.features.events[taker] = Newest(orders, History)
          /\ IsSuffixOf(Newest(orders, History), view.heat[taker])
          /\ \A i \in DOMAIN view.heat[taker] : view.heat[taker][i] <= view.at

(* candles.py:133-136: the chart holds the newest buckets, each with all of  *)
(* its trades, whatever the order they came in and buckets were dropped.     *)
ChartExact == history = HistoryOf(Accepted)

(* candles.py:258-475: the picture says what the history says.  The half     *)
(* rows of a body are those between open and close, nothing of a candle is   *)
(* painted over by another; the line joins adjacent buckets only, without a  *)
(* hole and never more than half a dot off; of two rows the upper is never   *)
(* labelled with the lower price; every bucket has a bar, none is taller     *)
(* than that of a larger volume; no two labels of the time axis touch, and   *)
(* the newest bucket has one.                                                *)
BodiesExact(h, columns, rows) ==
  LET picture == CandlePicture(h, columns, rows)
      scale == CandleScale(h, columns)
      Rows(x, glyph) == {r \in 0 .. rows - 1 : picture[<<r, x>>] \in {"full", glyph}}
      Halves(x) == {2 * r : r \in Rows(x, "upper")} \cup {2 * r + 1 : r \in Rows(x, "lower")}
      At(price) == Position(scale, price, rows * 2)
  IN /\ DOMAIN picture = (0 .. rows - 1) \X (0 .. columns * 3 - 1)
     /\ \A b \in Visible(h, columns) :
          LET c == h[b]
              x == ColumnOf(h, columns, 3, b)
              body == At(Max({c.open, c.close})) .. At(Min({c.open, c.close}))
          IN /\ Halves(x) \in {{}, body} /\ Halves(x + 1) = Halves(x)
             /\ Halves(x) = {} => \E r \in 0 .. rows - 1 : picture[<<r, x>>] = "thin"
             /\ \A r \in 0 .. rows - 1 :
                  /\ picture[<<r, x + 2>>] \in Background
                  /\ picture[<<r, x + 1>>] \notin Background
                       <=> r \in At(c.high) \div 2 .. At(c.low) \div 2

LineExact(h, columns, scale, rows) ==
  \A b \in Visible(h, columns) :
    LET At(c) == DotOf(h, columns, scale, rows, c)
        dots == Dots(h, columns, scale, rows, b)
        to == At(b)
        from == IF b - BucketMs \in Visible(h, columns) THEN At(b - BucketMs) ELSE to
        dx == to[1] - from[1]
        dy == to[2] - from[2]
        long == Max({Abs(dx), Abs(dy)})
    IN /\ {from, to} \subseteq dots /\ Cardinality(dots) = long + 1
       /\ dots \subseteq (0 .. columns * 4 - 1) \X (0 .. rows * 4 - 1)
       /\ \A d \in dots : 2 * Abs((d[2] - from[2]) * dx - (d[1] - from[1]) * dy) <= long

PricesFall(labels) ==
  \A r, s \in DOMAIN labels : r < s => labels[r] > labels[s]

BarsExact(h, columns, stride, rows) ==
  LET picture == VolumePicture(h, columns, stride, rows)
      At(b) == ColumnOf(h, columns, stride, b)
      Height(x) == FoldFunction(+, 0, [r \in 0 .. rows - 1 |-> picture[<<r, x>>][1]])
  IN \A b \in Visible(h, columns) :
       /\ Height(At(b)) > 0 /\ Height(At(b) + 1) = Height(At(b))
       /\ \A r \in 1 .. rows - 1 :
            picture[<<r - 1, At(b)>>][1] > 0 => picture[<<r, At(b)>>][1] = 8
       /\ \A c \in Visible(h, columns) :
            Volume(h[b]) <= Volume(h[c]) => Height(At(b)) <= Height(At(c))
       /\ Volume(h[b]) = Max({Volume(h[c]) : c \in Visible(h, columns)})
            => Height(At(b)) = rows * 8

AxisReadable(h, columns, stride, length) ==
  LET starts == TimeAxis(h, columns, stride, length)
      width == columns * stride
  IN /\ \A s, r \in starts : s # r => Abs(s - r) > length
     /\ starts \subseteq 0 .. width - 1 /\ \A s \in starts : s + length <= width
     /\ length <= width => LabelStart(width - stride, length, width) \in starts

PictureExact ==
  \A h \in IF history = <<>> THEN Sketches ELSE {history}, size \in Sizes :
    LET columns == size[1]
        rows == PriceRows(size[2])
        scale == LineScale(h, columns)
    IN /\ BodiesExact(h, columns, rows) /\ LineExact(h, columns, scale, rows)
       /\ PricesFall(PriceAxis(CandleScale(h, columns), LastClose(h), rows, 2))
       /\ PricesFall(PriceAxis(scale, LastClose(h), rows, 4))
       /\ \A stride \in {2, 3} :
            /\ BarsExact(h, columns, stride, VolumeRows(size[2]))
            /\ \A length \in LabelLengths : AxisReadable(h, columns, stride, length)
=============================================================================
