------------------------------ MODULE LiveBacktest -----------------------------
(***************************************************************************)
(* A recorded session as market data for a backtest: Session.market_data    *)
(* (backtest/session.py), MarketData and its split (backtest/data.py), and  *)
(* the merge of the two streams in run_backtest (backtest/engine.py).       *)
(***************************************************************************)
EXTENDS LiveSession

(* load_session: the lines, the last calibration and the end, if any.        *)
LoadSession(lines) ==
  LET LastOf(k) == IF OfKind(lines, k) = <<>> THEN None ELSE Last(OfKind(lines, k))
  IN [events |-> lines, calibration |-> LastOf("calibration"), end |-> LastOf("end")]

(* market_data: two streams, of the whole session or after the calibration.  *)
MarketData(session, tradingOnly) ==
  LET start == IF tradingOnly /\ session.calibration # None THEN session.calibration.ts ELSE -1
      After(stream) == Select(stream, {line \in Range(stream) : line.ts > start})
  IN [book |-> After(OfKind(session.events, "book")),
      trades |-> After(OfKind(session.events, "trade"))]

(* compare_fills, of one account: the first place where the two lists part.  *)
FirstMismatch(recorded, replayed) ==
  LET shorter == IF Len(replayed) < Len(recorded) THEN Len(replayed) ELSE Len(recorded)
      differ == {i \in 1 .. shorter : recorded[i] # replayed[i]}
  IN IF differ # {} THEN CHOOSE i \in differ : \A j \in differ : i <= j
     ELSE IF Len(recorded) # Len(replayed) THEN shorter + 1 ELSE None

Start(d) ==
  IF d.trades # <<>> /\ d.trades[1].ts < d.book[1].ts THEN d.trades[1].ts ELSE d.book[1].ts
End(d) ==
  IF d.trades # <<>> /\ Last(d.trades).ts > Last(d.book).ts
  THEN Last(d.trades).ts ELSE Last(d.book).ts

(* np.searchsorted, on the left.                                             *)
Position(stream, ts) == Cardinality({i \in DOMAIN stream : stream[i].ts < ts})

Slice(d, from, to) ==
  LET Cut(stream) == SubSeq(stream, Position(stream, from) + 1, Position(stream, to))
  IN [book |-> Cut(d.book), trades |-> Cut(d.trades)]

Middle(d) == Start(d) + (End(d) - Start(d)) \div 2

(* Mistake: the millisecond of the cut is in both halves.                    *)
SplitTwice(d) ==
  <<Slice(d, Start(d), Middle(d) + 1), Slice(d, Middle(d), End(d) + 1)>>

Split(d) ==
  <<Slice(d, Start(d), Middle(d)), Slice(d, Middle(d), End(d) + 1)>>

(* The loop of run_backtest, and of events: a trade comes before a book of   *)
(* its millisecond.                                                          *)
TradeIsNext(d, i, j) ==
  /\ j <= Len(d.trades)
  /\ i > Len(d.book) \/ d.trades[j].ts <= d.book[i].ts

Merge(d) ==
  LET Step(m) ==
        IF TradeIsNext(d, m.i, m.j)
        THEN [m EXCEPT !.j = @ + 1, !.out = Append(@, d.trades[m.j])]
        ELSE [m EXCEPT !.i = @ + 1, !.out = Append(@, d.book[m.i])]
      after[n \in 0 .. Len(d.book) + Len(d.trades)] ==
        IF n = 0 THEN [i |-> 1, j |-> 1, out |-> <<>>] ELSE Step(after[n - 1])
  IN after[Len(d.book) + Len(d.trades)].out

-----------------------------------------------------------------------------
(* The module docstring of session.py (3-8): the log alone, replayed with    *)
(* the code of the live session, gives its features, quotes and fills at     *)
(* every moment, whatever calibrations failed and refits overlapped.         *)
ReplayExact == feed.sim # None => Replay(log) = feed

(* recorder.py:60-61 and session.py:6: what is left of a session that was    *)
(* killed replays up to where it was cut: every recorded fill is one of the  *)
(* replay's, in order, and of the live session's; the comparison finds the   *)
(* fills the log has lost and nothing else.  The end line of a closed        *)
(* session, once there is a sample, counts the maker fills of its log, not   *)
(* the one that closes the position at a halt.                               *)
KilledSessionReplays ==
  LET lines == OfKind(file, "fill")
      recorded == [i \in DOMAIN lines |-> lines[i].fill]
      replayed == Fills(Replay(file))
  IN /\ IsPrefix(recorded, replayed) /\ IsPrefix(replayed, Fills(feed))
     /\ FirstMismatch(recorded, replayed) =
          IF recorded = replayed THEN None ELSE Len(recorded) + 1
     /\ status = "closed" =>
          /\ recorded = replayed
          /\ LET sim == Replay(file).sim IN
             Last(file).summary =
               IF sim # None /\ sim.sampled THEN MakerFills(recorded) ELSE None

(* The market orders of a log, per side: a trade that repeats the time and   *)
(* the side of the trade before it is a print of the same order.             *)
MarketOrders(lines) ==
  LET trades == OfKind(lines, "trade")
      First(taker) == {i \in DOMAIN trades :
                         trades[i].taker = taker /\ (i = 1 \/ trades[i - 1] # trades[i])}
      Places(taker) == Select([i \in DOMAIN trades |-> i], First(taker))
  IN [taker \in Takers |-> [n \in DOMAIN Places(taker) |-> trades[Places(taker)[n]].ts]]

(* features.py:69-75: a refit, however late its result, does not lose the    *)
(* market orders that came while it ran, nor count one twice: what is        *)
(* counted are the last market orders of the log, each once and in order.    *)
RefitKeepsExcitation == KeepsExcitation(feed.features, MarketOrders(log))

(* run_backtest (39-45) and split (73-76): the two streams of a session come *)
(* out as one in time order, trades first, nothing lost; the halves of a     *)
(* split hold every event once, none of the second before one of the first.  *)
BacktestOrder ==
  \A tradingOnly \in BOOLEAN :
    LET d == MarketData(LoadSession(file), tradingOnly)
        all == Merge(d)
    IN d.book # <<>> =>
         /\ OfKind(all, "book") = d.book /\ OfKind(all, "trade") = d.trades
         /\ \A i \in 1 .. Len(all) - 1 :
              /\ all[i].ts <= all[i + 1].ts
              /\ all[i].ts = all[i + 1].ts => all[i].k = "trade" \/ all[i + 1].k = "book"
         /\ Merge(Split(d)[1]) \o Merge(Split(d)[2]) = all
=============================================================================
