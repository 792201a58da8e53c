-------------------------------- MODULE Signals -------------------------------
(***************************************************************************)
(* LiveMarketSignals (terminal/signals.py): the statistics of one session   *)
(* and the features its Hawkes intensities come from, fed by books and by   *)
(* trades that may be late or delivered twice.  What is valid is decided by *)
(* the exchange's formats, except for books, which may be crossed.          *)
(***************************************************************************)
EXTENDS Features

CONSTANTS Capacity   \* dedup_capacity (4096 in the code)

ASSUME SignalsAssumption == Capacity \in Nat \ {0}

NewSignals ==
  [seen |-> {}, order |-> <<>>, book |-> None, bookTime |-> None, lastTrade |-> None,
   volume |-> 0, buyVolume |-> 0, notional |-> 0, count |-> 0,
   features |-> NewFeatures, lastHawkes |-> 0, evaluation |-> 0]

(* on_book: an event without a time, or a crossed book, leaves no book.      *)
ReplaceBook(s, top, ts) ==
  [s EXCEPT !.book = IF ts > 0 /\ top \in Tops \ CrossedTops THEN top ELSE None,
            !.bookTime = IF ts > 0 THEN ts ELSE None]

(* Mistake: the oldest id leaves the queue and not the set.                  *)
RememberForever(s, id) ==
  LET order == Append(s.order, id) IN
  [s EXCEPT !.order = IF Len(order) > Capacity THEN Tail(order) ELSE order,
            !.seen = @ \cup {id}]

Remember(s, id) ==
  LET order == Append(s.order, id)
      full == Len(order) > Capacity
  IN [s EXCEPT !.order = IF full THEN Tail(order) ELSE order,
               !.seen = IF full THEN (@ \cup {id}) \ {Head(order)} ELSE @ \cup {id}]

(* A late trade does not excite the features.                                *)
Excite(s, t) ==
  IF t.ts < s.lastHawkes THEN s
  ELSE [s EXCEPT !.features = FeedTrade(@, t.ts, t.taker), !.lastHawkes = t.ts]

Count(s, t) ==
  [s EXCEPT !.volume = @ + t.qty,
            !.buyVolume = IF t.taker = "buy" THEN @ + t.qty ELSE @,
            !.notional = @ + t.price * t.qty,
            !.count = @ + 1,
            !.lastTrade = IF @ = None \/ t.ts > @ THEN t.ts ELSE @]

(* on_trade.                                                                 *)
Accumulate(s, t) ==
  IF t.id \in s.seen THEN s ELSE Excite(Remember(Count(s, t), t.id), t)

(* snapshot: evaluating moves the time of the evaluation, never back.        *)
Evaluated(s, at) ==
  [s EXCEPT !.evaluation =
     CHOOSE m \in {@, s.lastHawkes, at} : \A n \in {@, s.lastHawkes, at} : m >= n]

(* What a snapshot shows, quotients as pairs.  The intensities are the       *)
(* excitation `heat' decayed to the time `at'.                               *)
Snapshot(s) ==
  LET Per(n) == IF s.volume > 0 THEN <<n, s.volume>> ELSE None IN
  [book |-> s.book, vwap |-> Per(s.notional), volume |-> s.volume,
   buyVolume |-> s.buyVolume, buyFraction |-> Per(s.buyVolume), count |-> s.count,
   at |-> s.evaluation, heat |-> s.features.heat, calibrated |-> s.features.params # Default,
   bookTime |-> s.bookTime, lastTrade |-> s.lastTrade]
=============================================================================
