-------------------------------- MODULE Candles -------------------------------
(***************************************************************************)
(* The candle history of AdaptiveTerminalChart (terminal/candles.py): the   *)
(* trades of one bucket of exchange time make one candle, late ones         *)
(* included, and only the newest MaxBuckets buckets are kept.  A history is *)
(* a function from the start of each kept bucket to its candle.             *)
(***************************************************************************)
EXTENDS Integers, Sequences, SequencesExt, Selection

CONSTANTS
  BucketMs,    \* _bucket_ms
  MaxBuckets   \* MAX_BUCKETS (600 in the code)

ASSUME CandlesAssumption == {BucketMs, MaxBuckets} \subseteq Nat \ {0}

BucketOf(ts) == (ts \div BucketMs) * BucketMs

Part(t, taker) == IF t.taker = taker THEN t.qty ELSE 0

NewCandle(t) ==
  [open |-> t.price, high |-> t.price, low |-> t.price, close |-> t.price,
   buy |-> Part(t, "buy"), sell |-> Part(t, "sell"), trades |-> 1,
   first |-> t.ts, last |-> t.ts]

(* Mistake: whatever comes last closes the candle.                           *)
ExtendedByArrival(c, t) ==
  [c EXCEPT !.open = IF t.ts < c.first THEN t.price ELSE @,
            !.high = Max({@, t.price}), !.low = Min({@, t.price}),
            !.close = t.price,
            !.buy = @ + Part(t, "buy"), !.sell = @ + Part(t, "sell"), !.trades = @ + 1,
            !.first = Min({@, t.ts}), !.last = Max({@, t.ts})]

Extended(c, t) ==
  [c EXCEPT !.open = IF t.ts < c.first THEN t.price ELSE @,
            !.high = Max({@, t.price}), !.low = Min({@, t.price}),
            !.close = IF t.ts >= c.last THEN t.price ELSE @,
            !.buy = @ + Part(t, "buy"), !.sell = @ + Part(t, "sell"), !.trades = @ + 1,
            !.first = Min({@, t.ts}), !.last = Max({@, t.ts})]

TooOld(history, b) ==
  /\ b \notin DOMAIN history
  /\ Cardinality(DOMAIN history) >= MaxBuckets /\ b < Min(DOMAIN history)

Trimmed(history) ==
  IF Cardinality(DOMAIN history) <= MaxBuckets THEN history
  ELSE Restrict(history, DOMAIN history \ {Min(DOMAIN history)})

AddTrade(history, t) ==
  LET b == BucketOf(t.ts)
      candle == IF b \in DOMAIN history THEN Extended(history[b], t) ELSE NewCandle(t)
  IN IF TooOld(history, b) THEN history ELSE Trimmed(Over([x \in {b} |-> candle], history))

-----------------------------------------------------------------------------
(* What Candle's docstring (26-32) says of the trades of one bucket, given   *)
(* in the order they arrived: the earliest opens, the latest closes, and     *)
(* between equal times the arrival decides.                                  *)
Added(numbers) == FoldLeft(+, 0, numbers)

CandleOf(ts) ==
  LET times == {ts[i].ts : i \in DOMAIN ts}
      prices == {ts[i].price : i \in DOMAIN ts}
      opens == Min({i \in DOMAIN ts : ts[i].ts = Min(times)})
      closes == Max({i \in DOMAIN ts : ts[i].ts = Max(times)})
      Total(taker) == Added([i \in DOMAIN ts |-> Part(ts[i], taker)])
  IN [open |-> ts[opens].price, high |-> Max(prices), low |-> Min(prices),
      close |-> ts[closes].price, buy |-> Total("buy"), sell |-> Total("sell"),
      trades |-> Len(ts), first |-> Min(times), last |-> Max(times)]

(* The newest MaxBuckets buckets that have a trade, each with all of its.    *)
HistoryOf(ts) ==
  LET buckets == {BucketOf(ts[i].ts) : i \in DOMAIN ts}
      kept == {b \in buckets : Cardinality({c \in buckets : c > b}) < MaxBuckets}
  IN [b \in kept |-> CandleOf(Select(ts, {t \in Range(ts) : BucketOf(t.ts) = b}))]
=============================================================================
