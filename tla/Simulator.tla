------------------------------- MODULE Simulator -------------------------------
(***************************************************************************)
(* The paper exchange (lobx/execution/simulator.py): one SimAccount under  *)
(* MarketSimulator.  Accounts share nothing but the market, so one stands  *)
(* for all.  Orders and cancels take a round trip to reach the exchange;   *)
(* the account keeps, per side, the order that represents its quote.       *)
(*                                                                         *)
(* Data left out: cash, fees and the profit they add up to (the drawdown   *)
(* test of `mark' may therefore trip at any sample after a first fill), and *)
(* the real-valued estimate of advance_on_depth_change, which may be any   *)
(* value in the range that function keeps to.                              *)
(***************************************************************************)
EXTENDS Integers, Sequences, SequencesExt, FiniteSetsExt

CONSTANTS
  Prices,            \* the tick grid
  OrderQtys,         \* sizes a strategy quotes
  BookQtys,          \* displayed sizes at the best prices
  TradeQtys,         \* sizes of the market's trades
  RoundTrip,         \* feed_latency_ms + order_latency_ms
  MinRequote,        \* min_requote_ms
  RequoteTicks,      \* requote_ticks
  MaxPosition,       \* max_position
  DecisionInterval,  \* decision_interval_ms
  SampleInterval,    \* sample_ms
  Quoted,            \* the sides the strategy quotes at all
  Optimistic,        \* queue_model = "optimistic"
  MaxTime,           \* bound: time of the last event
  MaxOrders,         \* bound: orders sent in a behaviour
  None

Sides == {"bid", "ask"}
Quotes == [price : Prices, qty : OrderQtys]
Tops == {t \in [bid : Prices, bid_qty : BookQtys, ask : Prices, ask_qty : BookQtys] :
           t.bid < t.ask}
Orders ==
  [side : Sides, price : Prices, qty : OrderQtys, remaining : Nat,
   arrive_at : Nat, cancel_at : Nat \cup {None}, front : Nat \cup {None}]

ASSUME SimulatorAssumption ==
  /\ Prices \subseteq Nat /\ OrderQtys \subseteq Nat \ {0} /\ OrderQtys # {}
  /\ BookQtys \subseteq Nat /\ TradeQtys \subseteq Nat \ {0}
  /\ {RoundTrip, MinRequote, RequoteTicks, DecisionInterval} \subseteq Nat
  /\ {MaxPosition, SampleInterval} \subseteq Nat \ {0}
  /\ Quoted \subseteq Sides /\ Optimistic \in BOOLEAN /\ MaxTime \in Nat /\ MaxOrders \in Nat
  /\ None \notin Nat \cup Quotes \cup Tops

VARIABLES
  account,        \* the SimAccount
  top,            \* FeatureEngine's best bid and ask, None before the first
  now,            \* ghost: time of the last event
  next_decision,  \* _next_decision
  next_sample,    \* _next_sample
  finished        \* finish has run

simVars == <<account, top, now, next_decision, next_sample, finished>>

NewAccount ==
  [orders    |-> <<>>,                        \* oid -> the Order objects in use
   live      |-> {},
   pending   |-> {},
   working   |-> [side \in Sides |-> None],   \* oid of our quote per side
   last_send |-> [side \in Sides |-> None],
   next_oid  |-> 1,
   position  |-> 0,
   traded    |-> FALSE,                       \* ghost: some fill was applied
   halted    |-> FALSE,
   fills     |-> {}]                          \* ghost: orders filled by this event

Open(a) == a.live \cup a.pending

Smaller(x, y) == IF x < y THEN x ELSE y

Larger(x, y) == IF x < y THEN y ELSE x

(* Mistake: the size ahead is not kept from going negative.                  *)
Minus(x, y) == x - y

Monus(x, y) == IF x < y THEN 0 ELSE x - y

(* The objects something still refers to.                                   *)
InUse(a) ==
  LET used == Open(a) \cup {a.working[side] : side \in Sides}
  IN [a EXCEPT !.orders = [oid \in DOMAIN @ \cap used |-> @[oid]]]

-----------------------------------------------------------------------------
(* Fills.                                                                  *)
Signed(side, qty) == IF side = "bid" THEN qty ELSE -qty

(* The fills [oid -> quantity] of one event, all of them passive.           *)
ApplyFills(a, filled) ==
  LET oids == {oid \in DOMAIN filled : filled[oid] > 0}
      Add(sum, oid) == sum + Signed(a.orders[oid].side, filled[oid])
      left == [oid \in DOMAIN a.orders |->
                 IF oid \in oids
                 THEN [a.orders[oid] EXCEPT !.remaining = @ - filled[oid]]
                 ELSE a.orders[oid]]
  IN [a EXCEPT
        !.orders = left,
        !.live = {oid \in @ : left[oid].remaining > 0},
        !.position = FoldLeft(Add, @, SetToSeq(oids)),
        !.traded = @ \/ oids # {},
        !.fills = @ \cup {[arrive_at |-> a.orders[oid].arrive_at,
                           cancel_at |-> a.orders[oid].cancel_at] : oid \in oids}]

(* liquidate: a taker order for the whole position.                         *)
Liquidate(a) == [a EXCEPT !.position = 0]

-----------------------------------------------------------------------------
(* Order life cycle.                                                        *)
(* Mistake: a second cancel starts the clock again.                          *)
CancelledAnew(o, ts) == [o EXCEPT !.cancel_at = ts + RoundTrip]

Cancelled(o, ts) == IF o.cancel_at = None THEN [o EXCEPT !.cancel_at = ts + RoundTrip] ELSE o

CancelSet(a, oids, ts) ==
  [a EXCEPT
     !.orders = [oid \in DOMAIN @ |-> IF oid \in oids THEN Cancelled(@[oid], ts) ELSE @[oid]],
     !.working = [side \in Sides |-> IF @[side] \in oids THEN None ELSE @[side]]]

(* Mistake: orders still on their way to the exchange are forgotten.         *)
CancelLive(a, ts) == CancelSet(a, a.live, ts)

CancelAll(a, ts) == CancelSet(a, Open(a), ts)

SendOrder(a, side, quote, ts) ==
  LET oid == a.next_oid
      o == [side |-> side, price |-> quote.price, qty |-> quote.qty,
            remaining |-> quote.qty, arrive_at |-> ts + RoundTrip,
            cancel_at |-> None, front |-> None]
  IN [a EXCEPT
        !.orders = [x \in DOMAIN @ \cup {oid} |-> IF x = oid THEN o ELSE @[x]],
        !.pending = @ \cup {oid},
        !.working[side] = oid,
        !.last_send[side] = ts,
        !.next_oid = @ + 1]

(* Mistake: the rate limit is one time unit short.                           *)
TooSoonLate(a, side, ts) ==
  a.last_send[side] # None /\ ts - a.last_send[side] < MinRequote - 1

TooSoon(a, side, ts) ==
  a.last_send[side] # None /\ ts - a.last_send[side] < MinRequote

Near(x, y) == x - y < RequoteTicks /\ y - x < RequoteTicks

(* Mistake: the order that is replaced is not cancelled.                     *)
ReplacesWithoutCancel(a, oid, side, quote, ts) == SendOrder(a, side, quote, ts)

Replaces(a, oid, side, quote, ts) ==
  SendOrder(CancelSet(a, {oid}, ts), side, quote, ts)

(* _manage: bring the quote of one side to what the strategy asked for.      *)
Manage(a0, side, quote, ts) ==
  LET filled == a0.working[side] # None /\ a0.orders[a0.working[side]].remaining = 0
      a == IF filled THEN [a0 EXCEPT !.working[side] = None] ELSE a0
      cur == a.working[side]
  IN CASE quote = None -> CancelSet(a, {cur}, ts)
       [] quote # None /\ cur # None
            /\ Near(a.orders[cur].price, quote.price) /\ a.orders[cur].qty = quote.qty -> a
       [] OTHER -> IF TooSoon(a, side, ts) THEN a
                   ELSE Replaces(a, cur, side, quote, ts)

(* decide: a quote that would breach the position limit is dropped.          *)
Decide(a, quotes, ts) ==
  LET bid == IF quotes.bid # None /\ a.position + quotes.bid.qty > MaxPosition
             THEN None ELSE quotes.bid
      ask == IF quotes.ask # None /\ a.position - quotes.ask.qty < -MaxPosition
             THEN None ELSE quotes.ask
  IN IF a.halted THEN a
     ELSE Manage(Manage(a, "bid", bid, ts), "ask", ask, ts)

-----------------------------------------------------------------------------
(* Exchange side.                                                           *)
Best(side, t) == IF side = "bid" THEN t.bid ELSE t.ask
BestQty(side, t) == IF side = "bid" THEN t.bid_qty ELSE t.ask_qty
Ahead(o, t) == IF o.side = "bid" THEN o.price > t.bid ELSE o.price < t.ask

(* Mistake: an order at the opposite best price does not cross.              *)
CrossesThrough(o, t) == IF o.side = "bid" THEN o.price > t.ask ELSE o.price < t.bid

Crosses(o, t) == IF o.side = "bid" THEN o.price >= t.ask ELSE o.price <= t.bid

FrontOnArrival(o, t) ==
  IF Ahead(o, t) THEN 0
  ELSE IF o.price = Best(o.side, t) THEN BestQty(o.side, t) ELSE None

(* Mistake: a cancel takes effect one instant late.                          *)
InForceLonger(o, ts) == o.cancel_at = None \/ o.cancel_at >= ts

InForce(o, ts) == o.cancel_at = None \/ o.cancel_at > ts

(* advance: arrivals, post-only rejects, and cancels that took effect.       *)
Advance(a, ts, t) ==
  LET arrived  == {oid \in a.pending : a.orders[oid].arrive_at <= ts}
      alive    == {oid \in arrived :
                     LET o == a.orders[oid] IN
                     o.cancel_at = None \/ o.cancel_at > o.arrive_at}
      rejected == {oid \in alive : Crosses(a.orders[oid], t)}
      joined   == alive \ rejected
  IN [a EXCEPT
        !.orders = [oid \in DOMAIN @ |->
                      IF oid \in joined
                      THEN [@[oid] EXCEPT !.front = FrontOnArrival(a.orders[oid], t)]
                      ELSE @[oid]],
        !.pending = @ \ arrived,
        !.working = [side \in Sides |-> IF @[side] \in rejected THEN None ELSE @[side]],
        !.live = {oid \in @ \cup joined :
                    /\ a.orders[oid].remaining > 0
                    /\ InForce(a.orders[oid], ts)}]

(* What the size ahead of an order can be after a book update: while its     *)
(* level is the best one, advance_on_depth_change never returns more than    *)
(* the old value or the displayed size.                                      *)
FrontsOnBook(o, t) ==
  IF Optimistic THEN {o.front}
  ELSE IF o.price = Best(o.side, t)
       THEN IF o.front = None THEN {BestQty(o.side, t)}
            ELSE 0 .. Smaller(o.front, BestQty(o.side, t))
       ELSE IF Ahead(o, t) THEN {0} ELSE {o.front}

(* on_book of the account: the orders the market now crosses are filled, the *)
(* others move in their queues.                                              *)
Crossed(a, t) == {oid \in a.live : Crosses(a.orders[oid], t)}

Moves(a, t) ==
  LET resting == a.live \ Crossed(a, t)
      sizes == {0, None} \cup UNION {0 .. qty : qty \in BookQtys}
  IN {fronts \in [resting -> sizes] :
        \A oid \in resting : fronts[oid] \in FrontsOnBook(a.orders[oid], t)}

BookFills(a, t, fronts) ==
  ApplyFills([a EXCEPT !.orders = [oid \in DOMAIN @ |->
                IF oid \in DOMAIN fronts THEN [@[oid] EXCEPT !.front = fronts[oid]]
                ELSE @[oid]]],
             [oid \in Crossed(a, t) |-> a.orders[oid].remaining])

(* on_trade of the account: one trade is shared out over the orders of its   *)
(* side, in the order they were sent.                                        *)
Reached(o, price) == IF o.side = "bid" THEN price < o.price ELSE price > o.price

Share(o, price, avail) ==
  IF Reached(o, price) \/ (price = o.price /\ Optimistic) THEN Smaller(o.remaining, avail)
  ELSE IF price = o.price /\ o.front # None
       THEN Smaller(o.remaining, Monus(avail, o.front))
       ELSE 0

Takers(a, side) == {oid \in a.live : a.orders[oid].side = side}

(* offer[oid] is `avail' when the turn of that order comes.                  *)
IsOffer(a, price, qty, offer) ==
  \A oid \in DOMAIN offer :
    LET earlier == {x \in DOMAIN offer : x < oid} IN
    offer[oid] =
      IF earlier = {} THEN qty
      ELSE LET x == Max(earlier)
           IN offer[x] - Share(a.orders[x], price, offer[x])

TradeFills(a, price, offer) ==
  LET Queued(oid) ==
        /\ oid \in DOMAIN offer /\ ~Optimistic
        /\ a.orders[oid].price = price /\ a.orders[oid].front # None
      queues == [oid \in DOMAIN a.orders |->
                   IF Queued(oid)
                   THEN [a.orders[oid] EXCEPT !.front = Monus(@, offer[oid])]
                   ELSE a.orders[oid]]
  IN ApplyFills([a EXCEPT !.orders = queues],
                [oid \in DOMAIN offer |-> Share(a.orders[oid], price, offer[oid])])

(* mark, when the drawdown limit is breached.                                *)
Kill(a, ts) == Liquidate(CancelAll([a EXCEPT !.halted = TRUE], ts))

-----------------------------------------------------------------------------
(* MarketSimulator.                                                         *)
Init ==
  /\ account = NewAccount
  /\ top = None
  /\ now = 0
  /\ next_decision = 0
  /\ next_sample = None
  /\ finished = FALSE

(* passive_pair: both quotes passive and the bid below the ask.              *)
QuotePairs(t) ==
  {q \in [bid : Quotes \cup {None}, ask : Quotes \cup {None}] :
     /\ q.bid # None => "bid" \in Quoted /\ q.bid.price < t.ask
     /\ q.ask # None => "ask" \in Quoted /\ q.ask.price > t.bid
     /\ q.bid # None /\ q.ask # None => q.bid.price < q.ask.price}

NoQuotes == [bid |-> None, ask |-> None]

SampleAfter(ts) == (ts - (ts % SampleInterval)) + SampleInterval

MayBreach(a) == {b \in BOOLEAN : b => a.traded /\ ~a.halted}

(* on_book.  A book that is crossed or locked is ignored.                    *)
OnBook(ts, t) ==
  LET sampled == next_sample # None /\ ts >= next_sample
      decides == ts >= next_decision
      arrived == Advance([account EXCEPT !.fills = {}], ts, t)
  IN
  /\ ~finished
  /\ \E fronts \in Moves(arrived, t) :
       LET filled == BookFills(arrived, t, fronts) IN
       \E breach \in IF sampled THEN MayBreach(filled) ELSE {FALSE} :
         LET marked == IF breach THEN Kill(filled, ts) ELSE filled IN
         \E quotes \in IF decides /\ ~marked.halted THEN QuotePairs(t) ELSE {NoQuotes} :
           account' = InUse(IF decides THEN Decide(marked, quotes, ts) ELSE marked)
  /\ account'.next_oid <= MaxOrders + 1
  /\ top' = t
  /\ now' = ts
  /\ next_sample' = IF next_sample = None \/ sampled THEN SampleAfter(ts) ELSE next_sample
  /\ next_decision' = IF decides THEN ts + DecisionInterval ELSE next_decision
  /\ UNCHANGED finished

(* on_trade.  Before the first book it does nothing to the account.          *)
OnTrade(ts, price, qty, side) ==
  LET arrived == Advance([account EXCEPT !.fills = {}], ts, top) IN
  /\ ~finished
  /\ top # None
  /\ \E offer \in [Takers(arrived, side) -> 0 .. qty] :
       /\ IsOffer(arrived, price, qty, offer)
       /\ account' = InUse(TradeFills(arrived, price, offer))
  /\ now' = ts
  /\ UNCHANGED <<top, next_decision, next_sample, finished>>

(* finish: every order is dropped at once, then a last flattening and mark.  *)
Finish(flatten) ==
  LET cancelled == CancelAll([account EXCEPT !.fills = {}], now)
      dropped   == [cancelled EXCEPT !.live = {}, !.pending = {}]
      flat      == IF flatten THEN Liquidate(dropped) ELSE dropped
  IN
  /\ ~finished
  /\ \E breach \in MayBreach(flat) :
       account' = InUse(IF breach THEN Kill(flat, now) ELSE flat)
  /\ finished' = TRUE
  /\ UNCHANGED <<top, now, next_decision, next_sample>>

Next ==
  \/ \E ts \in now .. MaxTime, t \in Tops : OnBook(ts, t)
  \/ \E ts \in now .. MaxTime, price \in Prices, qty \in TradeQtys, side \in Sides :
       OnTrade(ts, price, qty, side)
  \/ \E flatten \in BOOLEAN : Finish(flatten)

Spec == Init /\ [][Next]_simVars

-----------------------------------------------------------------------------
TypeOK ==
  /\ DOMAIN account.orders \subseteq 1 .. account.next_oid - 1
  /\ \A oid \in DOMAIN account.orders : account.orders[oid] \in Orders
  /\ Open(account) \subseteq DOMAIN account.orders
  /\ account.live \cap account.pending = {}
  /\ account.working \in [Sides -> DOMAIN account.orders \cup {None}]
  /\ account.last_send \in [Sides -> Nat \cup {None}]
  /\ account.next_oid \in Nat \ {0}
  /\ account.position \in Int
  /\ {account.traded, account.halted, finished} \subseteq BOOLEAN
  /\ top \in Tops \cup {None}
  /\ {now, next_decision} \subseteq Nat
  /\ next_sample \in Nat \cup {None}

(* The account knows its own quotes: an open order that is not being         *)
(* cancelled is the working order of its side, and a working order is such   *)
(* an order or is filled.  So a side never has two quotes of ours out, and   *)
(* no order is left that neither _manage nor a requote would ever cancel,    *)
(* whatever rejects, fills, requotes and cancels came in between             *)
(* (simulator.py:157-198, 219-244).                                          *)
WorkingQuotes ==
  /\ \A oid \in Open(account) :
       LET o == account.orders[oid] IN
       o.cancel_at = None => account.working[o.side] = oid
  /\ \A side \in Sides :
       LET oid == account.working[side] IN
       oid # None =>
         /\ account.orders[oid].side = side
         /\ account.orders[oid].cancel_at = None
         /\ oid \in Open(account) \/ account.orders[oid].remaining = 0

(* The kill switch withdraws everything: once halted, every order that can   *)
(* still trade has a cancel on its way, also the ones that had not reached   *)
(* the exchange yet (simulator.py:166-168, 321-326).                         *)
HaltedWithdraws ==
  account.halted => \A oid \in Open(account) : account.orders[oid].cancel_at # None

(* An order trades only while it is at the exchange: not before it arrives,  *)
(* and not from the moment its cancel takes effect (simulator.py:219-244).      *)
FillsInLife ==
  \A f \in account.fills :
    /\ f.arrive_at <= now
    /\ f.cancel_at = None \/ now < f.cancel_at

(* A replacement never rests beside the order it replaces: at most one of    *)
(* our orders is at the exchange on each side, however requotes, repeated     *)
(* cancels, rejects and the kill switch follow each other (simulator.py:      *)
(* 157-180, 219-244).                                                        *)
OneOrderPerSide ==
  \A x, y \in account.live :
    account.orders[x].side = account.orders[y].side => x = y

(* No order of ours rests at or through the opposite best price the account  *)
(* saw last: post-only rejects it on arrival, and a book that moves onto it  *)
(* fills it (simulator.py:225-232, 252-263).                                 *)
RestsPassively ==
  \A oid \in account.live :
    LET o == account.orders[oid]
    IN IF o.side = "bid" THEN o.price < top.ask ELSE o.price > top.bid

(* The position limit is checked when an order is sent and not again, while  *)
(* cancels in flight can still fill: the rate limit is what keeps the        *)
(* overshoot to one order per requote interval of a round trip, beyond the   *)
(* limit or one order, whichever is larger: the kill switch flattens while   *)
(* one order rests and the others are on their way (simulator.py:194-210,    *)
(* 321-326).                                                                 *)
PositionBounded ==
  LET late == (RoundTrip + MinRequote - 1) \div MinRequote
      bound(qty) == Larger(MaxPosition, qty) + qty * late
  IN MinRequote > 0 =>
       \E qty \in OrderQtys :
         /\ account.position <= bound(qty)
         /\ account.position >= -bound(qty)
=============================================================================
