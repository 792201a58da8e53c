------------------------------ MODULE EngineMirror -----------------------------
(***************************************************************************)
(* EngineMirrorBridge (market_data/engine_mirror.py): each level of the     *)
(* exchange's book is one resting order of the C++ book, which would trade  *)
(* if a level were inserted before the stale ones it crosses are gone.      *)
(***************************************************************************)
EXTENDS Integers, FiniteSets

CONSTANTS
  Prices,     \* the prices of the symbol
  Tick,       \* price_to_ticks
  Qtys,       \* sizes of a level
  LotUnits    \* a lot, in the units of Qtys

Sides == {"bid", "ask"}
Ticks == {Tick[p] : p \in Prices}

(* The symbol's prices lie on the bridge's grid of ticks (a hundredth, as    *)
(* BTCUSDT's do), and no size is half way between two lots.                  *)
ASSUME MirrorAssumption ==
  /\ Prices \subseteq Int /\ IsFiniteSet(Prices)
  /\ Tick \in [Prices -> Int]
  /\ \A p, q \in Prices : p < q => Tick[p] < Tick[q]
  /\ Qtys \subseteq Nat \ {0} /\ LotUnits \in Nat \ {0}

VARIABLE
  mirror      \* [levels: _levels, engine: lots per price of the C++ book,
              \*  trades: trades_generated]

Other(side) == IF side = "bid" THEN "ask" ELSE "bid"

(* lots = max(1, round(qty * lots_per_unit)).                                *)
Lots(qty) ==
  LET rounded == (2 * qty + LotUnits) \div (2 * LotUnits)
  IN IF rounded < 1 THEN 1 ELSE rounded

(* A book: the sizes it holds, 0 where there is no level.  A depth event     *)
(* has -1 where it says nothing.                                             *)
LocalBooks == [Sides -> [Prices -> Qtys \cup {0}]]
LotBooks == [Sides -> [Ticks -> Nat]]

NoLots == [side \in Sides |-> [t \in Ticks |-> 0]]
NewMirror == [levels |-> NoLots, engine |-> NoLots, trades |-> 0]

Without(book, side, gone) ==
  [book EXCEPT ![side] = [t \in Ticks |-> IF t \in gone THEN 0 ELSE @[t]]]

(* _remove, for a set of the levels of a side: cancel by the synthetic id.   *)
Remove(m, side, gone) ==
  [levels |-> Without(m.levels, side, gone), engine |-> Without(m.engine, side, gone),
   trades |-> m.trades]

(* Mistake: a level at the very price is left.                               *)
CrossesStrictly(side, px, t) == IF side = "bid" THEN t < px ELSE t > px

(* _clear_crossed's test, the one by which the C++ book would trade.         *)
CrossesLevel(side, px, t) == IF side = "bid" THEN t <= px ELSE t >= px

Stale(side, px, t) == CrossesLevel(side, px, t)

(* The inserts of one side, `lots' at each of its ticks: first the crossed   *)
(* levels of the other side go.  A level still crossed would trade.          *)
InsertSide(m, side, lots) ==
  LET new == {t \in Ticks : lots[t] > 0}
      stale == {t \in Ticks : m.levels[Other(side)][t] > 0 /\ \E px \in new : Stale(side, px, t)}
      cleared == Remove(m, Other(side), stale)
      hit == {t \in Ticks : /\ cleared.engine[Other(side)][t] > 0
                            /\ \E px \in new : CrossesLevel(side, px, t)}
      Put(b) == [b EXCEPT ![side] = [t \in Ticks |-> IF t \in new THEN lots[t] ELSE @[t]]]
  IN [levels |-> Put(cleared.levels),
      engine |-> Put(Without(cleared.engine, Other(side), hit)),
      trades |-> m.trades + Cardinality(hit)]

TicksOf(e, side) == {Tick[p] : p \in {q \in Prices : e[side][q] # -1}}

LotsOf(e, side) ==
  [t \in Ticks |-> LET p == CHOOSE q \in Prices : Tick[q] = t IN
                   IF e[side][p] > 0 THEN Lots(e[side][p]) ELSE 0]

(* _apply: every existing level the event names goes first, of both sides,   *)
(* then the new ones come, bids before asks.                                 *)
ApplyToMirror(m, e) ==
  LET bidsGone == Remove(m, "bid", TicksOf(e, "bid"))
      gone == Remove(bidsGone, "ask", TicksOf(e, "ask"))
  IN InsertSide(InsertSide(gone, "bid", LotsOf(e, "bid")), "ask", LotsOf(e, "ask"))

(* load_snapshot: a new C++ book; the trade count is kept.                   *)
LoadSnapshot(m, book) == ApplyToMirror([NewMirror EXCEPT !.trades = m.trades], book)

Mirrors == [levels : LotBooks, engine : LotBooks, trades : Nat]

LotsOfBook(book) == [side \in Sides |-> LotsOf(book, side)]
=============================================================================
