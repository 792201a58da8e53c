---------------------------- MODULE LimitOrderBook ----------------------------
(***************************************************************************)
(* What a price-time priority book promises its clients, with no data      *)
(* structure in it: a set of resting orders, and at most one incoming      *)
(* order that trades with the best of them until it is done.  The levels,  *)
(* the list nodes and the order index of the C++ book (OrderBook.tla)      *)
(* implement this specification.                                           *)
(***************************************************************************)
EXTENDS Integers, Sequences

CONSTANTS Ids, Prices, Quantities, NoOrder

VARIABLES
  open,      \* the resting orders, each with the rank of its arrival
  taker,     \* the incoming order being executed, or NoOrder
  fills      \* the trades of the last incoming order, in execution order

lobVars == <<open, taker, fills>>

Sides == {"Buy", "Sell"}
TimesInForce == {"GTC", "IOC", "FOK"}

Incoming ==
  [id : Ids, side : Sides, price : Prices, qty_remaining : Quantities,
   tif : TimesInForce]

Reaches(o, price) ==
  IF o.side = "Buy" THEN o.price >= price ELSE o.price <= price

(* a is served before b: the better price first, then the earlier arrival. *)
Before(a, b) ==
  \/ IF a.side = "Buy" THEN a.price > b.price ELSE a.price < b.price
  \/ a.price = b.price /\ a.rank < b.rank

Makers(o) == {m \in open : m.side # o.side /\ Reaches(o, m.price)}

Lesser(a, b) == IF a < b THEN a ELSE b

TradeOf(o, m, q) ==
  [buy_id  |-> IF o.side = "Buy" THEN o.id ELSE m.id,
   sell_id |-> IF o.side = "Buy" THEN m.id ELSE o.id,
   price   |-> m.price, qty |-> q]

-----------------------------------------------------------------------------
LobInit == open = {} /\ taker = NoOrder /\ fills = <<>>

Arrive ==
  /\ taker = NoOrder
  /\ taker' \in Incoming
  /\ fills' = <<>>
  /\ UNCHANGED open

(* A fill-or-kill order that cannot be filled: nothing happens to the book.  *)
Kill == taker = NoOrder /\ fills' = <<>> /\ UNCHANGED <<open, taker>>

Execute ==
  /\ taker # NoOrder
  /\ taker.qty_remaining > 0
  /\ \E m \in Makers(taker) :
       LET q == Lesser(taker.qty_remaining, m.qty_remaining) IN
       /\ \A n \in Makers(taker) \ {m} : Before(m, n)
       /\ taker' = [taker EXCEPT !.qty_remaining = @ - q]
       /\ fills' = Append(fills, TradeOf(taker, m, q))
       /\ open' = (open \ {m}) \cup
                  {x \in {[m EXCEPT !.qty_remaining = @ - q]} : x.qty_remaining > 0}

(* The incoming order has nothing left, or nobody left to trade with: only   *)
(* a GTC order rests, behind everything that rests at its price, and a       *)
(* fill-or-kill order leaves only when it is full.                           *)
Depart ==
  /\ taker # NoOrder
  /\ taker.qty_remaining = 0 \/ Makers(taker) = {}
  /\ taker.tif = "FOK" => taker.qty_remaining = 0
  /\ IF taker.tif = "GTC" /\ taker.qty_remaining > 0
     THEN \E m \in open' :
            /\ open' = open \cup {m}
            /\ \A n \in open : n.rank < m.rank
            /\ m = [id |-> taker.id, side |-> taker.side, price |-> taker.price,
                    qty_remaining |-> taker.qty_remaining, rank |-> m.rank]
     ELSE open' = open
  /\ taker' = NoOrder
  /\ UNCHANGED fills

Withdraw ==
  /\ taker = NoOrder
  /\ \E m \in open : open' = open \ {m}
  /\ UNCHANGED <<taker, fills>>

LobNext == Arrive \/ Kill \/ Execute \/ Depart \/ Withdraw

LobSpec == LobInit /\ [][LobNext]_lobVars
=============================================================================
