------------------------------- MODULE OrderBook -------------------------------
(***************************************************************************)
(* The C++ limit order book (backend/cpp/src/order_book.cpp and the        *)
(* headers it includes): two price maps of FIFO levels, and an index from  *)
(* order id to the list node of the resting order.  A call is atomic for   *)
(* its caller; add_limit_order is cut at the iterations of its matching    *)
(* loop, so that `aggressor' is the order in flight.                       *)
(***************************************************************************)
EXTENDS Integers, Sequences, SequencesExt

CONSTANTS
  Ids,         \* order ids (OrderId)
  Prices,      \* ticks (Price)
  Quantities,  \* lots of one order (Quantity)
  Width,       \* Quantity wraps at Width (2^64 in the code)
  MaxNodes,    \* bound: list nodes allocated in a behaviour
  NoOrder      \* no call in flight

Sides == {"Buy", "Sell"}
TimesInForce == {"GTC", "IOC", "FOK"}

Orders ==
  [id : Ids, side : Sides, price : Prices, qty_remaining : Nat,
   tif : TimesInForce]

(* A list node: `it' stands for the std::list iterator.                    *)
Nodes == [id : Ids, qty_remaining : Nat, it : Nat]
Levels == [orders_ : Seq(Nodes), total_qty_ : 0 .. Width - 1]
Locations == [price : Prices, side : Sides, it : Nat]
Trades == [buy_id : Ids, sell_id : Ids, price : Prices, qty : Nat]

ASSUME BookAssumption ==
  /\ Prices \subseteq Nat \ {0}
  /\ Width \in Nat \ {0}
  /\ Quantities \subseteq 1 .. Width - 1
  /\ MaxNodes \in Nat
  /\ NoOrder \notin Orders

VARIABLES
  levels,        \* bids_ and asks_: per side, price -> PriceLevel
  order_index_,  \* id -> Location
  aggressor,     \* the order add_limit_order is matching, or NoOrder
  trades,        \* what the current or last add_limit_order returns
  nodes,         \* list nodes allocated so far (names the next iterator)
  reused         \* ghost: ids that rested while already resting

bookVars == <<levels, order_index_, aggressor, trades, nodes, reused>>

Opposite(side) == IF side = "Buy" THEN "Sell" ELSE "Buy"

(* The order of the std::map of a side: the price begin() gives first.     *)
Better(side, p, q) == IF side = "Buy" THEN p > q ELSE p < q

IsBest(side, p) ==
  /\ p \in DOMAIN levels[side]
  /\ \A q \in DOMAIN levels[side] \ {p} : Better(side, p, q)

(* Mistake: an equal price does not trade.                                   *)
CrossesStrictly(o, p) == IF o.side = "Buy" THEN o.price > p ELSE o.price < p

Crosses(o, p) == IF o.side = "Buy" THEN o.price >= p ELSE o.price <= p

Crossing(o) == {p \in DOMAIN levels[Opposite(o.side)] : Crosses(o, p)}

(* Mistake: the whole passive order is taken, whatever the aggressor needs.  *)
SecondOf(a, b) == b

Smaller(a, b) == IF a < b THEN a ELSE b

-----------------------------------------------------------------------------
(* PriceLevel.                                                             *)
NewLevel == [orders_ |-> <<>>, total_qty_ |-> 0]

(* Mistake: push_front.                                                      *)
AddToFront(level, node) ==
  [orders_    |-> <<node>> \o level.orders_,
   total_qty_ |-> (level.total_qty_ + node.qty_remaining) % Width]

AddTo(level, node) ==
  [orders_    |-> Append(level.orders_, node),
   total_qty_ |-> (level.total_qty_ + node.qty_remaining) % Width]

ReduceFront(level, filled) ==
  LET o == Head(level.orders_) IN
  [orders_    |-> IF o.qty_remaining = filled
                  THEN Tail(level.orders_)
                  ELSE [level.orders_ EXCEPT ![1].qty_remaining = @ - filled],
   total_qty_ |-> (level.total_qty_ - filled) % Width]

(* Mistake: a cancel leaves the cached total alone.                          *)
EraseFromQueueOnly(level, it) ==
  LET k == CHOOSE i \in DOMAIN level.orders_ : level.orders_[i].it = it
  IN [level EXCEPT !.orders_ = RemoveAt(@, k)]

EraseFrom(level, it) ==
  LET k == CHOOSE i \in DOMAIN level.orders_ : level.orders_[i].it = it IN
  [orders_    |-> RemoveAt(level.orders_, k),
   total_qty_ |-> (level.total_qty_ - level.orders_[k].qty_remaining) % Width]

(* The side's map with this level written back, or erased when it is empty. *)
PutLevel(map, p, level) ==
  IF level.orders_ = <<>>
  THEN [q \in DOMAIN map \ {p} |-> map[q]]
  ELSE [q \in DOMAIN map \cup {p} |-> IF q = p THEN level ELSE map[q]]

(* Mistake: a filled or cancelled order stays in the index.                  *)
WithId(id) == order_index_

WithoutId(id) == [x \in DOMAIN order_index_ \ {id} |-> order_index_[x]]

(* Mistake: a partial fill erases the index entry too.                       *)
IndexAfterAnyFill(passive, fill) == WithoutId(passive.id)

IndexAfterFill(passive, fill) ==
  IF fill = passive.qty_remaining THEN WithoutId(passive.id) ELSE order_index_

(* The price of these that the walk from begin() reaches last.               *)
Worst(side, prices) == CHOOSE p \in prices : \A q \in prices \ {p} : Better(side, q, p)

(* What the levels at these prices of the opposite side offer, from the best *)
(* one on, until they cover the order; the sum can wrap.                     *)
Offered(o, prices) ==
  LET side == Opposite(o.side)
      Take(p, available) ==
        IF available >= o.qty_remaining THEN available
        ELSE (available + levels[side][p].total_qty_) % Width
  IN MapThenFoldSet(Take, 0, LAMBDA p : p, LAMBDA set : Worst(side, set), prices)

(* Mistake: liquidity beyond the limit price counts.                         *)
FillableAtAnyPrice(o) == Offered(o, DOMAIN levels[Opposite(o.side)])

FillableQty(o) == Offered(o, Crossing(o))

-----------------------------------------------------------------------------
Init ==
  /\ levels = [side \in Sides |-> <<>>]
  /\ order_index_ = <<>>
  /\ aggressor = NoOrder
  /\ trades = <<>>
  /\ nodes = 0
  /\ reused = {}

(* add_limit_order: the FOK pre-check refuses the order, nothing executes.   *)
KillFok(o) ==
  /\ aggressor = NoOrder
  /\ o.tif = "FOK" /\ FillableQty(o) < o.qty_remaining
  /\ trades' = <<>>
  /\ UNCHANGED <<levels, order_index_, aggressor, nodes, reused>>

(* add_limit_order: the order enters the matching loop.                      *)
AddLimitOrder(o) ==
  /\ aggressor = NoOrder
  /\ o.tif = "FOK" => FillableQty(o) >= o.qty_remaining
  /\ o.tif = "GTC" => nodes < MaxNodes
  /\ aggressor' = o
  /\ trades' = <<>>
  /\ UNCHANGED <<levels, order_index_, nodes, reused>>

(* One iteration of match: the front order of the best opposite level, at    *)
(* its price; a filled order leaves the index and an empty level the map.    *)
Match ==
  /\ aggressor # NoOrder
  /\ aggressor.qty_remaining > 0
  /\ \E p \in Crossing(aggressor) :
       LET side    == Opposite(aggressor.side)
           level   == levels[side][p]
           passive == Head(level.orders_)
           fill    == Smaller(aggressor.qty_remaining, passive.qty_remaining)
           buy     == aggressor.side = "Buy"
       IN
       /\ IsBest(side, p)
       /\ trades' = Append(trades,
            [buy_id  |-> IF buy THEN aggressor.id ELSE passive.id,
             sell_id |-> IF buy THEN passive.id ELSE aggressor.id,
             price   |-> p, qty |-> fill])
       /\ aggressor' = [aggressor EXCEPT !.qty_remaining = @ - fill]
       /\ levels' = [levels EXCEPT ![side] = PutLevel(@, p, ReduceFront(level, fill))]
       /\ order_index_' = IndexAfterFill(passive, fill)
  /\ UNCHANGED <<nodes, reused>>

MatchingOver == aggressor.qty_remaining = 0 \/ Crossing(aggressor) = {}

(* The loop has ended and the remainder, if any, is dropped (IOC, FOK).      *)
Finish ==
  /\ aggressor # NoOrder
  /\ MatchingOver
  /\ aggressor.tif # "GTC" \/ aggressor.qty_remaining = 0
  /\ aggressor' = NoOrder
  /\ UNCHANGED <<levels, order_index_, trades, nodes, reused>>

RestingIds ==
  {id \in Ids : \E side \in Sides : \E p \in DOMAIN levels[side] :
     \E i \in DOMAIN levels[side][p].orders_ : levels[side][p].orders_[i].id = id}

(* rest_order: the remainder joins the back of its level; the index entry of *)
(* this id, if there is one, is overwritten.                                 *)
RestOrder ==
  /\ aggressor # NoOrder
  /\ MatchingOver
  /\ aggressor.tif = "GTC" /\ aggressor.qty_remaining > 0
  /\ LET o     == aggressor
         map   == levels[o.side]
         level == IF o.price \in DOMAIN map THEN map[o.price] ELSE NewLevel
         node  == [id |-> o.id, qty_remaining |-> o.qty_remaining, it |-> nodes + 1]
         loc   == [price |-> o.price, side |-> o.side, it |-> nodes + 1]
     IN
     /\ levels' = [levels EXCEPT ![o.side] = PutLevel(@, o.price, AddTo(level, node))]
     /\ order_index_' = [x \in DOMAIN order_index_ \cup {o.id} |->
                           IF x = o.id THEN loc ELSE order_index_[x]]
     /\ reused' = IF o.id \in RestingIds THEN reused \cup {o.id} ELSE reused
  /\ nodes' = nodes + 1
  /\ aggressor' = NoOrder
  /\ UNCHANGED trades

(* cancel(id) that returns true.  An id that is not in the index returns     *)
(* false and changes nothing.                                                *)
Cancel(id) ==
  /\ aggressor = NoOrder
  /\ id \in DOMAIN order_index_
  /\ LET loc   == order_index_[id]
         level == EraseFrom(levels[loc.side][loc.price], loc.it)
     IN levels' = [levels EXCEPT ![loc.side] = PutLevel(@, loc.price, level)]
  /\ order_index_' = WithoutId(id)
  /\ UNCHANGED <<aggressor, trades, nodes, reused>>

Next ==
  \/ \E o \in [id : Ids, side : Sides, price : Prices,
               qty_remaining : Quantities, tif : TimesInForce] :
       KillFok(o) \/ AddLimitOrder(o)
  \/ Match
  \/ Finish
  \/ RestOrder
  \/ \E id \in Ids : Cancel(id)

Spec == Init /\ [][Next]_bookVars

-----------------------------------------------------------------------------
TypeOK ==
  /\ DOMAIN levels = Sides
  /\ \A side \in Sides :
       /\ DOMAIN levels[side] \subseteq Prices
       /\ \A p \in DOMAIN levels[side] : levels[side][p] \in Levels
  /\ DOMAIN order_index_ \subseteq Ids
  /\ \A id \in DOMAIN order_index_ : order_index_[id] \in Locations
  /\ aggressor \in Orders \cup {NoOrder}
  /\ trades \in Seq(Trades)
  /\ nodes \in Nat
  /\ reused \subseteq Ids

(* The book is never crossed or locked, not even between two trades of a     *)
(* sweep: match (order_book.cpp:12-42) leaves nothing an incoming order      *)
(* reaches before rest_order adds the remainder.                             *)
NeverCrossed ==
  \A bid \in DOMAIN levels["Buy"], ask \in DOMAIN levels["Sell"] : bid < ask

(* No level is empty, no resting order is filled, and a queue is in the      *)
(* order in which its nodes were allocated: PriceLevel::add and erase keep   *)
(* time priority inside a level.                                             *)
QueuesInOrder ==
  \A side \in Sides : \A p \in DOMAIN levels[side] :
    LET queue == levels[side][p].orders_ IN
    /\ queue # <<>>
    /\ \A i \in DOMAIN queue :
         /\ queue[i].qty_remaining > 0
         /\ queue[i].it <= nodes
         /\ \A j \in DOMAIN queue : i < j => queue[i].it < queue[j].it

(* Every iterator kept in order_index_ points at a live node of that id, in  *)
(* the level it names: cancel (order_book.cpp:85-99) never dereferences an   *)
(* erased list node, whatever ids the clients reuse.                         *)
IndexSound ==
  \A id \in DOMAIN order_index_ :
    LET loc == order_index_[id] IN
    /\ loc.price \in DOMAIN levels[loc.side]
    /\ \E i \in DOMAIN levels[loc.side][loc.price].orders_ :
         LET node == levels[loc.side][loc.price].orders_[i] IN
         node.it = loc.it /\ node.id = id

(* An order whose id was not resting when it rested stays cancellable, at    *)
(* its own node, until it is filled or cancelled: the fills of match and the *)
(* other orders' cancels never lose its index entry.                         *)
UniqueOrdersCancellable ==
  \A side \in Sides : \A p \in DOMAIN levels[side] :
    \A i \in DOMAIN levels[side][p].orders_ :
      LET node == levels[side][p].orders_[i] IN
      node.id \notin reused =>
        /\ node.id \in DOMAIN order_index_
        /\ order_index_[node.id] = [price |-> p, side |-> side, it |-> node.it]

(* The cached total of a level is the sum of its queue, wrapped like the     *)
(* code's unsigned arithmetic (price_level.hpp:16-40).                       *)
CachedTotals ==
  \A side \in Sides : \A p \in DOMAIN levels[side] :
    levels[side][p].total_qty_ =
      FoldLeft(LAMBDA sum, o : sum + o.qty_remaining, 0, levels[side][p].orders_)
        % Width

(* A fill-or-kill order that starts to trade ends with nothing left: the     *)
(* pre-check of order_book.cpp:61-65 is never optimistic, even when          *)
(* fillable_qty or a level's total has wrapped.                              *)
FokFillsOrKills ==
  [][aggressor # NoOrder /\ aggressor' = NoOrder /\ aggressor.tif = "FOK"
       => aggressor.qty_remaining = 0]_bookVars

(* Price-time priority: the lists, maps and the index implement the set of   *)
(* resting orders of LimitOrderBook, where every trade is with the best      *)
(* price and, at that price, the earliest arrival, at the maker's price.     *)
Resting ==
  UNION {UNION {{[id |-> o.id, side |-> side, price |-> p,
                  qty_remaining |-> o.qty_remaining, rank |-> o.it] :
                 o \in Range(levels[side][p].orders_)} :
                p \in DOMAIN levels[side]} : side \in Sides}

Lob == INSTANCE LimitOrderBook
         WITH open <- Resting, taker <- aggressor, fills <- trades

PriceTimePriority == Lob!LobSpec
=============================================================================
