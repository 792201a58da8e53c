---------------------------- MODULE MatchingEngine ----------------------------
(***************************************************************************)
(* MatchingEngine (backend/cpp/src/matching_engine.cpp): validation,        *)
(* statistics and trade callbacks around the order book.  The callback of a *)
(* trade runs inside record_trades: it may submit and cancel through the    *)
(* same engine, and it may throw, which ends record_trades and submit.      *)
(* `frames' is the stack of record_trades calls, the innermost last.        *)
(***************************************************************************)
EXTENDS OrderBook

CONSTANTS
  MaxCalls,    \* bound: submits and cancels
  MaxDepth     \* bound: record_trades calls inside each other

ASSUME EngineAssumption == {MaxCalls, MaxDepth} \subseteq Nat

VARIABLES
  stats,       \* stats_
  callback,    \* trade_callback_ is set
  frames,      \* each [left, calling]: trades not done, the callback runs for the first
  calls,       \* submits and cancels so far
  lots        \* ghost: lots [taken, withdrawn, untold]

engineVars == <<stats, callback, frames, calls, lots>>

EngineInit ==
  /\ Init
  /\ stats = [accepted |-> 0, rejected |-> 0, cancelled |-> 0, executed |-> 0, volume |-> 0]
  /\ callback = FALSE /\ frames = <<>> /\ calls = 0
  /\ lots = [taken |-> 0, withdrawn |-> 0, untold |-> 0]

SumOf(ts) == FoldLeft(LAMBDA sum, t : sum + t.qty, 0, ts)

(* A client may call: nothing is running, or only a callback.                *)
MayCall ==
  /\ aggressor = NoOrder /\ calls < MaxCalls
  /\ frames # <<>> => Last(frames).calling

Validate(o) == o.qty_remaining # 0 /\ o.price > 0

Reject(o) ==
  /\ MayCall /\ ~Validate(o)
  /\ calls' = calls + 1
  /\ stats' = [stats EXCEPT !.rejected = @ + 1]
  /\ UNCHANGED <<bookVars, callback, frames, lots>>

(* submit up to the matching loop.                                           *)
Submit(o) ==
  /\ MayCall /\ Validate(o) /\ Len(frames) < MaxDepth
  /\ calls' = calls + 1
  /\ stats' = [stats EXCEPT !.accepted = @ + 1]
  /\ AddLimitOrder(o) \/ KillFok(o)
  /\ lots' = [lots EXCEPT !.taken = @ + o.qty_remaining,
                            !.withdrawn = IF aggressor' = NoOrder THEN @ + o.qty_remaining ELSE @]
  /\ UNCHANGED <<callback, frames>>

MatchIteration == Match /\ UNCHANGED engineVars

(* add_limit_order returns and record_trades begins.                         *)
Added ==
  /\ Finish \/ RestOrder
  /\ frames' = Append(frames, [left |-> trades, calling |-> FALSE])
  /\ lots' = [lots EXCEPT !.withdrawn =
                 IF aggressor.tif = "GTC" THEN @ ELSE @ + aggressor.qty_remaining]
  /\ UNCHANGED <<stats, callback, calls>>

(* Mistake: the volume is that of the whole order.                           *)
CountedTwice(t) ==
  [stats EXCEPT !.executed = @ + 1, !.volume = (@ + SumOf(Last(frames).left)) % Width]

Counted(t) == [stats EXCEPT !.executed = @ + 1, !.volume = (@ + t.qty) % Width]

(* One iteration of record_trades up to the callback.                        *)
RecordTrade ==
  /\ aggressor = NoOrder /\ frames # <<>> /\ ~Last(frames).calling /\ Last(frames).left # <<>>
  /\ stats' = Counted(Head(Last(frames).left))
  /\ frames' = [frames EXCEPT ![Len(frames)] =
                  IF callback THEN [left |-> @.left, calling |-> TRUE]
                  ELSE [left |-> Tail(@.left), calling |-> FALSE]]
  /\ UNCHANGED <<bookVars, callback, calls, lots>>

CallbackReturns ==
  /\ aggressor = NoOrder /\ frames # <<>> /\ Last(frames).calling
  /\ frames' = [frames EXCEPT ![Len(frames)] = [left |-> Tail(@.left), calling |-> FALSE]]
  /\ UNCHANGED <<bookVars, stats, callback, calls, lots>>

(* The exception leaves submit: the trades behind this one are not recorded, *)
(* and the caller, perhaps a callback, gets no trades.                       *)
CallbackThrows ==
  /\ aggressor = NoOrder /\ frames # <<>> /\ Last(frames).calling
  /\ lots' = [lots EXCEPT !.untold = @ + SumOf(Tail(Last(frames).left))]
  /\ frames' = Front(frames)
  /\ UNCHANGED <<bookVars, stats, callback, calls>>

Recorded ==
  /\ aggressor = NoOrder /\ frames # <<>> /\ Last(frames).left = <<>>
  /\ frames' = Front(frames)
  /\ UNCHANGED <<bookVars, stats, callback, calls, lots>>

(* cancel; an id that does not rest returns false and counts nothing.        *)
EngineCancel(id) ==
  /\ MayCall /\ Cancel(id)
  /\ calls' = calls + 1
  /\ stats' = [stats EXCEPT !.cancelled = @ + 1]
  /\ LET loc == order_index_[id]
         queue == levels[loc.side][loc.price].orders_
     IN lots' = [lots EXCEPT !.withdrawn = @ +
                    queue[CHOOSE i \in DOMAIN queue : queue[i].it = loc.it].qty_remaining]
  /\ UNCHANGED <<callback, frames>>

(* A client registers its callback; replacing the function that runs is not  *)
(* something std::function allows.                                           *)
OnTrade ==
  /\ frames = <<>> /\ aggressor = NoOrder /\ ~callback
  /\ callback' = TRUE
  /\ UNCHANGED <<bookVars, stats, frames, calls, lots>>

EngineNext ==
  \/ \E o \in [id : Ids, side : Sides, price : Prices \cup {0},
               qty_remaining : Quantities \cup {0}, tif : TimesInForce] : Reject(o) \/ Submit(o)
  \/ MatchIteration
  \/ Added
  \/ RecordTrade
  \/ CallbackReturns
  \/ CallbackThrows
  \/ Recorded
  \/ \E id \in Ids : EngineCancel(id)
  \/ OnTrade

EngineSpec == EngineInit /\ [][EngineNext]_<<bookVars, engineVars>>

-----------------------------------------------------------------------------
RestingLots ==
  LET PerLevel(side) == MapThenSumSet(LAMBDA p :
        FoldLeft(LAMBDA sum, o : sum + o.qty_remaining, 0, levels[side][p].orders_),
        DOMAIN levels[side])
  IN PerLevel("Buy") + PerLevel("Sell")

(* Trades the book has made and record_trades has not counted yet.           *)
Uncounted ==
  FoldLeft(LAMBDA sum, frame :
             sum + SumOf(IF frame.calling THEN Tail(frame.left) ELSE frame.left),
           IF aggressor = NoOrder THEN 0 ELSE SumOf(trades), frames)

(* matching_engine.hpp:9-15: every lot the engine has accepted rests, is in  *)
(* flight, was withdrawn, or is on one side of a trade; total_volume has     *)
(* each trade once, but for those behind a callback that threw, whatever the *)
(* callbacks submit and cancel while the trades of an outer order wait.      *)
LotsConserved ==
  (lots.taken
     - (RestingLots + (IF aggressor = NoOrder THEN 0 ELSE aggressor.qty_remaining)
        + lots.withdrawn + 2 * (Uncounted + lots.untold + stats.volume))) % Width = 0
=============================================================================
