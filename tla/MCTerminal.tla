------------------------------- MODULE MCTerminal ------------------------------
(* Six trades over three buckets of two units: late ones, one of the same     *)
(* time and side as another, one of another symbol.                           *)
EXTENDS Terminal

CONSTANTS fitted, t1, other

MCParams == {fitted}
MCWindow == [p \in {fitted, Default} |-> 1]

MCTrade(id, ts, price, qty, taker, symbol) ==
  [id |-> id, ts |-> ts, price |-> price, qty |-> qty, taker |-> taker, symbol |-> symbol]
MCTrades ==
  {MCTrade(1, 3, 20, 1, "buy", Own), MCTrade(2, 2, 60, 2, "sell", Own),
   MCTrade(3, 3, 10, 1, "buy", Own), MCTrade(4, 5, 40, 3, "sell", Own),
   MCTrade(5, 1, 30, 1, "buy", Own), MCTrade(6, 3, 50, 1, "buy", other)}

MCSizes == {<<3, 12>>}

(* A quiet market at 40000 dollars and one of a few cents, and volumes that   *)
(* need the square root or not.  The oldest bucket is out of view, and is the *)
(* highest or the largest at times.                                           *)
MCCandle(open, close, volume) ==
  [open |-> open, high |-> Max({open, close}) + 1, low |-> Min({open, close}), close |-> close,
   buy |-> volume, sell |-> 1, trades |-> 2, first |-> 0, last |-> 0]
MCSketches ==
  {[b \in {0, 4, 6, 8} |-> MCCandle(price + start[b], price + start[b] + move[b], volume[b])] :
     price \in {3, 4000000},
     start \in {[b \in {0, 4, 6, 8} |-> 0], (0 :> 90 @@ 4 :> 0 @@ 6 :> 0 @@ 8 :> 0)},
     move \in {[b \in {0, 4, 6, 8} |-> 0], (0 :> 0 @@ 4 :> -1 @@ 6 :> 20 @@ 8 :> 3)},
     volume \in {(0 :> 1 @@ 4 :> 1 @@ 6 :> 8 @@ 8 :> 50), (0 :> 8 @@ 4 :> 50 @@ 6 :> 1 @@ 8 :> 1),
                (0 :> 90 @@ 4 :> 8 @@ 6 :> 8 @@ 8 :> 1)}}
=============================================================================
