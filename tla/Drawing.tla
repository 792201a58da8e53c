-------------------------------- MODULE Drawing -------------------------------
(***************************************************************************)
(* What AdaptiveTerminalChart.render paints of a history (candles.py): the  *)
(* time window and the price scale, candles in half rows, the close line as *)
(* a raster of dots, the labels of both axes and the volume bars.  A price  *)
(* is a number of cents, the tick the chart infers for it; what only the    *)
(* extremes of floats need is left out.  A picture is a function from cells *)
(* to glyphs, or a set.                                                     *)
(***************************************************************************)
EXTENDS Candles

(* What a history with a trade is: candles at whole buckets, of prices and    *)
(* volumes that are not zero.                                                *)
IsChart(h) ==
  /\ DOMAIN h # {} /\ IsFiniteSet(DOMAIN h)
  /\ \A b \in DOMAIN h :
       LET c == h[b] IN
       /\ b \in Nat /\ b % BucketMs = 0
       /\ {c.open, c.high, c.low, c.close, c.buy, c.sell} \subseteq Nat
       /\ c.low <= Min({c.open, c.close}) /\ Max({c.open, c.close}) <= c.high
       /\ c.buy + c.sell > 0

(* The rows of the two panes, in a chart of at least 8.                      *)
VolumeRows(height) == Max({1, Min({4, (height - 4) \div 4})})
PriceRows(height) == height - VolumeRows(height) - 5

(* Bound: clean steps up to 50 dollars.                                      *)
Steps == {m * power : m \in {1, 2, 5}, power \in {1, 10, 100, 1000}}

(* The bounds of the scale in hundredths of a cent: 8 % beside the prices    *)
(* shown, at least 16 cents and 0.05 bp of the last price in all, rounded    *)
(* outward to the clean step next below a tenth of that.                     *)
Scale(prices, last) ==
  LET span == Max({116 * (Max(prices) - Min(prices)), 1600, last \div 2000})
      bottom == Max({0, 50 * (Max(prices) + Min(prices)) - span \div 2})
      top == bottom + span
      step == 100 * Max({s \in Steps : 1000 * s <= span})
  IN IF step > 100 * Max(prices) THEN [top |-> top, bottom |-> bottom]
     ELSE [top |-> -((-top) \div step) * step, bottom |-> (bottom \div step) * step]

(* Python's round of n / d: a half goes to the even neighbour.               *)
RoundHalfEven(n, d) ==
  LET q == n \div d
      r == 2 * (n % d)
  IN IF r > d \/ (r = d /\ q % 2 = 1) THEN q + 1 ELSE q

Position(scale, price, rows) ==
  Max({0, Min({rows - 1,
    RoundHalfEven((scale.top - 100 * price) * (rows - 1), scale.top - scale.bottom)})})

(* The window ends at the newest bucket; a bucket's place depends on its     *)
(* time alone.                                                               *)
WindowStart(history, columns) == Max(DOMAIN history) - (columns - 1) * BucketMs
Visible(history, columns) == {b \in DOMAIN history : b >= WindowStart(history, columns)}
ByTime(history, columns) ==
  Select([n \in 1 .. columns |-> WindowStart(history, columns) + (n - 1) * BucketMs],
         DOMAIN history)
ColumnOf(history, columns, stride, b) ==
  ((b - WindowStart(history, columns)) \div BucketMs) * stride

-----------------------------------------------------------------------------
(* The last price and three rows of the price axis are labelled; the rows    *)
(* shown in a label count 1 / Max({1, rows - 1}) of the scale each.          *)
LastClose(history) == history[Max(DOMAIN history)].close

GuideRow(scale, last, rows, resolution) ==
  Position(scale, last, rows * resolution) \div resolution
LabelRows(rows) == {0, rows \div 2, rows - 1}

PriceAxis(scale, last, rows, resolution) ==
  LET guide == GuideRow(scale, last, rows, resolution)
      unit == Max({1, rows - 1})
  IN [row \in {guide} \cup LabelRows(rows) |->
        IF row = guide THEN 100 * last * unit
        ELSE scale.top * unit - row * (scale.top - scale.bottom)]

(* The pane before anything is drawn in it.                                  *)
Background == {"blank", "guide", "dot"}
Blank(guide, rows, width) ==
  [cell \in (0 .. rows - 1) \X (0 .. width - 1) |->
     IF cell[1] = guide THEN "guide"
     ELSE IF cell[1] \in LabelRows(rows) /\ cell[2] % 3 = 0 THEN "dot" ELSE "blank"]

-----------------------------------------------------------------------------
(* _draw_candles: a candle is two cells wide and a third is left; a row      *)
(* holds two half rows.                                                      *)
(* Mistake: the lower half of a row is taken for its upper half.             *)
GlyphShifted(top, bottom, row) ==
  LET upper == top <= row * 2 + 1 /\ row * 2 + 1 <= bottom
      lower == top <= row * 2 + 1 /\ row * 2 + 1 <= bottom
  IN IF upper /\ lower THEN "full" ELSE IF upper THEN "upper" ELSE "lower"

Glyph(top, bottom, row) ==
  LET upper == top <= row * 2 /\ row * 2 <= bottom
      lower == top <= row * 2 + 1 /\ row * 2 + 1 <= bottom
  IN IF upper /\ lower THEN "full" ELSE IF upper THEN "upper" ELSE "lower"

DrawCandle(grid, c, x, scale, rows) ==
  LET At(price) == Position(scale, price, rows * 2)
      top == At(Max({c.open, c.close}))
      bottom == At(Min({c.open, c.close}))
      wick == [cell \in (At(c.high) \div 2 .. At(c.low) \div 2) \X {x + 1} |-> "wick"]
      thin == [cell \in {top \div 2} \X {x, x + 1} |-> "thin"]
      body == [cell \in (top \div 2 .. bottom \div 2) \X {x, x + 1} |->
                 Glyph(top, bottom, cell[1])]
  IN Over(IF c.open = c.close \/ top \div 2 = bottom \div 2 THEN thin ELSE body,
          Over(wick, grid))

CandleScale(history, columns) ==
  Scale(UNION {{history[b].high, history[b].low} : b \in Visible(history, columns)},
        LastClose(history))

CandlePicture(history, columns, rows) ==
  LET scale == CandleScale(history, columns)
      Draw(grid, b) ==
        DrawCandle(grid, history[b], ColumnOf(history, columns, 3, b), scale, rows)
  IN FoldLeft(Draw, Blank(GuideRow(scale, LastClose(history), rows, 2), rows, columns * 3),
              ByTime(history, columns))

-----------------------------------------------------------------------------
(* _draw_line: Bresenham's algorithm between adjacent buckets; a cell has    *)
(* two by four dots.                                                         *)
Abs(n) == IF n < 0 THEN -n ELSE n
Sign(from, to) == IF from < to THEN 1 ELSE -1

Segment(x0, y0, x1, y1) ==
  LET dx == Abs(x1 - x0)
      dy == -Abs(y1 - y0)
      Plot(s, n) ==
        IF s.x = x1 /\ s.y = y1 THEN s
        ELSE LET right == 2 * s.error >= dy
                 down == 2 * s.error <= dx
                 x == IF right THEN s.x + Sign(x0, x1) ELSE s.x
                 y == IF down THEN s.y + Sign(y0, y1) ELSE s.y
             IN [x |-> x, y |-> y, dots |-> s.dots \cup {<<x, y>>},
                 error |-> s.error + (IF right THEN dy ELSE 0) + (IF down THEN dx ELSE 0)]
  IN FoldLeft(Plot, [x |-> x0, y |-> y0, error |-> dx + dy, dots |-> {<<x0, y0>>}],
              [n \in 1 .. dx - dy |-> n]).dots

LineScale(history, columns) ==
  Scale({history[b].close : b \in Visible(history, columns)}, LastClose(history))

DotOf(history, columns, scale, rows, b) ==
  <<ColumnOf(history, columns, 2, b) * 2 + 1, Position(scale, history[b].close, rows * 4)>>

Dots(history, columns, scale, rows, b) ==
  LET to == DotOf(history, columns, scale, rows, b)
      from == DotOf(history, columns, scale, rows, b - BucketMs)
  IN IF b - BucketMs \in Visible(history, columns)
     THEN Segment(from[1], from[2], to[1], to[2]) ELSE {to}

-----------------------------------------------------------------------------
(* The volume bars, in eighths of a row; beside one bucket of more than 16   *)
(* times the median their heights go with the square root.                   *)
Volume(c) == c.buy + c.sell

TwiceMedian(history, shown) ==
  LET Less(a, b) == \/ Volume(history[a]) < Volume(history[b])
                    \/ (Volume(history[a]) = Volume(history[b]) /\ a < b)
      order == SetToSortSeq(shown, Less)
      At(n) == Volume(history[order[n]])
  IN At((Len(order) + 1) \div 2) + At(Len(order) \div 2 + 1)

(* round of the square root of n / d, where it is at most max.               *)
RoundRoot(n, d, max) ==
  LET Squared(k) == (2 * k - 1) * (2 * k - 1) IN
  Max({0} \cup {k \in 1 .. max : \/ Squared(k) * d < 4 * n
                                \/ (Squared(k) * d = 4 * n /\ k % 2 = 0)})

BarLevels(history, shown, rows, b) ==
  LET most == Max({Volume(history[c]) : c \in shown})
      volume == Volume(history[b])
      full == rows * 8
  IN Max({1, IF most > 8 * TwiceMedian(history, shown)
             THEN RoundRoot(full * full * volume, most, full)
             ELSE RoundHalfEven(volume * full, most)})

Tint(c) == IF c.buy > c.sell THEN "green" ELSE IF c.sell > c.buy THEN "red" ELSE "white"

VolumePicture(history, columns, stride, rows) ==
  LET shown == Visible(history, columns)
      Fill(levels, row) == Max({0, Min({8, levels - (rows - 1 - row) * 8})})
      Bar(grid, b) ==
        LET x == ColumnOf(history, columns, stride, b)
            levels == BarLevels(history, shown, rows, b)
            filled == {row \in 0 .. rows - 1 : Fill(levels, row) > 0}
        IN Over([cell \in filled \X {x, x + 1} |-> <<Fill(levels, cell[1]), Tint(history[b])>>],
                grid)
      empty == [cell \in (0 .. rows - 1) \X (0 .. columns * stride - 1) |-> <<0, "none">>]
  IN FoldLeft(Bar, empty, ByTime(history, columns))

-----------------------------------------------------------------------------
(* _time_axis: the newest, the oldest and the middle bucket are labelled as  *)
(* far as the labels fit beside each other; a label is the cell it starts at.*)
LabelStart(column, length, width) ==
  Max({0, Min({width - length, column - length \div 2})})

TimeAxis(history, columns, stride, length) ==
  LET width == columns * stride
      buckets == ByTime(history, columns)
      candidates == <<Last(buckets), Head(buckets), buckets[Len(buckets) \div 2 + 1]>>
      Place(placed, b) ==
        LET start == LabelStart(ColumnOf(history, columns, stride, b), length, width)
            occupied == UNION {s - 1 .. s + length : s \in placed}
        IN IF length > width \/ occupied \cap (start .. start + length - 1) # {}
           THEN placed ELSE placed \cup {start}
  IN FoldLeft(Place, {}, candidates)
=============================================================================
