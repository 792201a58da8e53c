\* Every id, price, size and time in force; totals wrap at 4.
CONSTANTS
  Ids = {i1, i2}
  Prices = {1, 2, 3}
  Quantities = {1, 3}
  Width = 4
  MaxNodes = 3
  NoOrder = NoOrder
SPECIFICATION Spec
SYMMETRY MCSymmetry
INVARIANTS TypeOK NeverCrossed QueuesInOrder IndexSound UniqueOrdersCancellable CachedTotals
PROPERTIES FokFillsOrKills PriceTimePriority
