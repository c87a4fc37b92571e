\* Two requests at a time.  Of the inventory's quantities 0.0004 is rounded to
\* nothing, 0.0005 is a half, 0.002 exact.  Of the orders' amounts 2 * 25 is half a
\* cent, less than the minimum fee, and 2 * 775 is 15.5 cents.
CONSTANTS
  Quantities = {4, 5, 20}
  MaxMovements = 3
  MaxStock = 40
  Workers = {w1, w2}
  NULL = NULL
  Materials = {m1}
  Labor = {l1}
  CostQuantities = {0, 2}
  CostPrices = {1, 2}
  Hours = {1}
  Rates = {1}
  Pieces = {1, 2}
  Margins = {}
  Codes = {c1}
  Batches = {b1, b2}
  Lots = {t1, t2}
  Payments = {p1, p2}
  OrderQuantities = {2}
  OrderPrices = {25, 775}
  Percent = 70
  MinFee = 2
  Sizes = {s1, s2}
  Rows = {r1, r2}
  Known = {r1}
  Dates = {d1}
  MaxChanges = 3
  Bodies <- MCBodies
  s1 = s1
  s2 = s2
  r1 = r1
  r2 = r2
  d1 = d1
SPECIFICATION WorkshopSpec
SYMMETRY MCSymmetry
INVARIANTS AllTypesOK StockIsItsMovements CalculationTotals CalculationLines OrderCharges OrderStatus SheetConsistency
