---------------------------------- MODULE Workshop ----------------------------------
(***************************************************************************)
(* What a workshop keeps of its own: inventory, cost calculations, orders  *)
(* and technical sheets.  They share no state, so a behaviour moves one of *)
(* them, chosen at its beginning, and every property of a part is checked  *)
(* and proved on the behaviours that move it.                              *)
(***************************************************************************)
EXTENDS Inventory

CONSTANTS
  Materials, Labor, CostQuantities, CostPrices, Hours, Rates, Pieces, Margins,  \* of Costs
  Codes, Batches, Lots, Payments, OrderQuantities, OrderPrices, Percent, MinFee, \* of Orders
  Sizes, Rows, Known, Dates, Bodies,                                  \* of TechnicalSheets
  MaxChanges    \* bound: requests ever committed on a calculation, and on a sheet

VARIABLES
  part,  \* the part that moves
  calc, lines, costTx, costCount, stale, costTorn,
  orders, batches, payments, orderTx, reported, edited,
  sheet, steps, sheetTx, sheetCount, asked, sheetTorn

C == INSTANCE Costs WITH
       Quantities <- CostQuantities, Prices <- CostPrices, MaxCommits <- MaxChanges,
       tx <- costTx, count <- costCount, torn <- costTorn

O == INSTANCE Orders WITH
       Quantities <- OrderQuantities, Prices <- OrderPrices, tx <- orderTx

S == INSTANCE TechnicalSheets WITH
       MaxCommits <- MaxChanges, tx <- sheetTx, count <- sheetCount, torn <- sheetTorn

ASSUME WorkshopAssumption == C!CostsAssumption /\ O!OrdersAssumption /\ S!SheetsAssumption

Parts == {"inventory", "costs", "orders", "sheets"}

costVars == <<calc, lines, costTx, costCount, stale, costTorn>>
orderVars == <<orders, batches, payments, orderTx, reported, edited>>
sheetVars == <<sheet, steps, sheetTx, sheetCount, asked, sheetTorn>>

WorkshopInit == part \in Parts /\ Init /\ C!Init /\ O!Init /\ S!Init

WorkshopNext ==
  /\ part' = part
  /\ \/ part = "inventory" /\ Next /\ UNCHANGED <<costVars, orderVars, sheetVars>>
     \/ part = "costs" /\ C!Next /\ UNCHANGED <<vars, orderVars, sheetVars>>
     \/ part = "orders" /\ O!Next /\ UNCHANGED <<vars, costVars, sheetVars>>
     \/ part = "sheets" /\ S!Next /\ UNCHANGED <<vars, costVars, orderVars>>

WorkshopSpec == WorkshopInit /\ [][WorkshopNext]_<<part, vars, costVars, orderVars, sheetVars>>

-----------------------------------------------------------------------------
\* The moving part keeps its type.
AllTypesOK ==
  CASE part = "inventory" -> TypeOK
    [] part = "costs"     -> C!TypeOK
    [] part = "orders"    -> O!TypeOK
    [] part = "sheets"    -> S!TypeOK

\* The properties of the parts, as their modules state and explain them.
CalculationTotals == part = "costs" => C!TotalsAreTheLines
CalculationLines == part = "costs" => C!LinesAreProducts
OrderCharges == part = "orders" => O!ChargesAreTheOrder
OrderStatus == part = "orders" => O!StatusIsPayments
SheetConsistency == part = "sheets" => S!SheetIsConsistent
=============================================================================
