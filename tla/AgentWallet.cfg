CONSTANTS
  Agents = {a1}
  Fundings = {f1, f2}
  Plans = {pl}
  Requests = {r1, r2}
  Editors = {e1}
  Amounts <- MCAmounts
  Prices <- MCPrices
  Quantities <- MCQuantities
  MaxBalance = 3
  MaxCrashes = 1
  Free = Free
SPECIFICATION LiveSpec
INVARIANTS
  TypeOK
  MoneyConserved
PROPERTIES
  NoSaleAfterSuspensionUnlessUndone
  EveryRequestEnds
