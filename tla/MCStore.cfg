SPECIFICATION Spec
CONSTANTS
  b1 = b1
  b2 = b2
  cashier = cashier
  owner = owner
  Branches = {b1, b2}
  Opening <- MCOpening
  Users = {cashier, owner}
  Assigned = {cashier}
  Home <- MCHome
  Till <- MCTill
  Baskets = {1, 2}
  Size <- MCSize
  OnCredit <- MCOnCredit
  Limit = 2
  MaxSales = 2
  MaxShifts = 2
  MaxFlights = 2
  MaxRestored = 1
  Payments = {2}
  Quantities = {2}
  MaxDocs = 2
INVARIANTS
  TypeOK
  StockIsLedger
  SoldOnce
  SalesExplainStock
  DrawerMatchesReport
  CreditWithinLimit
  CreditIsOwed
CONSTRAINT Budget
CHECK_DEADLOCK FALSE
