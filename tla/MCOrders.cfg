\* Orders that overlap, wait for each other, fail and are edited.
SPECIFICATION FairSpec
CONSTANTS
  apples = apples
  pears = pears
  Products = {apples, pears}
  Requests = {r1, r2}
  r1 = r1
  r2 = r2
  Nobody = Nobody
  Carts <- AllCarts
  InitialStock <- Stocked
  EditedTo = {"DONE"}
  MaxOrders = 2
INVARIANTS
  NoUnitLost
  InvoiceOnDisk
  SoldFromStock
  InvoicePathKept
  StatusKept
PROPERTIES
  EveryRequestAnswered
\* Once the last order has been deleted nothing is left to do.
CHECK_DEADLOCK FALSE
