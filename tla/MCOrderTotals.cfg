CONSTANTS
  o1 = o1
  o2 = o2
  i1 = i1
  i2 = i2
  i3 = i3
  Requests = {r1, r2}
  OrderIds = {o1, o2}
  ItemsOf <- SmallItemsOf
  MaxQuantity = 2
  NoOrder = NoOrder
SPECIFICATION Spec
INVARIANTS TotalOfItems
PROPERTY OthersItemsKept
