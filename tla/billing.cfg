\* Four requests in two slots over two orders and a campaign, one request that dies,
\* one Toss answer that is lost.
SPECIFICATION Spec
CONSTANTS
  s1 = s1  s2 = s2  o1 = o1  o2 = o2  k1 = k1  k2 = k2  m1 = m1
  Slots = {s1, s2}
  Orders = {o1, o2}
  Amount <- MCAmount
  Keys = {k1, k2}
  Campaigns = {m1}
  Ops <- MCOps
  MaxRequests = 4
  MaxReported = 2
  MaxLosses = 1
  MaxCrashes = 1
INVARIANTS LedgerBackedByToss MoneyIsBooked SerialOrders SerialSpending
PROPERTIES SerialCanceledFinal
CHECK_DEADLOCK FALSE
