\* A confirmed order, then a cancel and a settlement at the same time.
SPECIFICATION Spec
CONSTANTS
  s1 = s1  s2 = s2  o1 = o1  o2 = o2  k1 = k1  k2 = k2  m1 = m1
  Slots = {s1, s2}
  Orders = {o1}
  Amount <- MCAmount
  Keys = {k1, k2}
  Campaigns = {m1}
  Ops <- OneOrder
  MaxRequests = 3
  MaxReported = 2
  MaxLosses = 0
  MaxCrashes = 0
INVARIANTS BalanceNeverNegative
CHECK_DEADLOCK FALSE
