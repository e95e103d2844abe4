\* Two approvals of one tenant that fit under its limit one at a time.
SPECIFICATION Spec
CONSTANTS
  c1 = c1  c2 = c2  c3 = c3  a1 = a1  a2 = a2  a3 = a3  a4 = a4  t1 = t1
  Calls = {c1, c2}
  Approvals = {a1, a2}
  Tenants = {t1}
  TenantOf <- OneTenant
  Spend <- HalfSpend
  NumTargets <- OneTarget
  Automatic = {}
  HighTier = {}
  Invalid = {}
  Stale = {}
  DefaultLimit = 100
  Limits = {}
  Replies = {"success"}
  LostReplies = FALSE
  MaxTimeoutRetries = 1
  MaxRateRetries = 1
  MaxFaults = 0
  MaxRestarts = 0
INVARIANTS HardCap
CHECK_DEADLOCK FALSE
