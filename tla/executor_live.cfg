\* Two submissions of one approval under the fairness of the event loop.
SPECIFICATION FairSpec
CONSTANTS
  c1 = c1  c2 = c2  c3 = c3  a1 = a1  a2 = a2  a3 = a3  a4 = a4  t1 = t1
  Calls = {c1, c2}
  Approvals = {a1}
  Tenants = {t1}
  TenantOf <- OneTenant
  Spend <- MCSpend
  NumTargets <- MCNumTargets
  Automatic = {}
  HighTier = {}
  Invalid = {}
  Stale = {}
  DefaultLimit = 100
  Limits = {50}
  Replies = {"success", "pending", "timeout", "rate_limited", "error", "partial"}
  LostReplies = FALSE
  MaxTimeoutRetries = 1
  MaxRateRetries = 1
  MaxFaults = 0
  MaxRestarts = 0
PROPERTIES CallsEnd KeysResolve DuplicatesReplay
CHECK_DEADLOCK FALSE
