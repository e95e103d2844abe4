\* Three submissions of one approval with two targets, one failing await, one
\* process restart, every kind of reply; a failed reply never hides a write.
SPECIFICATION Spec
CONSTANTS
  c1 = c1  c2 = c2  c3 = c3  a1 = a1  a2 = a2  a3 = a3  a4 = a4  t1 = t1
  Calls = {c1, c2, c3}
  Approvals = {a1}
  Tenants = {t1}
  TenantOf <- OneTenant
  Spend <- MCSpend
  NumTargets <- MCNumTargets
  Automatic = {}
  HighTier = {}
  Invalid = {}
  Stale = {}
  DefaultLimit = 100
  Limits = {}
  Replies = {"success", "pending", "timeout", "rate_limited", "error", "partial"}
  LostReplies = FALSE
  MaxTimeoutRetries = 1
  MaxRateRetries = 1
  MaxFaults = 1
  MaxRestarts = 1
SYMMETRY CallSymmetry
INVARIANTS TypeOK KeyExclusion AnswerIsStored OneExecutionPerKey
PROPERTIES SavedResultFinal ReleasedUntouched
CHECK_DEADLOCK FALSE
