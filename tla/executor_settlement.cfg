\* Two submissions of four approvals of one tenant: a user's with two targets
\* (a1), an automatic one of tier 1 (a2), one of a higher tier (a3) and a stale one
\* (a4); any of them may be forged.  No fault.
SPECIFICATION Spec
CONSTANTS
  c1 = c1  c2 = c2  c3 = c3  a1 = a1  a2 = a2  a3 = a3  a4 = a4  t1 = t1
  Calls = {c1, c2}
  Approvals = {a1, a2, a3, a4}
  Tenants = {t1}
  TenantOf <- OneTenant
  Spend <- MCSpend
  NumTargets <- MCNumTargets
  Automatic = {a2, a3}
  HighTier = {a3}
  Invalid = {}
  Stale = {a4}
  DefaultLimit = 100
  Limits = {200}
  Replies = {"success", "error", "partial"}
  LostReplies = FALSE
  MaxTimeoutRetries = 1
  MaxRateRetries = 1
  MaxFaults = 0
  MaxRestarts = 0
SYMMETRY CallSymmetry
INVARIANTS OnlyApprovedWrites BudgetMatchesResults
CHECK_DEADLOCK FALSE
