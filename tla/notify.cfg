\* The scheduler and one scan by hand over one campaign that falls silent and recovers,
\* four notifications, one failing read or store call, two acts of users.
SPECIFICATION FairSpec
CONSTANTS
  k1 = k1  j1 = j1  h1 = h1
  Campaigns = {k1}
  Anomalies = {"no_delivery"}
  AccountRules <- NoRules
  Scheduled = {j1}
  Manual = {h1}
  MaxRows = 4
  MaxChanges = 2
  MaxActs = 2
  MaxFailures = 1
INVARIANTS OneDelivery FollowUpsWereRead
PROPERTIES SilenceIsReported NormalIsCleared
CHECK_DEADLOCK FALSE
