\* A dashboard whose GET is overtaken by a rebalance, then a second rebalance.
SPECIFICATION Spec
CONSTANTS
  r1 = r1  r2 = r2  d1 = d1
  Requests = {r1, r2}
  Dashboards = {d1}
  NumCampaigns = 3
  InitialBudget <- MCInitialBudget
  MinBudget = 10
  MaxBudget = 30
  Bodies <- Rebalances
  LostReplies = FALSE
  OvertakenReads = TRUE
  MaxTimeoutRetries = 1
  MaxRateRetries = 1
  MaxFaults = 0
  MaxRestarts = 0
INVARIANTS ValidatedIsLive
CHECK_DEADLOCK FALSE
