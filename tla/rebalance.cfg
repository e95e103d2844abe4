\* Two concurrent requests and a dashboard, one fault, one restart; a failed
\* reply never hides a write and no write is applied while a GET is in flight.
SPECIFICATION FairSpec
CONSTANTS
  r1 = r1  r2 = r2  d1 = d1
  Requests = {r1, r2}
  Dashboards = {d1}
  NumCampaigns = 3
  InitialBudget <- MCInitialBudget
  MinBudget = 10
  MaxBudget = 30
  Bodies <- MCBodies
  LostReplies = FALSE
  OvertakenReads = FALSE
  MaxTimeoutRetries = 1
  MaxRateRetries = 0
  MaxFaults = 1
  MaxRestarts = 1
INVARIANTS ValidatedIsLive TotalAccounted ReportIsTrue
PROPERTIES RequestsEnd
CHECK_DEADLOCK FALSE
