\* The bells: three changes of the table, two broken streams, one lost fetch.
\* Consultations: three requests in two slots about one notification, two failures or
\* restarts, two acts of users and scans.
SPECIFICATION MCSpec
CONSTANTS
  b1 = b1  b2 = b2  n1 = n1  n2 = n2  r1 = r1  r2 = r2
  Bells = {b1}
  QueueSize = 2
  Overtaking = FALSE
  MaxChanges = 3
  MaxDrops = 2
  MaxVisits = 1
  MaxLost = 1
  Notes = {n1}
  Consults = {r1, r2}
  MaxSessions = 3
  MaxClicks = 3
  MaxActs = 2
  MaxFailures = 2
INVARIANTS PanelTypeOK NothingIsLost ChangesAnnounced PlanterIsLinked LinkedHasCard
PROPERTIES KeepsPromise
CHECK_DEADLOCK FALSE
