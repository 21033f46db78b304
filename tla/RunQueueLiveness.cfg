SPECIFICATION Spec
CONSTANTS
  MaxRuns = 2
  Workers = {w1, w2}
  Mortal = {w1}
  Threads = {t}
  Outcomes = {"paused"}
  NoThread = NoThread
  NoWorker = NoWorker
  MaxActive = 2
  MaxQueued = 2
  MaxDelivery = 2
  TokenTrips = TRUE
  MaxLapses = 1
  MaxRedrives = 0
PROPERTIES
  CancelTakesEffect
  QueuedRunsAreServed
CHECK_DEADLOCK FALSE
