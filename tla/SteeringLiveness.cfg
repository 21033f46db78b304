SPECIFICATION SteeringSpec
CONSTANTS
  MaxRuns = 1
  Workers = {w1, w2}
  Mortal = {w1}
  Threads = {t}
  Outcomes = {"succeeded"}
  NoThread = NoThread
  NoWorker = NoWorker
  MaxActive = 2
  MaxQueued = 2
  MaxDelivery = 1
  TokenTrips = TRUE
  MaxLapses = 1
  MaxRedrives = 0
  Keys = {k1}
  MaxRows = 1
  MaxFaults = 1
PROPERTIES
  AcceptedIsSettled
CHECK_DEADLOCK FALSE
