\* Two workers with faults on one run, or a redrive of it; a chain of two runs.
SPECIFICATION SteeringSafetySpec
CONSTANTS
  MaxRuns = 2
  Workers = {w1, w2}
  Mortal = {}
  Threads = {t}
  Outcomes = {"succeeded", "paused"}
  NoThread = NoThread
  NoWorker = NoWorker
  MaxActive = 2
  MaxQueued = 2
  MaxDelivery = 2
  TokenTrips = FALSE
  MaxLapses = 1
  MaxRedrives = 1
  Keys = {k1, k2}
  MaxRows = 2
  MaxFaults = 1
CONSTRAINT Scope
INVARIANTS
  InboxIsSettled
  GraphMeetsInbox
  ToldOnce
PROPERTIES
  DispositionIsFinal
SYMMETRY SteeringSymmetry
CHECK_DEADLOCK FALSE
