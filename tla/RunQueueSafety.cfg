\* Two workers; runs of one thread with a crash, a lost lease and a redrive, and
\* three runs of any thread.
SPECIFICATION SafetySpec
CONSTANTS
  MaxRuns = 3
  Workers = {w1, w2}
  Mortal = {w1}
  Threads = {t, NoThread}
  Outcomes = {"succeeded", "paused"}
  NoThread = NoThread
  NoWorker = NoWorker
  MaxActive = 2
  MaxQueued = 2
  MaxDelivery = 2
  TokenTrips = TRUE
  MaxLapses = 1
  MaxRedrives = 1
CONSTRAINT Scope
INVARIANTS
  GateOpenWhileDeliverable
  OneActivePerThread
  OneContinuation
PROPERTIES
  CancelledForAReason
  LostLeaseStaysLost
  ImplementsContract
CHECK_DEADLOCK FALSE
