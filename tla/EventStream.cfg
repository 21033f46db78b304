\* A client that gets every event; two that compete for one slot, with a response
\* that never starts.
CONSTANTS
  c1 = c1
  c2 = c2
  Clients = {c1, c2}
  MaxSse = 1
  MaxFaults = 1
  Audiences <- AllAudiences
SPECIFICATION FairSpec
INVARIANTS ClientsFollowTheLog WithinSseQuota
PROPERTIES StreamsDeliver
CHECK_DEADLOCK FALSE
