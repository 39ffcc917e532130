\* shutdown may hold anything before it is assigned.
SPECIFICATION StartSpec
CONSTANTS
  e1 = e1
  e2 = e2
  e3 = e3
  Events = {e1, e2}
  Threads = {t1}
  Worker = worker
  SizeOf <- MixedSizes
  FlushCount = 2
  FlushSize = 4
  FlushInterval = 1
  RetryInterval = 1
  MaxRetries = 1
  CallbackOps = {"Enqueue", "Flush"}
  UnsetShutdown = {TRUE, FALSE}
INVARIANTS
  WorkerRuns
