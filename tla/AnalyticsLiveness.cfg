\* Two threads, and two events that do not fit one batch; no symmetry under liveness.
SPECIFICATION FairSpec
CONSTANTS
  e1 = e1
  e2 = e2
  e3 = e3
  Events = {e1, e3}
  Threads = {t1, t2}
  Worker = worker
  SizeOf <- MixedSizes
  FlushCount = 2
  FlushSize = 4
  FlushInterval = 1
  RetryInterval = 1
  MaxRetries = 1
  CallbackOps = {"Enqueue", "Flush", "Scrub"}
PROPERTIES
  KeepsDelivering
  EventuallySettled
  FlushWaitReturns
  DestructorReturns
