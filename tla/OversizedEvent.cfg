\* One event that no batch can hold, at the head of the queue.
SPECIFICATION FairSpec
CONSTANTS
  e1 = e1
  e2 = e2
  e3 = e3
  Events = {e1, e2}
  Threads = {t1, t2}
  Worker = worker
  SizeOf <- OversizedFirst
  FlushCount = 2
  FlushSize = 4
  FlushInterval = 1
  RetryInterval = 1
  MaxRetries = 1
  CallbackOps = {"Enqueue", "Flush", "Scrub"}
PROPERTIES
  EventuallySettled
