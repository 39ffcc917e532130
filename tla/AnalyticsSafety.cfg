\* From the constructor on: two threads, three events, every API call from threads and
\* callbacks; shutdown happens to hold false before it is assigned.
SPECIFICATION StartSpec
CONSTANTS
  e1 = e1
  e2 = e2
  e3 = e3
  Events = {e1, e2, e3}
  Threads = {t1, t2}
  Worker = worker
  SizeOf <- MixedSizes
  FlushCount = 2
  FlushSize = 4
  FlushInterval = 2
  RetryInterval = 1
  MaxRetries = 1
  CallbackOps = {"Enqueue", "Flush", "Scrub", "FlushWait"}
  UnsetShutdown = {FALSE}
SYMMETRY MCThreads
INVARIANTS
  TypeOK
  OnePlace
  NoOversleep
  NoLostFlush
  NoMissedSignal
  NothingLeftBehind
  AttemptsBounded
  BatchWithinLimits
  NoEmptyPost
  QuietWhenSettled
  CallbackFlushEnds
  OnlyWaitsUntilBuilt
PROPERTIES
  OutcomeFinal
  DeliversInOrder
  StartsClean
  RetriesAsAgreed
