SPECIFICATION FairSpec
CONSTANTS
  Dispatchers = {d1, d2}
  Workers = {w1, w2}
  NoThread = NoThread
  Fds = {s1, s2, s3}
  NoFd = NoFd
  Files = {f1}
  NoRequest = NoRequest
  Versions = {v1}
  NoVersion = NoVersion
  NoItem = NoItem
  NoContent = NoContent
  NotFound = NotFound
  MAX_QUEUE_SIZE = 1
  QueueArgs = {1}
  MAX_CACHE_SIZE = 1
  CacheArgs = {0, 1}
  MaxTime = 0
PROPERTIES QueuedIsAnswered DispatchersResume
\* The program may exit.
CHECK_DEADLOCK FALSE
