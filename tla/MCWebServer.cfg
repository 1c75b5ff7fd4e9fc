SPECIFICATION Spec
CONSTANTS
  Dispatchers = {d1, d2}
  Workers = {w1, w2}
  NoThread = NoThread
  Fds = {s1, s2, s3}
  NoFd = NoFd
  Files = {f1, f2}
  NoRequest = NoRequest
  Versions = {v1}
  NoVersion = NoVersion
  NoItem = NoItem
  NoContent = NoContent
  NotFound = NotFound
  MAX_QUEUE_SIZE = 2
  QueueArgs = {1}
  MAX_CACHE_SIZE = 2
  CacheArgs = {0, 1, 2}
  MaxTime = 1
INVARIANT OneOwner
INVARIANT ReplyIsForAskedFile
INVARIANT CachedOnce
PROPERTY UsesBuffer
PROPERTY UsesCache

SYMMETRY MCSymmetry
CHECK_DEADLOCK FALSE
