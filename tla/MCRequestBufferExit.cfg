SPECIFICATION FairSpec
CONSTANTS
  Dispatchers = {d1}
  Workers = {w1, w2}
  Items = {r1}
  NoItem = NoItem
  NoThread = NoThread
  MAX_QUEUE_SIZE = 2
  QueueArgs <- MCQueueArgs
PROPERTY WorkersExit
CHECK_DEADLOCK FALSE
