INIT MCInit
NEXT MCNext
CONSTANTS
  Width = 4
  Height = 2
  MaskRow <- MCMaskRow
  MaskCol <- MCMaskCol
  Outline <- MCOutline
  Background = Background
  Black = Black
  Channels <- MCChannels
  Presets <- MCPresets
  FloatHigh = 1
  Steps <- MCSteps
  NotTyped = NotTyped
  Points <- MCPoints
  NoColor = NoColor
  NoTool = NoTool
  MaxStrokes = 2
  CtlWidth = 60
  CtlHeight = 78
  BallPoints <- MCBallPoints
  MaxEvents = 5
  Components <- MCComponents
  Turns <- MCTurns
  Axes <- MCAxes
  MaxFactors = 2
  Elements = {e1, e2}
  Null = Null
  Failed = Failed
  Priorities <- MCPriorities
  MaxQueue = 4
  MaxArray = 6
  Requests = {f1, f2, f3, f4}
  Contents = {v1, v2}
  NoRequest = NoRequest
  NoContent = NoContent
  MAX_CACHE_SIZE = 3
  CacheArgs <- MCCacheArgs
  MaxTime = 2
  Dispatchers = {d1, d2, d3}
  Workers = {w1, w2}
  Items = {r1, r2}
  NoItem = NoItem
  NoThread = NoThread
  MAX_QUEUE_SIZE = 2
  QueueArgs <- MCQueueArgs
INVARIANT PanelShowsColor
INVARIANT PathDoesNotMatter
INVARIANT InverseUndoes
INVARIANT SortsEverything
INVARIANT FilledPrefix
INVARIANT MutualExclusion
INVARIANT RingShape
INVARIANT WorkerNotForgotten
INVARIANT DispatcherNotForgotten
PROPERTY StrokeHasOneColor
PROPERTY DragIsFilledIn
PROPERTY RemoveTakesFirstHighest
PROPERTY StaysKnown
PROPERTY ImplementsLru
PROPERTY ImplementsQueue

\* BrushWork ends, an array is sorted in the initial state, the clock stops, and
\* with every dispatcher gone the workers wait for good.
CHECK_DEADLOCK FALSE
