CONSTANTS
  Tasks = {k1}
  Event = {e1, e2, e3, tick}
  Tickers = {tick}
  Delayed = {e1, e2}
  QueueSize = 1
  TimerQueueSize = 2
  MaxTimers = 2
  MaxFlashes = 1
  None = None
SPECIFICATION Spec
INVARIANTS OnceInTime NothingLeaked
PROPERTIES LostAborts DelayedArrives
CHECK_DEADLOCK FALSE
