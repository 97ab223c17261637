CONSTANTS
  MaxTasks = 3
  MaxQueue = 3
SPECIFICATION Spec
INVARIANTS ToldTruth WifiFollowsSignal OneManager
PROPERTIES ChangeTold NetworkServed
CHECK_DEADLOCK FALSE
