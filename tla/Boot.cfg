SPECIFICATION Spec
CONSTANTS
  Tasks = {"console"}
  InhibitCount = 2
  MaxResets = 4
INVARIANTS LoopInhibited FlagsOfLastRun
PROPERTY PanicTold
CHECK_DEADLOCK FALSE
