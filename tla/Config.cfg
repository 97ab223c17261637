CONSTANTS
  Tasks = {t}
  Param = {p}
  Instance = {i, j}
  Value = {v}
  Script = {f}
  None = None
  MaxChanges = 2
  MaxRestores = 1
  MaxCrashes = 1
SPECIFICATION Spec
INVARIANTS ChangesKept  Recoverable
PROPERTY RebootFollows
CHECK_DEADLOCK FALSE
