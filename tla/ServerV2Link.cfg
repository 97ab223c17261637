CONSTANTS
  MaxConns = 3
  MaxNetEvents = 3
  Retry = 2
  AuthRetry = 3
  ShortRetry = 1
  UpRetry = 1
  ConfigRetry = 1
  LoginWait = 2
SPECIFICATION Spec
INVARIANTS OneConnection NeverStuck
PROPERTY FalseConnectedHeals
CHECK_DEADLOCK FALSE
