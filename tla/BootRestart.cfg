SPECIFICATION RestartSpec
CONSTANTS
  RestartTime = 8
  UintMax = 7
  OffTicks = 2
  CheckTicks = 2
  MaxRestarts = 2
INVARIANT InTime
PROPERTIES Handshake RestartHappens
CHECK_DEADLOCK FALSE
