CONSTANTS
  Msgs = {"stat", "environment", "gps", "gen"}
  Metrics = {"charge_inprogress", "pos_gpslock"}
  MaxChanges = 1
  MaxPeers = 1
SPECIFICATION Spec
INVARIANTS ChangeKeepsBit ChangesSent
