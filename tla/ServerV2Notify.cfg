CONSTANTS
  MaxText = 2
  MaxData = 2
  RetransmitDelay = 2
SPECIFICATION V2Spec
INVARIANTS DataKept TextAtMostOnce NothingForgotten
PROPERTY FlaggedDataSent
