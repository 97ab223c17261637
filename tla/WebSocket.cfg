CONSTANTS
  MaxSlots = 2
  QueueSize = 1
  BacklogSize = 1
  MaxClients = 2
  MaxEntries = 1
  MaxEvents = 1
SPECIFICATION Spec
INVARIANTS JobsMatchPending SentToOwn
PROPERTY EntryRead
CHECK_DEADLOCK FALSE
