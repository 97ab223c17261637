CONSTANTS
  Callers = {console}
  Interfaces = {wifi, modem, ap}
  Clients = {wifi, modem}
  QueueSize = 2
  MaxCommands = 2
  MaxDrops = 2
  MaxEvents = 1
SPECIFICATION JobsSpec
INVARIANT JobIsOwn
PROPERTY OrphansClosed
