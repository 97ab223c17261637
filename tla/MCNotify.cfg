\* Two types, three readers of two verbosities; up to two entries per raise.
CONSTANTS
  Types = {"info", "data"}
  Readers = {1, 2, 3}
  Verbosity <- MCVerbosity
  Lengths = {1, 2, 3}
  MaxId = 1
SPECIFICATION FairSpec
INVARIANTS NoOrphan IdsUnique OneMessageEach ReusedFits
PROPERTIES ImplementsBoard EntriesLeave
