SPECIFICATION FairSpec
CONSTANTS
  Message = {"ok1", "ok2", "hook", "garbage", "malformed", "raises", "unstorable"}
  Execution = {"e1", "e2"}
  ExecOf <- MCExecOf
  Kind <- MCKind
  BatchLimit = 1
  CacheLimit = 1
  MaxRow = 2
  MaxSent = 2
  MaxChanges = 2
  MaxChannel = 2
CHECK_DEADLOCK FALSE
INVARIANTS TypeOK OncePerDelivery
PROPERTIES ImplementsJournal StorableIsStored
