SPECIFICATION Spec
CONSTANTS
  Operation = {"a", "n", "r"}
  None = None
  Nop = {"n"}
  RetryOf <- MCRetryOf
  Client = {c1, c2}
  ForceFlags = {TRUE, FALSE}
  MaxResumes = 2
CHECK_DEADLOCK FALSE
INVARIANTS TypeOK CountersExact
PROPERTIES SucceededStays FailedAreRetried RetriedStays
SYMMETRY Symmetry
VIEW View
