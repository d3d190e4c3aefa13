SPECIFICATION Spec
CONSTANTS
  Instance = {i1, i2, i3}
  Hub = hub
  First = {i1, i2}
  Modification = {m1, m2}
  Handler = {h1, h2}
  Client = {c1}
  Targets = {1, 3}
  MaxRequests = 2
  MaxFailures = 1
  MaxWrites = 1
  None = None
INVARIANTS TypeOK Settled NoStaleWrite
PROPERTIES RollbackRestores
SYMMETRY MCSymmetry
CHECK_DEADLOCK FALSE
