SPECIFICATION Spec
CONSTANTS
  Blueprint = {b1}
  Upload = {u1, u2}
  Handler = {}
  Deployment = {}
  Modes = {"file"}
  ForceFlags = {FALSE}
  ArchiveTypes = {3}
  MaxRare = 0
  None = None
  Icon = Icon
INVARIANT OwnFiles
CHECK_DEADLOCK FALSE
