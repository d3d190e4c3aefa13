SPECIFICATION Spec
CONSTANTS
  Blueprint = {b1, b2}
  Upload = {u1, u2}
  Handler = {h1}
  Deployment = {d1}
  Modes = {"file", "url", "validate"}
  ForceFlags = {TRUE, FALSE}
  ArchiveTypes = {1, 3}
  MaxRare = 1
  None = None
  Icon = Icon
INVARIANTS TypeOK FilesMatch ImportsHold NoDeploymentSwept NoHalfUploads
SYMMETRY MCSymmetry
CHECK_DEADLOCK FALSE
