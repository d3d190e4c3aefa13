SPECIFICATION Spec
CONSTANTS
  Execution = {1, 2, 3, 6}
  Deployment = {"d1"}
  None = None
  NoTask = NoTask
  DeploymentOf <- MCDeploymentOf
  WorkflowOf <- MCKinds
  EndpointOf <- MCEndpoints
  Bypassing = {}
  System = {3, 6}
  Group = {}
  GroupsOf <- MCGroups
  GroupConcurrency <- MCConcurrency
  Handler = {h1, h2}
  Worker = {w1}
  max_concurrent_workflows = 2
  DequeueLimit = 5
  DequeueRetries = 2
  ForceFlags = {FALSE}
  MaxRequests = 0
  MaxWork = 9
  MaxCrashes = 1
CHECK_DEADLOCK FALSE
INVARIANTS DecisionsHold ActiveIsCarried
SYMMETRY Symmetry
PROPERTIES EndedStaysEnded
