SPECIFICATION Spec
CONSTANTS
  Execution = {1, 2, 3}
  Deployment = {"d1"}
  None = None
  NoTask = NoTask
  DeploymentOf <- MCDeploymentOf
  WorkflowOf <- MCPlain
  EndpointOf <- MCEndpoints
  Bypassing = {}
  System = {3}
  Group = {}
  GroupsOf <- MCGroups
  GroupConcurrency <- MCConcurrency
  Handler = {h1, h2}
  Worker = {w1, w2}
  max_concurrent_workflows = 1
  DequeueLimit = 5
  DequeueRetries = 2
  ForceFlags = {TRUE, FALSE}
  MaxRequests = 1
  MaxWork = 9
  MaxCrashes = 0
CHECK_DEADLOCK FALSE
INVARIANTS TypeOK Exclusive ActiveIsCarried
SYMMETRY Symmetry
