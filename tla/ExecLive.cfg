SPECIFICATION FairSpec
CONSTANTS
  Execution = {0, 1, 2, 4}
  Deployment = {"d1"}
  None = None
  NoTask = NoTask
  DeploymentOf <- MCDeploymentOf
  WorkflowOf <- MCPlain
  EndpointOf <- MCEndpoints
  Bypassing = {}
  System = {0}
  Group = {}
  GroupsOf <- MCGroups
  GroupConcurrency <- MCConcurrency
  Handler = {h1}
  Worker = {w1}
  max_concurrent_workflows = 1
  DequeueLimit = 5
  DequeueRetries = 2
  ForceFlags = {TRUE, FALSE}
  MaxRequests = 1
  MaxWork = 4
  MaxCrashes = 0
CHECK_DEADLOCK FALSE
PROPERTIES QueuedMovesOn EndedStaysEnded
