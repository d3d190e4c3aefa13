SPECIFICATION ManagerSpec
CONSTANTS
  Execution = {0, 4, 5, 6}
  Deployment = {"d4", "d5", "d6"}
  None = None
  NoTask = NoTask
  DeploymentOf <- MCDeploymentOf
  WorkflowOf <- MCPlain
  EndpointOf <- MCPosted
  Bypassing = {}
  System = {0}
  Group = {g1}
  GroupsOf <- MCGroups
  GroupConcurrency <- MCBoth
  Concurrencies = {0, 2}
  Handler = {h1}
  Worker = {w1}
  max_concurrent_workflows = 2
  DequeueLimit = 5
  DequeueRetries = 2
  ForceFlags = {FALSE}
  MaxRequests = 0
  MaxWork = 9
  MaxCrashes = 0
CHECK_DEADLOCK FALSE
INVARIANTS StartedIsSent
