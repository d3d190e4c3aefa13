SPECIFICATION Spec
CONSTANTS
  Manager = {m1, m2}
  None = None
  Rules <- MCRules
  Slip = 1
  StopOnFail = TRUE
  MaxTime = 4
  MaxExecs = 4
  MaxPatches = 1
  MaxCrashes = 1
CHECK_DEADLOCK FALSE
INVARIANTS TypeOK RunsOnce NoOverlap NextFollowsRule
PROPERTIES StopsOnFail DueMovesOn
