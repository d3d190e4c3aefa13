SPECIFICATION Spec
CONSTANTS
  Deployment = {1, 2, 3}
  Handler = {h1, h2}
  InitLabels <- MCLabels
  OwnStates = {"requires_attention"}
  LabelSets <- MCLabelSets
  MaxRequests = 3
  Dependencies <- MCDependencies
CHECK_DEADLOCK FALSE
INVARIANTS TypeOK NoCycles GraphMatchesLabels RollupCurrent
SYMMETRY Symmetry
