SPECIFICATION BlocksSpec
CONSTANTS
  PosSize = 1000
  Linked = Linked
  Graphs <- MCGraphs
  BlockLens = {1, 2, 3}
  RampUpdates <- MCRampUpdates
  TimeUpdates <- MCTimeUpdates
  MaxEvents = 2
INVARIANTS
  ModulatorsMixed
  ParametersOnTime
  OutputMixed
CHECK_DEADLOCK FALSE
