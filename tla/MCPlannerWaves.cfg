SPECIFICATION WavesSpec
CONSTANTS
  Graphs <- MCGraphs
  PortSets <- MCPortSets
INVARIANTS
  RunsWhatTheGraphAsks
CHECK_DEADLOCK FALSE
