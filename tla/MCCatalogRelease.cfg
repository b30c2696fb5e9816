SPECIFICATION Spec
CONSTANTS
  b1 = b1
  b2 = b2
  NoBuild = NoBuild
  Builds = {b1, b2}
  Legacy = {b1}
  NumBatches = 1
  MaxFaults = 1
INVARIANTS ReleasedIsCurrent CheckpointsTruthful DivergenceRecorded
PROPERTIES ActiveUntouched
