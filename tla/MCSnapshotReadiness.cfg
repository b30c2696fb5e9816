SPECIFICATION Spec
CONSTANTS
  b1 = b1
  b2 = b2
  NoBuild = NoBuild
  Builds = {b1, b2}
  Healthy = {b1, b2}
  OrgCovered = {b1}
  Embeddable = {b1, b2}
  MaxAge = 3
  CheckTicks = 2
INVARIANTS
  ServedWasActive
PROPERTY
  SplitFailsClosed
