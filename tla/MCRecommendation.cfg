SPECIFICATION Spec
CONSTANTS
  b1 = b1
  b2 = b2
  p1 = p1
  p2 = p2
  p3 = p3
  A = A
  B = B
  U = U
  NoBuild = NoBuild
  NoOne = NoOne
  Unknown = Unknown
  Builds = {b1, b2}
  Flagged = {b1}
  Embeddable = {b1, b2}
  Professors = {p1, p2, p3}
  Facts <- MCFacts
  Payload <- MCPayload
  Steps <- MCSteps
  Limit = 2
  Window = 3
  PriorCap = 2
  MaxTurns = 3
INVARIANTS
  CardsPassFilters
  RelaxedOnlyFills
  MoreAreNew
