SPECIFICATION MCSpec
CONSTANTS
  Keys = {k1, k2}
  Sessions = {s1, s2}
  Root = s1
  Handlers = {h1, h2}
  SourceTurns = {t1}
  None = None
  b1 = b1
  b2 = b2
  p1 = p1
  p2 = p2
  r1 = r1
  r2 = r2
  r3 = r3
  r4 = r4
  NoBuild = NoBuild
  Builds = {b1, b2}
  People = {p1, p2}
  Refs = {r1, r2, r3, r4}
  Facts <- MCFacts
  Role <- MCRole
  Cards <- MCCards
  Hits <- MCHits
  TokenBudget = 2
  FactLimit = 1
INVARIANTS
  RecordFollowsAttempt
  TurnsDense
  AnswersGrounded
PROPERTIES
  ImplementsLedger
SYMMETRY Symmetry
CHECK_DEADLOCK FALSE
