SPECIFICATION Spec
CONSTANTS
  Keys = {k1}
  Sessions = {s1}
  Root = s1
  Handlers = {h1, h2}
  SourceTurns = {t1}
  None = None
PROPERTIES
  TerminalStays
SYMMETRY Symmetry
CHECK_DEADLOCK FALSE
