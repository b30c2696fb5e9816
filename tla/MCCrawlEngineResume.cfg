SPECIFICATION Spec
CONSTANTS
  u = u
  f = f
  g = g
  d = d
  e = e
  o1 = o1
  o2 = o2
  NoOrg = NoOrg
  NoNode = NoNode
  Nodes = {u, f, g, d}
  Orgs = {o1, o2}
  Kind <- SharedKind
  Links <- SharedLinks
  Priority <- SharedPriority
  Org <- SharedOrg
  Twins <- SharedTwins
  Seeds = {u, f, g}
  Synthetic = {u}
  FormNodes = {}
  FetchResults = {"page", "empty", "transient"}
  Deciders = {a1}
  Extractors = {b1}
  MayRaise = TRUE
  MaxAttempts = 1
  MaxStarts = 2
INVARIANTS NothingStranded RowsAgree NoLostChild CompletedIsComplete
PROPERTIES SettledStays
CHECK_DEADLOCK FALSE
