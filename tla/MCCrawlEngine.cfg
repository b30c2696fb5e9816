SPECIFICATION FairSpec
CONSTANTS
  u = u
  f = f
  g = g
  d = d
  e = e
  o1 = o1
  o2 = o2
  NoOrg = NoOrg
  NoNode = NoNode
  Nodes = {u, f, d, e}
  Orgs = {o1}
  Kind <- SmallKind
  Links <- SmallLinks
  Priority <- SmallPriority
  Org <- SmallOrg
  Twins <- SmallTwins
  Seeds = {u}
  Synthetic = {}
  FormNodes = {}
  FetchResults = {"page", "transient"}
  Deciders = {a1}
  Extractors = {b1, b2}
  MayRaise = TRUE
  MaxAttempts = 1
  MaxStarts = 1
INVARIANTS HeldOnce QuietAtExit DoneDetailSaved
CHECK_DEADLOCK FALSE
PROPERTIES RunEnds
