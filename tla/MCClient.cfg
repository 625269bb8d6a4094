INIT MCInit
NEXT MCNext
CONSTANTS
  a1 = a1
  a2 = a2
  a3 = a3
  a4 = a4
  top = top
  leaf = leaf
  l1 = l1
  l2 = l2
  c1 = c1
  c2 = c2
  d1 = d1
  d2 = d2
  Nil = Nil
  Absent = Absent
  Wrapper <- Wrappers
  MaxNested = 2
  Struct = {a1, a2, a3, a4}
  Path = {top, leaf}
  RootPath = top
  Updates <- Tree
  Events <- ObjectEvents
  MaxRefs = 1
  MaxStolen = 2
  MaxEvents = 1
  Entry <- Entries
  Topic <- Topics
  Callback = {c1, c2}
  Device = {d1, d2}
  MaxDepth = 2
SYMMETRY SameCallbacks
INVARIANTS
  FailuresAreOwn
  ClientCounts
  NothingUsedIsFreed
  ListsSurvive
  RunsItsCallbacks
CHECK_DEADLOCK FALSE
