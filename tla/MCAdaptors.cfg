SPECIFICATION MCSpec
CONSTANTS
  Object = {a, b, c, d, e}
  Null = Null
  a = a
  b = b
  c = c
  d = d
  e = e
  Trees <- TwoTrees
  Look <- FiveLooks
  RoleTable <- Roles
  StateTable <- States
  Rules <- SomeRules
  Counts = {0, 2}
  Root = a
  window = window
  text = text
  link = link
  Datum = {window, text, link}
  Implemented <- Implementations
  Links = {link}
  Applications = {window}
  MaxLeases = 1
INVARIANTS
  DescriptionsHold
  WalksListInOrder
  ReferencesAdd
  NamedObjectsLive
  OfferedIsServed
  RulesMeanWhatTheySay
PROPERTIES
  WalkEnds
CHECK_DEADLOCK FALSE
