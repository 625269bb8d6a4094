SPECIFICATION EmbedSpec
CONSTANTS
  x = x
  y = y
  s1 = s1
  s2 = s2
  p1 = p1
  p2 = p2
  p3 = p3
  Nothing = Nothing
  Proc <- MCProc
  Socket <- MCSocket
  Plug <- MCPlug
  Owner <- MCOwner
  Query <- MCQuery
  MaxEmbeds = 2
INVARIANTS
  ParentsAgree
  AbortedByLonePlug
PROPERTIES
  AnsweredButInCircle
CHECK_DEADLOCK FALSE
