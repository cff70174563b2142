SPECIFICATION FairSpec
CONSTANTS
  c1 = c1
  c2 = c2
  s1 = s1
  s2 = s2
  u1 = u1
  u2 = u2
  Depth = 3
  Item = {c1, c2, s1, s2, u1, u2}
  Level <- Table
  Trees <- Hierarchies
  Fault = {"db", "session"}
  MaxPicks = 5
  MaxMoves = 1
  Root = Root
  Blank = Blank
  Failed = Failed
  Nothing = Nothing
INVARIANTS
  TypeOK
  ShownPathExists
PROPERTIES
  OptionsFollow
CHECK_DEADLOCK FALSE
