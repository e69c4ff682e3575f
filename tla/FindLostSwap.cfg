SPECIFICATION Spec
CONSTANTS
  Turns = {1, 2}
  Kinds = {"quote"}
  c1 = c1
  c2 = c2
  c3 = c3
  o1 = o1
  s1 = s1
  s2 = s2
  k1 = k1
  k2 = k2
  Cycles = {c1, c2}
  TurnOf <- OneEach
  Operators = {}
  Sellers = {s1}
  Ticks = {}
  MaxVersions = 1
  MaxFaults = 0
INVARIANT ConflictIsHarmless
CHECK_DEADLOCK FALSE
