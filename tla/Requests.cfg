SPECIFICATION Spec
CONSTANTS
  Turns = {1, 2}
  Kinds = {"complaint", "order", "warranty"}
  c1 = c1
  c2 = c2
  c3 = c3
  o1 = o1
  s1 = s1
  s2 = s2
  k1 = k1
  k2 = k2
  Cycles = {c1, c2, c3}
  TurnOf <- TwoThenOne
  Operators = {}
  Sellers = {}
  Ticks = {}
  MaxVersions = 0
  MaxFaults = 1
SYMMETRY AlikeCycles
INVARIANTS RequestTypeOK OneOpenEscalation PlanIsShared RequestsAreAccountedFor
PROPERTY KeepsRequestContract
CHECK_DEADLOCK FALSE
