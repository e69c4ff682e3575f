SPECIFICATION Spec
CONSTANTS
  Turns = {1}
  Kinds = {"complaint", "quote"}
  c1 = c1
  c2 = c2
  c3 = c3
  o1 = o1
  s1 = s1
  s2 = s2
  k1 = k1
  k2 = k2
  Cycles = {c1}
  TurnOf <- AllOne
  Operators = {o1}
  Sellers = {s1, s2}
  Ticks = {k1, k2}
  MaxVersions = 2
  MaxFaults = 1
SYMMETRY AlikeDesks
INVARIANTS OneCurrentQuote FollowupRunsOnce
PROPERTY KeepsRequestContract
CHECK_DEADLOCK FALSE
