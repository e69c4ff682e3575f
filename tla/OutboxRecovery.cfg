CONSTANTS
  Rows = {1, 2}
  OperatorRows = {1}
  InvalidRows = {1}
  AllowedRows = {1, 2}
  Ticks = {w1, d1}
  DryTicks = {d1}
  SlowTicks = {}
  Calls = {c1}
  Operators = {o1}
  BatchSize = 1
  MaxAttempts = 2
  MaxFaults = 1
  MaxControls = 1
SPECIFICATION Spec
INVARIANTS OneSenderPerRow NoUnexplainedDuplicate BoundedSends RevokedIsFinal
PROPERTIES KeepsContract TerminalIsFinal
