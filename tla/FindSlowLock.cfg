CONSTANTS
  Rows = {1}
  OperatorRows = {}
  InvalidRows = {}
  AllowedRows = {1}
  Ticks = {w1}
  DryTicks = {}
  SlowTicks = {w1}
  Calls = {c1}
  Operators = {}
  BatchSize = 1
  MaxAttempts = 2
  MaxFaults = 0
  MaxControls = 0
SPECIFICATION Spec
INVARIANT NoUnexplainedDuplicate
