SPECIFICATION Spec
CONSTANTS
  Null = Null
  a = a
  b = b
  c = c
  Pairings = {a, b, c}
  PreviousOf <- MCPreviousOf
  Origin = a
  MaxHistory = 1
  Capacity = 8
  Spill = 1
  Reserve = 1
  MaxStops = 2
INVARIANT BadTargetFallsBack
