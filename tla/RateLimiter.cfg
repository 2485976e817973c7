SPECIFICATION LimiterSpec
CONSTANTS
  A = A  B = B  a1 = a1  a2 = a2  b1 = b1  x = x  y = y  f1 = f1  f2 = f2
  None = None
  V = {a1, a2, b1, x, y}
  dpOf <- MC_dpOf
  Flow = {f1, f2}
  og_bw <- MC_og_bw
  Prio <- MC_Prio
  Trans <- MC_Trans
  Paths <- MC_Paths
  max_C <- MC_max_C
  Avbw = {5}
  RECALCULATION_LEVEL = 3
  Vertex0 = x
  MaxFlows = 2
  MaxMeters = 3
INVARIANTS MeterIdsFresh RulesMeet
PROPERTIES MetersPrecedeRules
CHECK_DEADLOCK FALSE
