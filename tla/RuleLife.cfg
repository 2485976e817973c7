SPECIFICATION LifeSpec
CONSTANTS
  t1 = t1  t2 = t2  p1 = p1  p2 = p2
  Trans = {t1, t2}
  portOf <- TwoPorts
  FirstPort = p1
  Outcome = {"HAS_PATH", "LEGACY"}
  Modulus = 8
  Idle = 1
  Hard = 2
  MaxPriority = 3
  MaxRecords = 2
  MaxQueue = 2
INVARIANTS NewestRuleWins
PROPERTY Forgotten
CHECK_DEADLOCK FALSE
