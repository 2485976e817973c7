SPECIFICATION Spec

CONSTANTS
  m1 = m1
  Band = {m1}
  Rate = {4, 6, 9}
  Burst = {1, 2}
  Size = {1, 2, 3}
  Flags = {{"KBPS"}, {"KBPS", "BURST"}, {"PKTPS"}, {"BURST"}}
  Milli = 3
  Interval = 3
  MaxWindow = 5

INVARIANTS TypeOK WindowBounded
PROPERTY Progress
