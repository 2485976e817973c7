SPECIFICATION Spec
CONSTANTS
  None = None
  x = x
  y = y
  z = z
  uni = uni
  bro = bro
  leg = leg
  Dev = {x, y}
  Legacy = {z}
  Pkt = {uni, bro, leg}
  Src <- MCSrc
  Dst <- MCDst
  Broadcast = Broadcast
  m_timeslot = 1
  m_max_delay = 1
  PERIODIC_STATS_INTERVAL = 1
  FIRST_CHECK = 2
  NsPerTick = 1000000
  MaxNow = 4
INVARIANTS TypeOK NoEmptyFlow NothingOutlives
PROPERTIES ReportsAreFresh
