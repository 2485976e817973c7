SPECIFICATION Spec
CONSTANTS
  p1 = p1
  p2 = p2
  NoMeter = NoMeter
  Packet <- MCPacket
  Match <- MCMatch
  Priority = {1, 2}
  FlowMods <- MCFlowMods
  Meter = {m1}
  m1 = m1
  max_entries = 2
  MaxMods = 3
  MaxTime = 4
INVARIANTS
  ListsAgree
  HighestPriorityWins
  NoticedOnce
  NoDanglingRefs
PROPERTIES
  SweptClean
VIEW View
