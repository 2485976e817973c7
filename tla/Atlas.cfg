SPECIFICATION FairSpec
CONSTANTS
  None = None
  a1 = a1
  a2 = a2
  b = b
  l = l
  f1 = f1
  f2 = f2
  V <- MCV
  Sw <- MCSw
  dpOf <- MCdpOf
  FirstPort <- MCFirstPort
  Near <- MCNear
  Flow = {f1, f2}
  Dst <- MCDst
  Prio <- MCPrio
  RECALCULATION_LEVEL = 1
  EXP_MSG_THRESHOLD = 2
  MaxFlows = 2
INVARIANTS
  TypeOK
  RoutesAreLive
  LinksTouchSwitches
  RequestersAreRemote
PROPERTIES
  OnlyTimeoutsForget
  RoutesConverge
