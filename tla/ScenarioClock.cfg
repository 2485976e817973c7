SPECIFICATION ClockSpec
CONSTANTS
  a1 = a1  a2 = a2  v1 = v1  v2 = v2
  Service = {"voice", "data"}
  ServicePrio <- MC_ServicePrio
  W <- MC_W
  TechCost <- MC_TechCost
  Gama = 1
  Value = {1, 2, 3}
  Address = {a1, a2}
  Vertex = {v1, v2}
  Scenario <- AnyClock
  Second = 2
  MaxFlows = 2
  MaxTime = 6
INVARIANTS SettingsAreLatest
