SPECIFICATION Spec
CONSTANTS
  A = A
  B = B
  n1 = n1
  n2 = n2
  Unknown = Unknown
  Switch = {A, B}
  Neighbours = {n1, n2}
  FirstCheck = 2
  Interval = 4
  Gap = 1
  Youth = 3
  MaxInFlight = 3
INVARIANTS ChangesAreTold
PROPERTY GraphConverges
