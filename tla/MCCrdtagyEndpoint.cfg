CONSTANTS
  c1 = c1
  c2 = c2
  Calls = {c1, c2}
  Bodies <- MCBodies
  Second = 2
  Agencies = {1, 2, 3, 4, 5}
  Outcomes <- SystemOutcomes
  Timeout <- MCTimeout
  MaxTime = 13
SYMMETRY Symmetry
SPECIFICATION Spec
INVARIANTS
  TypeOK
  AcceptedIsScored
