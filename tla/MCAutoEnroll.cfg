SPECIFICATION Spec
CONSTANTS
  Agents = {a1, a2}
  States = {s1, s2}
  None = None
  MaxAttempts = 1
  MaxDisturbances = 2
SYMMETRY Symmetry
INVARIANTS TypeOK ReadyHaveReports
PROPERTY ImplementsTofu
