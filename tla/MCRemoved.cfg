SPECIFICATION Spec
CONSTANTS
  Agents = {a1}
  States = {s1, s2}
  None = None
  MaxAttempts = 2
  MaxDisturbances = 3
INVARIANT RemovedStaysRemoved
