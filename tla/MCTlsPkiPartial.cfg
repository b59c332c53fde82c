SPECIFICATION Spec
CONSTANT MaxDisturbances = 1
INVARIANT ActiveMeansComplete
