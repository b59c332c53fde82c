SPECIFICATION FairSpec
CONSTANTS
  Agents = {a1, a2}
  Connections = 2
  MaxDisturbances = 1
  None = None
INVARIANTS TypeOK RevocationBites CredentialsMatch
PROPERTY CredentialsArrive
