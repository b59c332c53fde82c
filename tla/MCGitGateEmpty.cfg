SPECIFICATION FairSpec
CONSTANTS
  Agents = {a1}
  Connections = 1
  MaxDisturbances = 1
  None = None
PROPERTY AttestedGetCredentials
