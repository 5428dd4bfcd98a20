SPECIFICATION FairSpec
CONSTANTS
  Clients = {"a", "b"}
  Keys = {"key", "url"}
  Values = {"a", "b", "daemon", "settings"}
  Unset = Unset
  Null = Null
  ClientEnv <- MCClientEnv
  Ambient <- MCAmbient
  Settings <- MCSettings
  Policies <- MCPolicies
  Versions <- MCVersions
  MaxDispatches = 2
  MaxRestarts = 1
  MaxConnects = 2
INVARIANT OwnProvider
INVARIANT AckTruthful
INVARIANT SessionRetained
PROPERTY Resolved
CHECK_DEADLOCK FALSE
