SPECIFICATION Spec
CONSTANTS
  None = None
  main = main
  sub = sub
  Agents = {main, sub}
  Lower <- MCLower
  AccountPrefixes = {"anthropic1", "anthropic2"}
  AccountLike = {"anthropic0", "anthropic1", "anthropic2"}
  NativeModel <- MCNative
  AgentIds <- MCIds
  PickerAliases = {"haiku", "opus"}
  NativeDefault <- MCDefault
  Allowed <- MCAllowed
  Settings <- MCSettings
  StartSettings <- MCStart
  NativeClients = {1, 2}
  Policies = {"default", "custom"}
  Additions <- MCAdditions
  MaxRequests = 3
  MaxChanges = 1
INVARIANTS OneVoice FitsReceiver LookupsAgree
PROPERTIES ServedAsNamed
CHECK_DEADLOCK FALSE
