SPECIFICATION Spec
CONSTANTS
  r1 = r1
  r2 = r2
  NoSession = NoSession
  N = 1
  Requests = {r1, r2}
  Sessions = {r1, r2}
  SessionOf <- OwnSession
  UsageTtl = 1
  StickyTtl = 2
  LimitFallback = 2
  AuthCooldown = 1
  UsageCooldown = 1
  TransientCooldown = 1
  MaxSessions = 2
  UsageReplies = {}
  HeaderReplies = {}
  ErrorResets = {5}
  RetryAfters = {}
  AuthMayFail = {}
  MaxCalls = 1
  MaxTime = 1
PROPERTIES LimitNeverShortened
CHECK_DEADLOCK FALSE
