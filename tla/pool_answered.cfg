SPECIFICATION FairSpec
CONSTANTS
  r1 = r1
  r2 = r2
  NoSession = NoSession
  N = 2
  Requests = {r1, r2}
  Sessions = {r1, r2}
  SessionOf <- OwnSession
  UsageTtl = 1
  StickyTtl = 1
  LimitFallback = 1
  AuthCooldown = 1
  UsageCooldown = 1
  TransientCooldown = 1
  MaxSessions = 1
  UsageReplies <- FullReport
  HeaderReplies <- FullHeaders
  ErrorResets = {}
  RetryAfters = {}
  AuthMayFail = {}
  MaxCalls = 1
  MaxTime = 0
PROPERTIES Answered
CHECK_DEADLOCK FALSE
