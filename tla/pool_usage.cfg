SPECIFICATION Spec
CONSTANTS
  r1 = r1
  r2 = r2
  NoSession = NoSession
  N = 2
  Requests = {r1, r2}
  Sessions = {"session"}
  SessionOf <- SharedSession
  UsageTtl = 1
  StickyTtl = 1
  LimitFallback = 1
  AuthCooldown = 1
  UsageCooldown = 1
  TransientCooldown = 1
  MaxSessions = 1
  UsageReplies <- EndingReport
  HeaderReplies = {}
  ErrorResets = {2}
  RetryAfters = {}
  AuthMayFail = {1}
  MaxCalls = 1
  MaxTime = 1
SYMMETRY Swap
INVARIANTS NoFalseExhaustion OfferedWasUsable
PROPERTIES ImplementsRouting SessionMovesForCause
CHECK_DEADLOCK FALSE
