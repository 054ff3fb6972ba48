SPECIFICATION Spec
CONSTANTS
  a = a
  b = b
  Resolver = Resolver
  Others <- TwoRoutes
  Platforms <- OnLinux
  maxAttempts = 2
  MaxFail = 1
CHECK_DEADLOCK FALSE
INVARIANT AppliedIsExact
