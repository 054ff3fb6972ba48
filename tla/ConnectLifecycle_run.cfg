SPECIFICATION Spec
CONSTANTS
  a = a
  b = b
  Resolver = Resolver
  Others <- TwoRoutes
  Platforms <- BothPlatforms
  maxAttempts = 2
  MaxFail = 1
CHECK_DEADLOCK FALSE
INVARIANT TypeOK
INVARIANT ExactWithoutFailures
INVARIANT ResolverReachable
INVARIANT ProtectionOutlivesTunnel
PROPERTY ShutdownCompletes
