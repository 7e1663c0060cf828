SPECIFICATION GuardSpec
CONSTANTS
  Attempt = {a1, a2}
  Host = {h1}
  NoHost = NoHost
  MaxChecks = 1
  LockoutFailures = 1
  Lockout = 1
  MaxTime = 1
PROPERTY LockedOutUnchecked
