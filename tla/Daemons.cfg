SPECIFICATION DaemonsSpec
CONSTANTS
  Attempt = {c1, c2}
  Host = {d1, d2}
  NoHost = NoHost
  MaxChecks = 1
  LockoutFailures = 2
  Lockout = 2
  MaxTime = 3
  MaxLog = 4
  Cli = {c1, c2}
  Proc = {d1, d2}
  Mortal = {d1, d2}
  Steady = {}
  Timeouts = TRUE
  ByHand = TRUE
  None = None
CONSTRAINT PartBound
SYMMETRY Symmetry
INVARIANTS ChecksCapped OvershootBounded LockoutFollowsHistory StartReports QuietMeansConsistent
