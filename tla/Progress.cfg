SPECIFICATION ProgressSpec
CONSTANTS
  Client = {c1, c2}
  Fingerprint = {k1}
  Comment = {"a"}
  Lifetime = {}
  Ops = {"list", "sign", "remove", "lock", "unlock", "unlockRecovery"}
  HasRecovery = FALSE
  VaultMaxTime = 1
  NoIdentity = NoIdentity
  NoClient = NoClient
  Cli = {t1}
  Proc = {d1, d2}
  Mortal = {d1}
  Steady = {d2}
  Timeouts = TRUE
  ByHand = FALSE
  None = None
  Attempt = {a1, a2}
  Host = {h1}
  NoHost = NoHost
  MaxChecks = 1
  LockoutFailures = 2
  Lockout = 2
  MaxTime = 3
PROPERTIES CallsAnswered CommandsReturn TerminatedEnds AttemptsAnswered
CHECK_DEADLOCK FALSE
