SPECIFICATION BothSpec
CONSTANTS
  Client = {c1, c2}
  Fingerprint = {k1}
  Comment = {"a"}
  Lifetime = {1}
  Ops = {"list", "sign", "add", "remove", "removeAll", "setAutoload", "sessionLoad", "lock", "unlockRecovery"}
  HasRecovery = TRUE
  MaxTime = 3
  NoIdentity = NoIdentity
  NoClient = NoClient
  Key = {k2, k3}
  Passphrase = {p1, p2}
  NoVerifier = NoVerifier
SYMMETRY ClientSymmetry
PROPERTIES RequestsAreAtomic FirstLockDecides BothKeepLockPromise
