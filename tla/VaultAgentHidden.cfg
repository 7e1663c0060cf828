SPECIFICATION CSpec
CONSTANTS
  Client = {c1}
  Fingerprint = {k1}
  Comment = {"a"}
  Lifetime = {}
  Ops = {"sign", "sessionUnload", "unlock"}
  HasRecovery = FALSE
  MaxTime = 1
  NoIdentity = NoIdentity
  NoClient = NoClient
INVARIANT HiddenNotSigned
