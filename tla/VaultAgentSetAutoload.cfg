SPECIFICATION Spec
CONSTANTS
  Client = {c1}
  Fingerprint = {k1}
  Comment = {"a"}
  Lifetime = {}
  Ops = {"setAutoload", "unlock"}
  HasRecovery = FALSE
  MaxTime = 1
  NoIdentity = NoIdentity
  NoClient = NoClient
PROPERTY SetAutoloadPersists
