SPECIFICATION CSpec
CONSTANTS
  Client = {c1, c2}
  Fingerprint = {k1}
  Comment = {"a"}
  Lifetime = {1}
  Ops = {"list", "sign", "add", "sessionUnload", "lock", "unlock"}
  HasRecovery = FALSE
  MaxTime = 3
  NoIdentity = NoIdentity
  NoClient = NoClient
SYMMETRY ClientSymmetry
INVARIANTS SessionSetsInStore AckedDurable ServesOnlyVisible ListFindsVisible
