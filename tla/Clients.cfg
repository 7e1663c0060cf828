SPECIFICATION Spec
CONSTANTS
  Client = {c1, c2}
  Key = {k1, k2}
  Vault = {v1, v2}
  NoVault = NoVault
  None = None
  MaxCommands = 2
  MaxEvents = 1
  Proc = {p1, p2}
  Torn = Torn
  Base = 3
  MaxField = 2
  MaxBody = 7
SYMMETRY Symmetry
INVARIANTS EditKeepsKeys ReloadDoesItsPart VerbsKeepTheirWord VaultCanBeOpened PayloadsAgree
PROPERTIES CreateKeepsItsWord AsksWhatAgentsDo
CHECK_DEADLOCK FALSE
