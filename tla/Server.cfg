SPECIFICATION ServerSpec
CONSTANTS
  Cli = {c1}
  Proc = {d1, d2}
  Mortal = {d1}
  Timeouts = TRUE
  None = None
  Conn = {s1}
  Grace = 2
  Over = 1
  Key = {k1, k2}
  Attempts = 3
  NoKey = NoKey
INVARIANTS OneIdentity CommandsAgreeWithServers ShellsEnd LogIsTrue
PROPERTIES AcceptingCloses DisconnectEndsSession CloseReturns
CHECK_DEADLOCK FALSE
