SPECIFICATION Spec
CONSTANTS
  Cli = {c1}
  Proc = {d1, d2}
  Mortal = {}
  Steady = {}
  Timeouts = FALSE
  ByHand = TRUE
  None = None
PROPERTY SocketRemovedOnlyStale
