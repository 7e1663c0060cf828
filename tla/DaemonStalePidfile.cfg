SPECIFICATION Spec
CONSTANTS
  Cli = {c1}
  Proc = {d1, d2}
  Mortal = {d1, d2}
  Steady = {}
  Timeouts = FALSE
  ByHand = FALSE
  None = None
INVARIANT ReloadStarts
