SPECIFICATION SteadySpec
CONSTANTS
  Rings = {"telem"}
  N = 3
  EntrySize = 1
  r1 = r1
  r2 = r2
  Record <- MCRecord
  None = None
  Torn = Torn
  Outside = Outside
  PushesPerTask = 2
INVARIANTS
  PopsARecord
