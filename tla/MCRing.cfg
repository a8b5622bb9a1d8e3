SPECIFICATION Spec
CONSTANTS
  Rings = {"ascii", "telem"}
  N = 4
  EntrySize = 2
  r1 = r1
  r2 = r2
  Record <- MCRecord
  None = None
  Torn = Torn
  Outside = Outside
  PushesPerTask = 2
SYMMETRY MCSymmetry
INVARIANTS
  TypeOK
  RecordsIntact
