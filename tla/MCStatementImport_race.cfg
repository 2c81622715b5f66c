\* Two statements, of one bank account or of two of the same credentials.
SPECIFICATION MCSpec
CONSTANTS
  Imports = {i1, i2}
  Numbers = {n1, n2}
  Txids = {t1}
  Zero = {}
  Creds = {c1}
  None = None
  MaxMishaps = 1
SYMMETRY ImportSymmetry
INVARIANTS
  Support ImportedKept DisabledStay OneAccountPerNumber StuckOnlyByCopies NoneLeftBehind CredsServe
CHECK_DEADLOCK FALSE
