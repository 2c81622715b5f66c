\* Two overlapping requests on three transactions.
SPECIFICATION Spec
CONSTANTS
  MaxUpload = 1
  Txactions = {x1, x2, x3}
  Requests = {r1, r2}
  None = None
  New = New
  Gone = Gone
  Purged = Purged
SYMMETRY TransferSymmetry
INVARIANTS
  TypeOK
PROPERTIES
  CurrentCommitsHeal
CHECK_DEADLOCK FALSE
