\* Requests one after another on four transactions: two transfers.
SPECIFICATION SerialSpec
CONSTANTS
  MaxUpload = 3
  Txactions = {x1, x2, x3, x4}
  Requests = {r1, r2}
  None = None
  New = New
  Gone = Gone
  Purged = Purged
INVARIANTS
  LinksAreMutual
CHECK_DEADLOCK FALSE
