SPECIFICATION MCSpec
CONSTANTS
  theAccount = a
  theQuery = q
  theMerchant = m
  theRange = r
  Accounts = {a}
  Groups = {}
  Tags = {t}
  Merchants = {m}
  Queries = {q}
  Ranges = {r}
  FirstAddresses <- MCFirst
  None = None
  LastPage = 1
  MaxEdits = 0
  MaxFailures = 0
  MaxActs = 3
INVARIANT PageFollowsAddress
CHECK_DEADLOCK FALSE
