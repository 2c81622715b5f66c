SPECIFICATION MCSpec
CONSTANTS
  theAccount = a
  theQuery = q
  theMerchant = m
  theRange = r
  Accounts = {a, g}
  Groups = {g}
  Tags = {}
  Merchants = {m}
  Queries = {q}
  Ranges = {r}
  FirstAddresses <- MCFirst
  None = None
  LastPage = 1
  MaxEdits = 1
  MaxFailures = 1
  MaxActs = 3
INVARIANT TypeOK
INVARIANT NestingBounded
INVARIANT SpinnerEnds
INVARIANT PlainFollows
INVARIANT ListFollowsIfWaited
PROPERTY ReadingKeepsHistory
CHECK_DEADLOCK FALSE
