\* One client followed, two of its requests at a time, perhaps with other items, and
\* another client of the same user; stock for one of them or for both.  No symmetry:
\* the run checks liveness.
SPECIFICATION FairSpec
CONSTANTS
  u1 = u1
  k1 = k1
  Products = {p1}
  OrderIds = {o1, o2}
  Users = {u1}
  Keys = {k1, k2}
  NoOrder = NoOrder
  None = None
  Baskets <- MCBaskets
  StockLevels = {2}
  CancelPendingInterval = 0
  BatchLimit = 1
  MaxClock = 1
  Requests = {r1, r2}
  Intents <- MCIntents
INVARIANTS
  TypeOK
  StockConserved
  RepliesAgree
  NoSilentOrder
  AnswersInv
PROPERTIES
  ImplementsOrderLife
  RetriesSettle
