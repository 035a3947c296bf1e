\* Two services, each with its janitor, and one client that cancels, confirms and
\* orders at the same time.  A round takes one of two orders that may be stale.  No
\* symmetry: the run checks liveness.
SPECIFICATION FairSpec
CONSTANTS
  p1 = p1
  p2 = p2
  Products = {p1}
  OrderIds = {o1, o2}
  Users = {u1}
  Keys = {k1, k2}
  Requests = {r1}
  Janitors = {j1, j2}
  NoOrder = NoOrder
  None = None
  Payloads <- JanitorPayloads
  StockLevels = {2}
  CancelPendingInterval = 0
  BatchLimit = 1
  MaxClock = 1
INVARIANTS
  BatchStaysPending
  IInv
  CallsInv
PROPERTIES
  ImplementsInventory
  ImplementsOrderLife
  StaleOrdersSettle
