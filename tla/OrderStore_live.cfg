\* Two clients that name two products in opposite orders, and a janitor.  No
\* symmetry: the run checks liveness.
SPECIFICATION FairSpec
CONSTANTS
  p1 = p1
  p2 = p2
  Products = {p1, p2}
  OrderIds = {o1}
  Users = {u1}
  Keys = {k1}
  Requests = {r1, r2}
  Janitors = {j1}
  NoOrder = NoOrder
  None = None
  Payloads <- CrossPayloads
  StockLevels = {1}
  CancelPendingInterval = 0
  BatchLimit = 1
  MaxClock = 1
PROPERTIES
  CallsAnswered
  StaleOrdersSettle
