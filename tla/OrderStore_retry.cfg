\* A client repeats a Create that has succeeded, with the same Idempotency-Key.
SPECIFICATION Spec
CONSTANTS
  p1 = p1
  p2 = p2
  Products = {p1, p2}
  OrderIds = {o1, o2}
  Users = {u1}
  Keys = {k1, k2}
  Requests = {r1, r2}
  Janitors = {j1}
  NoOrder = NoOrder
  None = None
  Payloads <- ContendPayloads
  StockLevels = {1, 3}
  CancelPendingInterval = 0
  BatchLimit = 1
  MaxClock = 1
PROPERTIES
  RetryIsNotRefused
