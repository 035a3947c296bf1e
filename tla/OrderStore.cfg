\* Two clients and a janitor that may take both orders at once: scarce stock, a
\* payload that names a product twice, one key sent with two payloads at the same
\* time, retries, refusals, cancellations, confirmations.
SPECIFICATION Spec
CONSTANTS
  p1 = p1
  p2 = p2
  Products = {p1, p2}
  OrderIds = {o1, o2}
  Users = {u1}
  Keys = {k1, k2}
  Requests = {r1, r2}
  Janitors = {j1}
  NoOrder = NoOrder
  None = None
  Payloads <- ContendPayloads
  StockLevels = {2}
  CancelPendingInterval = 0
  BatchLimit = 2
  MaxClock = 1
SYMMETRY Symmetry
INVARIANTS
  TypeOK
  StockConserved
  LocksHeldByOpenTx
  OneOrderPerKey
  CheckedStockStays
  SuccessStands
  RefusalsJustified
PROPERTIES
  OrdersSettleOnce
