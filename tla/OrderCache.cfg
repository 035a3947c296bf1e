\* One order, two requests and two goroutines: a Set that carries a pending order
\* races the cancellation, its Delete, the janitor, the expiry, and a Redis that
\* comes back with an old snapshot.
SPECIFICATION CrashSpec
CONSTANTS
  OrderIds = {o1}
  Requests = {r1, r2}
  Jobs = {j1, j2}
  Nothing = Nothing
  TTL = 2
  JobTimeout = 0
  QueryTimeout = 1
SYMMETRY Symmetry
INVARIANTS
  CacheTellsThePast
  StaleBounded
  CancelledOnce
  CrashIInv
