\* One user whose role changes, two requests and two goroutines; a query, a goroutine
\* and a request take up to a tick each, an entry lives two.
SPECIFICATION Spec
CONSTANTS
  Users = {u1}
  Requests = {r1, r2}
  Jobs = {j1, j2}
  Nothing = Nothing
  TTL = 2
  JobTimeout = 1
  QueryTimeout = 1
  RequestTimeout = 1
SYMMETRY Symmetry
INVARIANTS
  RoleIsRecent
  IInv
PROPERTIES
  ServedIsAllowed
  RefusedIsJustified
