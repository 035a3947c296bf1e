\* A query whose context ends while its rows are read.
SPECIFICATION CrashSpec
CONSTANTS
  OrderIds = {o1}
  Requests = {r1, r2}
  Jobs = {j1, j2}
  Nothing = Nothing
  TTL = 2
  JobTimeout = 1
  QueryTimeout = 1
PROPERTIES
  ShownWhole
