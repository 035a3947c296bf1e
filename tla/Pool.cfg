\* Two requests and the janitor share two connections, with Create's look-up as a
\* second call of one request.  No symmetry: the run checks liveness.
SPECIFICATION FairSpec
CONSTANTS
  Requests = {r1, r2}
  Janitors = {j1}
  Conns = {c1, c2}
  Free = Free
  Abandoned = Abandoned
INVARIANTS
  NoHoldAndWait
  IInv
PROPERTIES
  CallsServed
