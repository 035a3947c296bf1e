\* Three requests; deadlock is checked, the end of the process is a step of its own.
SPECIFICATION Spec
CONSTANTS
  Requests = {r1, r2, r3}
INVARIANTS
  TypeOK
  CleanStop
PROPERTIES
  SignalExits
