\* Two clients and two emails; access tokens live a tick, refresh tokens two.
SPECIFICATION Spec
CONSTANTS
  UserIds = {u1, u2, u3}
  Emails = {e1, e2}
  Clients = {c1, c2}
  NoUser = NoUser
  NoToken = NoToken
  AccessTTL = 1
  RefreshTTL = 2
  MaxClock = 3
SYMMETRY Symmetry
INVARIANTS
  TypeOK
  ServedAsOneself
PROPERTIES
  AccessShortLived
