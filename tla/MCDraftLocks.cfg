CONSTANTS
  Users = {u1, u2}
  Requests = {r1, r2, r3, r4}
  Ttl = 2
  MaxClock = 4
  MaxResets = 1
SPECIFICATION Spec
SYMMETRY Symmetry
INVARIANT GrantedIsStored
CHECK_DEADLOCK FALSE
