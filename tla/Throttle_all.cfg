\* Requests of two users behind one address, one at a time and overlapping.
SPECIFICATION MCSpec
CONSTANTS
  r1 = r1  r2 = r2  u1 = u1  u2 = u2  ip = ip
  Requests = {r1, r2}
  Users = {u1, u2}
  Addresses = {ip}
  Anonymous = Anonymous
  Rate <- MCRate
  Window <- MCWindow
  Routes <- AllRoutes
  MaxTime = 4
  MaxOverlapping = 3
  MaxOverlappingTime = 2
SYMMETRY MCSymmetry
INVARIANTS TypeOK SerialRatesKept
PROPERTY NoFalseRefusal
