SPECIFICATION SerialSpec
CONSTANTS
  Users = {u1, u2}
  Codes = {k1, k2}
  Urls = {a, b}
  Nil = Nil
  Clients = {c1, c2}
  MaxRequests = 4
  MaxFaults = 0
  MaxInt = 9
SYMMETRY Symmetry
INVARIANTS
  SerialInv
  NoVisitLost
  DeletedIsGone
  RedirectIsCurrent
  ForbiddenIsForeign
PROPERTY
  RowCountGrows
  ServesLinks
