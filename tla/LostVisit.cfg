SPECIFICATION Spec
CONSTANTS
  Users = {u1}
  Codes = {k1}
  Urls = {a, b}
  Nil = Nil
  Clients = {c1, c2}
  MaxRequests = 4
  MaxFaults = 0
  MaxInt = 9
INVARIANT
  NoVisitLost
