SPECIFICATION FairSpec
CONSTANTS
  Users = {u1}
  Codes = {k1, k2}
  Urls = {a}
  Nil = Nil
  Clients = {c1}
  MaxRequests = 5
  MaxFaults = 1
  MaxInt = 9
PROPERTY
  CountersReachPostgres
