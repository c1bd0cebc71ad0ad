SPECIFICATION Spec
CONSTANTS
  Users = {u1}
  Passwords = {p}
  Tokens = {t1, t2, t3}
  Clients = {c1, c2}
  Nil = Nil
  MaxRequests = 3
  MaxFaults = 0
CHECK_DEADLOCK FALSE
INVARIANT
  ExchangedOnce
