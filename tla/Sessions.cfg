SPECIFICATION Spec
CONSTANTS
  Users = {u1, u2}
  Passwords = {p, q}
  Tokens = {t1, t2, t3}
  Clients = {c1, c2}
  Nil = Nil
  MaxRequests = 4
  MaxFaults = 1
SYMMETRY Symmetry
INVARIANTS
  SessionInv
  SessionsAreOwn
  ReplacedIsRefused
  NeverLockedOut
  RegisteredOnce
PROPERTY
  ReplacedForGood
CHECK_DEADLOCK FALSE
