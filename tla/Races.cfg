SPECIFICATION Spec
CONSTANTS
  Users = {u1, u2}
  Codes = {k1}
  Urls = {a, b}
  Nil = Nil
  Clients = {c1, c2}
  MaxRequests = 4
  MaxFaults = 1
  MaxInt = 1
SYMMETRY Symmetry
INVARIANTS
  IInv
  TypeOK
  CountsBounded
  OwnersAgree
  SuccessIsTheOwners
  DeletedOnce
PROPERTY
  OnlyOwnersChangeLinks
