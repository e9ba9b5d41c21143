SPECIFICATION Spec
CONSTANTS
  u1 = u1
  u2 = u2
  nobody = nobody
  r1 = r1
  r2 = r2
  r3 = r3
  Users <- MCUsers
  Ids <- MCIds
  Logins <- MCLogins
  Requests = {r1, r2, r3}
  NoRequest = NoRequest
INVARIANTS
  RowsAccountedFor
  ListedTwiceOnlyIfStoredTwice
PROPERTIES
  ConfirmedIsListed
CHECK_DEADLOCK FALSE
