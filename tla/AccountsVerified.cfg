SPECIFICATION Spec
CONSTANTS
  u1 = u1
  u2 = u2
  p1 = p1
  p2 = p2
  r1 = r1
  r2 = r2
  r3 = r3
  Users = {u1, u2}
  Passwords = {p1, p2}
  Codes = {100000, 999999}
  Requests = {r1, r2, r3}

INVARIANT VerifiedMeansVerified
CHECK_DEADLOCK FALSE
