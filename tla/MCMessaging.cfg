SPECIFICATION FairSpec
CONSTANTS
  u1 = u1
  u2 = u2
  r1 = r1
  r2 = r2
  r3 = r3
  Users <- MCUsers
  Messages <- MCMessages
  Requests = {r1, r2, r3}
  NoRequest = NoRequest
INVARIANTS
  ReadIsAccountedFor
PROPERTIES
  RepeatedOnlyIfOverlap
  ImplementsMailbox
  DialogClosesUnlessLost
CHECK_DEADLOCK FALSE
