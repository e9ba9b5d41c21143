SPECIFICATION Spec
CONSTANTS
  MaxFriends = 2
  MaxApps = 3
  Packages = {p1, p2}
INVARIANTS
  CursorOnSpoken
  CrashOnlyUnprepared
  OnlyFirstFriend
CHECK_DEADLOCK FALSE
