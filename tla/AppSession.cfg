SPECIFICATION Spec
CONSTANTS
  blind1 = blind1
  blind2 = blind2
  friend1 = friend1
  NoUser = NoUser
  Users = {blind1, blind2, friend1}
  BlindUsers = {blind1, blind2}
INVARIANTS
  NoSessionOnlyIfRestored
  StoredTogether
  MenuIsForBlindUser
  FragmentMatchesPermission
