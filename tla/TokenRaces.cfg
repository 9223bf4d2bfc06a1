SPECIFICATION Spec
CONSTANTS
  alice = alice
  bob = bob
  r1 = r1
  r2 = r2
  Requests = {r1, r2}
  Users = {alice, bob}
  Profiles = {"first"}
  NoUser = NoUser
  NoToken = NoToken
  NoSub = NoSub
  StaffOnDuty = FALSE
  Overlapping = TRUE
  MaxSignedIn = 1
  MaxResets = 1
  MaxVerifies = 1
  MaxSubs = 0
  MaxRestarts = 0
  MaxFailures = 0
SYMMETRY BothSymmetry
INVARIANTS
  TypeOK
  EmailIsBacked
  PasswordIsOwn
  UsedTokenTookEffect
CHECK_DEADLOCK FALSE
