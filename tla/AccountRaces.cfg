SPECIFICATION FairSpec
CONSTANTS
  alice = alice
  bob = bob
  r1 = r1
  r2 = r2
  Requests = {r1, r2}
  Users = {alice}
  Profiles = {"first"}
  NoUser = NoUser
  NoToken = NoToken
  NoSub = NoSub
  StaffOnDuty = TRUE
  Overlapping = TRUE
  MaxSignedIn = 1
  MaxResets = 0
  MaxVerifies = 0
  MaxSubs = 1
  MaxRestarts = 1
  MaxFailures = 0
INVARIANTS
  AdminIsListed
  KycIsBacked
PROPERTIES
  DisabledLosesAccess
CHECK_DEADLOCK FALSE
