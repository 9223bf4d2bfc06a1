SPECIFICATION Spec
CONSTANTS
  alice = alice
  bob = bob
  r1 = r1
  r2 = r2
  Requests = {r1}
  Users = {alice}
  Profiles = {"first"}
  NoUser = NoUser
  NoToken = NoToken
  NoSub = NoSub
  StaffOnDuty = TRUE
  Overlapping = FALSE
  MaxSignedIn = 1
  MaxResets = 1
  MaxVerifies = 1
  MaxSubs = 2
  MaxRestarts = 0
  MaxFailures = 1
INVARIANTS
  SpentTokensStick
  ResetTokenIsSingleUse
  KycMatchesASubmission
CHECK_DEADLOCK FALSE
