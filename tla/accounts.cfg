SPECIFICATION Spec
CONSTANTS
  MH = MH
  UP = UP
  u1 = u1
  u2 = u2
  a1 = a1
  a2 = a2
  o1 = o1
  o2 = o2
  o3 = o3
  States = {MH, UP}
  Portal = bv
  Users = {u1, u2}
  UserName <- SameName
  AdminRequests = {a1, a2}
  SignIns = {o1, o2, o3}
  Targets <- SomeTargets
  OTP_TTL_SECONDS = 2
  OTP_RESEND_COOLDOWN_SECONDS = 1
  OTP_MAX_ATTEMPTS = 1
  MaxTime = 3
  MaxFaults = 1
  Scenes <- AllScenes
SYMMETRY Symmetry
INVARIANTS
  AccountsInv
  GroupsAreComplete
  
  FailsOnlyByFault
  LabelTellsToken
  LatestCodeCounts
  CodeSignsInOnce
  SpentPasswordIsDead
  NextSignInCarriesChange
PROPERTIES
  NeverWithoutAccess
CHECK_DEADLOCK FALSE
