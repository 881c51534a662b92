\* Email codes only: two requests, three challenges, two windows.
SPECIFICATION Spec
CONSTANTS
  Users = {u1}
  u1 = u1
  Requests = {r1, r2}
  r1 = r1
  r2 = r2
  Nobody = Nobody
  LoginMethods = {"EMAIL_OTP"}
  EnrollMethods = {}
  LoginTtl = 2
  EnrollmentTtl = 3
  Cooldown = 1
  MaxAttempts = 2
  MaxIds = 3
  MaxTime = 4
SYMMETRY Symmetry
INVARIANTS
  TriesBounded
PROPERTIES
  LockoutHolds
  CooldownKept
