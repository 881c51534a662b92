\* With and without a second factor, deletions against answers: every request ends.
SPECIFICATION AccountFairSpec
CONSTANTS
  Users = {u1}
  u1 = u1
  Requests = {r1, r2}
  r1 = r1
  r2 = r2
  Nobody = Nobody
  LoginMethods = {"EMAIL_OTP", "TOTP"}
  EnrollMethods = {"TOTP"}
  InitialMethods = {"NONE", "EMAIL_OTP", "TOTP"}
  Targets = {"NONE", "EMAIL_OTP"}
  LoginTtl = 2
  EnrollmentTtl = 2
  Cooldown = 1
  MaxAttempts = 1
  MaxIds = 2
  MaxTime = 1
PROPERTIES
  EveryTaskEnds
\* The only account may be deleted and the clock may end: then nothing is left to do.
CHECK_DEADLOCK FALSE
