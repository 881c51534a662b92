\* Two logins with TOTP: nothing serialises the creation of challenges.
SPECIFICATION Spec
CONSTANTS
  Users = {u1}
  u1 = u1
  Requests = {r1, r2}
  r1 = r1
  r2 = r2
  Nobody = Nobody
  LoginMethods = {"TOTP"}
  EnrollMethods = {}
  LoginTtl = 2
  EnrollmentTtl = 3
  Cooldown = 1
  MaxAttempts = 2
  MaxIds = 3
  MaxTime = 2
SYMMETRY Symmetry
PROPERTIES
  LockoutHolds
