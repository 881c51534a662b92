\* All methods: enrollment, logins, changes of method, deletion.
SPECIFICATION AccountSpec
CONSTANTS
  Users = {u1}
  u1 = u1
  Requests = {r1, r2}
  r1 = r1
  r2 = r2
  Nobody = Nobody
  LoginMethods = {"EMAIL_OTP", "TOTP", "WEBAUTHN"}
  EnrollMethods = {"TOTP", "WEBAUTHN"}
  InitialMethods = {"EMAIL_OTP", "TOTP", "WEBAUTHN"}
  Targets = {"EMAIL_OTP"}
  LoginTtl = 2
  EnrollmentTtl = 2
  Cooldown = 1
  MaxAttempts = 1
  MaxIds = 3
  MaxTime = 2
SYMMETRY Symmetry
INVARIANTS
  NothingLeftBehind
  MethodEquipped
PROPERTIES
  AcceptedWithCurrentMethod
  TotpStepsAdvance
  ChangeVerified
  KeysConfirmed
\* The only account may be deleted and the clock may end: then nothing is left to do.
CHECK_DEADLOCK FALSE
