\* Up to MaxCommands commands, with MaxFaults things that go wrong at any step.
SPECIFICATION Spec
CONSTANTS
  Email = {e1}
  Totp = {t1}
  WebAuthn = {w1, w2}
  NoAccount = NoAccount
  Absent = Absent
  Sample = {e1, t1, w1}
  MaxKey = 6
  MaxCount = 4
  MaxEpoch = 2
  MaxLate = 1
  MaxCommands = 4
  MaxFaults = 2
  Earlier <- KeptResults
  Rounds = 2
  InvalidLimit = 2
INVARIANTS
  TypeOK
  SecretsAgree
  CountersTogether
  E1GivesBack
  GoldenDataset
  PreparedAccepted
PROPERTIES
  PairKept
\* The bound on commands.
CHECK_DEADLOCK FALSE
