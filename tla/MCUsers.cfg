CONSTANTS
  Requests = {r1, r2}
  Accounts = {u1, u2}
  Emails = {e1, e2}
  MaxSlots = 3
  Nobody = Nobody
SPECIFICATION Spec
SYMMETRY Interchangeable
INVARIANTS OneAccountPerEmail OneDefaultPerType
