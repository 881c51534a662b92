\* A burst of three clients in which anything may fail.
SPECIFICATION LiveSpec
CONSTANTS
  Slots = {s1, s2, s3}
INVARIANTS
  NobodyEarly
  ValidRunEarned
  NobodyLeftWaiting
PROPERTIES
  ImplementsCertifiedBurst
  BurstEnds
\* A burst ends.
CHECK_DEADLOCK FALSE
