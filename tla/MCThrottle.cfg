\* Two requests in three units of time; three requests are remembered at once.
SPECIFICATION FairSpec
CONSTANTS
  Limit = 2
  Ttl = 3
  Window = 4
  MaxLag = 4
  MaxIds = 3
PROPERTIES
  BlockedForALag
  CallsAnswered
