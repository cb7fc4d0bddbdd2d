SPECIFICATION LiveSpec
CONSTANTS
  PeerTypes = {"proxy_v1", "proxy_v2", "direct"}
  MaxAttempts = 2
  MaxCacheErrors = 1
INVARIANTS
  TypeOK
  OneConsumer
  OldAttemptsCondemned
PROPERTIES
  LostSessionEnds
  StopReleasesAll
CHECK_DEADLOCK FALSE
