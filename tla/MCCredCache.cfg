SPECIFICATION Spec
CONSTANTS
  Callers = {1, 2, 3, 4}
  StreamID <- MCStreamID
  LinkOf <- MCLinkOf
  CtxOf <- MCCtxOf
  StreamsPerCred = 2
  Links = {"l1", "l2"}
  NoLink = "nolink"
  Ctxs = {"old", "new"}
  None = 0
  CredentialLifetime = 2
  CacheSafetyMargin = 1
  MaxStoreDelay = 1
INVARIANTS
  TypeOK
  NoRedundantFetch
  CachedStillValid
  AnswerForOwnLink
  NoStall
PROPERTIES
  ImplementsService
