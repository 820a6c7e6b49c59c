SPECIFICATION MCSpec
CONSTANTS
  Texts <- AllTexts
  Stores <- SmallStores
  Nothing = Nothing
  DefaultNamespace <- ShortDefault
  MAX_REPLICAS = 4
  MAX_IMAGE_LEN = 8
  MAX_ENV_VARS = 2
  MAX_ENV_LEN = 3
  MAX_NAME_LEN = 3
  Hosts <- TwoHosts
  Roots <- HostRoots
  Tags <- HostTags
  Tokens <- SomeTokens
  me = "me"
  NoTag = "notag"
  None = None
  MaxTime = 1
  MaxRevoked = 1
  Modulus = 8
  Atlases <- SomeAtlases
  Requests <- SmallRequests
  MaxPlaced = 3
INVARIANTS
  NamesAreExact
  RunsAsWritten
  RefusedForCause
  ScoreIsMonotone
  EveryHostAsked
  ShortfallReported
CHECK_DEADLOCK FALSE
