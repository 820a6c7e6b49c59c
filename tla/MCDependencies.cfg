SPECIFICATION MCSpec
CONSTANTS
  Key <- Keys
  Rank <- KeyRank
  Graphs <- SmallGraphs
  Manifests <- SmallFiles
  CliNamespaces = {"default", "ops"}
  Default = "default"
  Unset = "unset"
  NoService = "none"
  db = db
  cache = cache
  web = web
  App = {db, cache, web}
  depends_on <- Chain
  healthy <- WebIsStrict
  FaultPlans <- Plans
INVARIANTS
  ProducersFirst
  CyclicExactly
  ConsumersLast
PROPERTIES
  AllUp
  OutageSpreads
CHECK_DEADLOCK FALSE
