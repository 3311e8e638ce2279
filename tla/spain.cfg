\* A till with three records, beside a stray client with one.
CONSTANTS
  Tills = {till}
  Strays = {stray}
  Workers = {w1, w2}
  Deployments <- MCDeployments
  Foreign = Foreign
  Malformed = Malformed
  Redacted = Redacted
  MaxNumber = 3
  MaxStrays = 1
  MaxDeploys = 1
  MaxArchived = 1
SPECIFICATION Spec
SYMMETRY Symmetry
INVARIANTS
  LinksAreComplete
  TrailTellsTheHash
  PredecessorsCameFirst
  ReferenceIsOfDocument
  ReadyMeansChecked
  ChainIsLinear
PROPERTIES
  ImplementsChain
CHECK_DEADLOCK FALSE
