SPECIFICATION Spec
CONSTANTS
  Ann = Ann
  Ben = Ben
  Cleo = Cleo
  App = App
  k1 = k1
  k2 = k2
  k3 = k3
  k4 = k4
  Company = {Ann, Ben, Cleo}
  Module = {App}
  Key = {k1, k2, k3}
  None = None
  PageLimit = 1
  Seeds <- AllSeeds
CHECK_DEADLOCK FALSE
INVARIANTS
  RowsMatchHeads
  AccountableMoves
  AgreedTermsKept
  DeliveryEvidence
  FeedComplete
  RetryAcknowledged
PROPERTIES
  ModuleActsUnderGrant
