SPECIFICATION MCSpec
CONSTANTS
  Ann = Ann
  Ben = Ben
  Dtp = Dtp
  Organic = Organic
  Basil = Basil
  Account = {Ann, Ben, Dtp}
  Owner = Dtp
  DisputeWindow = 1
  MaxInputs = 2
  None = None
  NoCatalog = NoCatalog
  MaxPrice = 44999
  MaxTime = 9999
  Panic = Panic
  Market <- AllMarkets
  Seeds <- AllSeeds
CHECK_DEADLOCK FALSE
INVARIANTS
  
  TraceComplete
  PaidByRight
  OneContractPerTarget
  BetterFoundFirst
