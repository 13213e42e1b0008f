SPECIFICATION Spec
CONSTANTS
  P1 = P1
  P2 = P2
  R1 = R1
  R2 = R2
  Acme = Acme
  S1 = S1
  S2 = S2
  Erp = Erp
  Outside = Outside
  None = None
  Position = {P1, P2}
  Available = {P1, P2}
  ReservationId = {R1, R2}
  Party = {Acme}
  Serial = {S1, S2}
  Source = {Erp}
  Ann = Ann
  Ben = Ben
  Writer = {Ann, Ben}
  Window = 2
  MaxSequence = 3
  MaxQuantity = 2
  MaxParts = 2
SYMMETRY Interchangeable
CHECK_DEADLOCK FALSE
INVARIANTS
  NeverOversold
  StockAccounted
  Remembered
  DecidedOnCurrent
