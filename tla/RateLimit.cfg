CONSTANTS
  Limit = 2
  Window = 4
  Second = 2
  MaxTime = 12
  MaxHits = 6
  MaxFaults = 1
SPECIFICATION Spec
INVARIANTS
  TypeOK
  QuotaInAnySpan
  WaitingSuffices
  OfferIsGood
CHECK_DEADLOCK FALSE
