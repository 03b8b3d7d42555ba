CONSTANTS
  t1 = t1
  t2 = t2
  Tools = {t1, t2}
  Confirmed = {t2}
  MaxText = 7
  MaxPieces = 1
  MaxRetries = 3
  MaxIterations = 2
SPECIFICATION CallsSpec
INVARIANTS
  SplitRight
  ShownAsSent
  HandedOverWhole
  RefusalsSettled
