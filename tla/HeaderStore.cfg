CONSTANTS
  t1 = t1
  t2 = t2
  Task = {t1, t2}
  Block <- Blocks
  Checkpoint <- Trusted
  Unreadable <- NoBlock
  Height <- Heights
  Numerator = 2
  Denominator = 3
  Period = 1
  Drift = 1
  MaxTime = 1
  MaxUses = 3
SPECIFICATION HeaderSpec
INVARIANTS LinkedToTrust OneTrust AloneInOrder
CHECK_DEADLOCK FALSE
PROPERTY EveryUseEnds
