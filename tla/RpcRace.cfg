CONSTANTS
  t1 = t1
  t2 = t2
  r1 = r1
  r2 = r2
  Task = {t1, t2}
  Root = {r1, r2}
  MaxTip = 2
  Sequential = FALSE
SPECIFICATION FairRpcSpec
PROPERTIES NeverBackward
