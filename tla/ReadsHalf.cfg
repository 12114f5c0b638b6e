CONSTANTS
  e1 = e1
  e2 = e2
  e3 = e3
  Endpoint = {e1, e2, e3}
  Honest = {e1, e2}
  Needed = 1
  MaxLag = 2
  MaxHeight = 4
SPECIFICATION ReadsSpec
INVARIANTS OnlyMajoritiesMove
