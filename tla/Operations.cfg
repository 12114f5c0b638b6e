CONSTANTS
  k0 = k0
  i0 = i0
  Key = {k0, k1, k2}
  Id = {i0, i1}
  FirstDoc <- FirstDocument
  Version = {v1, v2}
  NoFile = none
  MaxNonce = 2
  MaxPolls = 1
  MaxRuns = 2
  Client = {c, d}
  Chunks = 2
  MaxUses = 3
  MaxBegun = 3
SPECIFICATION OperationsSpec
SYMMETRY Symmetry
INVARIANTS NeverBricked RotationReportsTrue ChunksFollowManifest UploadedIsThere
CHECK_DEADLOCK FALSE
