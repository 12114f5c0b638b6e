CONSTANTS
  a1 = a1
  a2 = a2
  s1 = s1
  s2 = s2
  r1 = r1
  r2 = r2
  h1 = h1
  h2 = h2
  w1 = w1
  w2 = w2
  zero = zero
  q1 = q1
  q2 = q2
  Request = {q1, q2}
  MaxAttempts = 2
  MaxChanges = 1
  MaxDrawn = 4
  MaxByte = 3
  WideTag = 2
  MaxProofBytes = 18
  MaxLayers = 3
  MaxLayerDepth = 1
  Envelopes <- MCEnvelopes
  MaxUnits = 9
  ContainerCost = 2
  NumbersPerUnit = 3
  Texts <- MCTexts
  Item = item
  Forged = forged
  Amb = amb
  Subtree = subtree
  Junk = junk
  Named = {}
  MaxNodes = 3
  Address = {a1, a2}
  Slot = {s1, s2}
  StateRoot = {r1, r2}
  StorageHash = {h1, h2}
  Word = {w1, w2, zero}
  BlockNumber = {1, 2}
  Accounts <- MCAccounts
  Storage <- MCStorage
  Slots <- MCSlots
  Responses <- MCResponses
  Cell = {0, 1}
  Matched <- MCMatched
  Served <- MCServed
  Token <- MCToken
  Intent <- MCIntent
  Indexing <- MCIndexing
  MaxSigned = 1
SPECIFICATION AnswersSpec
SYMMETRY Symmetry
INVARIANTS RightsHonored ScanIsDecoding ItemProved StateProved VerdictIsTrue SignedIsMeant CountIsCost
CHECK_DEADLOCK FALSE
