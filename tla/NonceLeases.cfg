CONSTANTS
  w1 = w1
  w2 = w2
  w3 = w3
  Write = {w1, w2, w3}
  Window = 2
  Hold = 2
  MaxLag = 1
  MaxNonce = 3
  MaxSpent = 2
  MaxRetries = 2
  MaxResent = 3
  Punctual = TRUE
  OwnNonces = FALSE
SPECIFICATION LeaseSpec
SYMMETRY Symmetry
INVARIANTS LeaseTypeOK LeasesDistinct KnowledgeSound WithinWindow NoLeak
PROPERTIES TakesFresh KnowledgeKept FullIsJustified
