CONSTANTS
  w1 = w1
  w2 = w2
  Write = {w1, w2}
  Window = 1
  Hold = 1
  MaxLag = 0
  MaxNonce = 3
  MaxSpent = 2
  MaxRetries = 2
  MaxResent = 6
  Punctual = FALSE
  OwnNonces = FALSE
SPECIFICATION SubSpec
SYMMETRY Symmetry
INVARIANTS SubTypeOK PendingHeld
PROPERTIES KeepsPromise
