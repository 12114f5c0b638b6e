CONSTANTS
  w1 = w1
  w2 = w2
  w3 = w3
  Write = {w1, w2, w3}
  Window = 2
  Hold = 2
  MaxLag = 0
  MaxNonce = 4
  MaxSpent = 3
  MaxRetries = 1
  MaxResent = 3
  Punctual = FALSE
  OwnNonces = FALSE
SPECIFICATION FairLeaseSpec
PROPERTIES TakesFresh
