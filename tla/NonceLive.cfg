CONSTANTS
  w1 = w1
  w2 = w2
  Write = {w1, w2}
  Window = 1
  Hold = 2
  MaxLag = 0
  MaxNonce = 3
  MaxSpent = 2
  MaxRetries = 2
  MaxResent = 6
  Punctual = FALSE
  OwnNonces = TRUE
SPECIFICATION FairLeaseSpec
PROPERTIES Served
