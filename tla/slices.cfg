\* Any two calls at the same time or one after the other.
SPECIFICATION Spec
CONSTANTS
  g1 = g1
  g2 = g2
  Client <- Clients
  nonceSize = 1
  tagSize = 1
  Arrays <- CallerArrays
  Request <- Requests
  MaxCalls = 2
SYMMETRY Symmetry
INVARIANTS IInv SealedFromArguments OpenedFromArguments ResultsKept
PROPERTIES WritesInFootprint OpenWritesAuthentic
CHECK_DEADLOCK FALSE
