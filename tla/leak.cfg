\* A caller whose PCR values are out of date.
SPECIFICATION Spec
CONSTANTS
  c1 = c1
  c2 = c2
  NoClient = NoClient
  Client <- OneClient
  Transport = "socket"
  ObjectSlots = 3
  SessionSlots = 3
  FirstFree = TRUE
  PCRValue <- PCRs
  NoDigest = "nodigest"
  Password <- NoPassOnly
  NoPassword = "nopass"
  Nonce <- Nonces
  AAD <- AADs
  Plaintext <- Small
  SessionConfig <- PCRSessions2
  InitPairs <- PCRPair
  InitAEADs <- StaleAEAD
  MadeBefore = 8
  Call = {"Seal", "Open"}
  Event = {}
  MaxEvents = 0
  MaxKeys = 0
  MaxAEADs = 0
  MaxSealed = 1
INVARIANTS SessionsClosed
