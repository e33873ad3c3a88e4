\* One client opens whatever can be put together from sealed messages.
SPECIFICATION Spec
CONSTANTS
  c1 = c1
  c2 = c2
  NoClient = NoClient
  Client <- OneClient
  Transport = "socket"
  ObjectSlots = 3
  SessionSlots = 1
  FirstFree = TRUE
  PCRValue <- OnePCR
  NoDigest = "nodigest"
  Password <- NoPassOnly
  NoPassword = "nopass"
  Nonce <- AnyNonce
  AAD <- AADs2
  Plaintext <- Lengths2
  SessionConfig <- NoPolicy
  InitPairs <- OnePair
  InitAEADs <- MixedAEADs
  MadeBefore = 8
  Call = {"Seal", "Open"}
  Event = {}
  MaxEvents = 0
  MaxKeys = 0
  MaxAEADs = 0
  MaxSealed = 2
INVARIANTS OpenAuthentic
