\* Two clients whose commands interleave, with the same keys or other ones under
\* the same policy, one of which may die, while PCRs change.
SPECIFICATION Spec
CONSTANTS
  c1 = c1
  c2 = c2
  NoClient = NoClient
  Client <- Clients
  Transport = "rm"
  ObjectSlots = 3
  SessionSlots = 1
  FirstFree = TRUE
  PCRValue <- PCRs
  NoDigest = "nodigest"
  Password <- NoPassOnly
  NoPassword = "nopass"
  Nonce <- Nonces
  AAD <- AADs
  Plaintext <- Small
  SessionConfig <- PCRSessions
  InitPairs <- TwoPairs
  InitAEADs <- TwoAEADs
  MadeBefore = 10
  Call = {"Seal", "Open"}
  Event = {"Crash", "ExtendPCR"}
  MaxEvents = 1
  MaxKeys = 0
  MaxAEADs = 0
  MaxSealed = 1
SYMMETRY Symmetry
INVARIANTS SealedUnderOwnKeys EntitledSucceeds
PROPERTY Implements
