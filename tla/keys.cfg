\* The life of a key from NewKey on, with any two failures, on a device that
\* hands out its free slots in any order.
SPECIFICATION Spec
CONSTANTS
  c1 = c1
  c2 = c2
  NoClient = NoClient
  Client <- OneClient
  Transport = "socket"
  ObjectSlots = 3
  SessionSlots = 1
  FirstFree = FALSE
  PCRValue <- OnePCR
  NoDigest = "nodigest"
  Password <- Passwords
  NoPassword = "nopass"
  Nonce <- Nonces
  AAD <- AADs
  Plaintext <- Small
  SessionConfig <- AllSessions
  InitPairs <- NoSet
  InitAEADs <- NoSet
  MadeBefore = 0
  Call = {"NewKey", "NewAESCTRHMAC", "Seal", "Open"}
  Event = {"CommandFault", "Crash", "ChangeOwnerAuth", "Clear"}
  MaxEvents = 2
  MaxKeys = 1
  MaxAEADs = 1
  MaxSealed = 1
INVARIANTS DataInv LoadInv SuccessInv PairsConsistent LeaksAtMostOne
PROPERTIES SlotsSuffice Implements
