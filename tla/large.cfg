\* A policy and a text longer than one EncryptDecrypt2 command takes.
SPECIFICATION Spec
CONSTANTS
  c1 = c1
  c2 = c2
  NoClient = NoClient
  Client <- OneClient
  Transport = "socket"
  ObjectSlots = 3
  SessionSlots = 1
  FirstFree = TRUE
  PCRValue <- OnePCR
  NoDigest = "nodigest"
  Password <- Passwords
  NoPassword = "nopass"
  Nonce <- Nonces
  AAD <- AADs
  Plaintext <- Lengths
  SessionConfig <- AllSessions
  InitPairs <- BoundPair
  InitAEADs <- BoundAEAD
  MadeBefore = 8
  Call = {"Seal", "Open"}
  Event = {}
  MaxEvents = 0
  MaxKeys = 0
  MaxAEADs = 0
  MaxSealed = 1
INVARIANTS AnyLengthSucceeds
