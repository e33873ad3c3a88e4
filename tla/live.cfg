\* Two clients of swtpm's socket that call all the time, with keys under a PCR
\* policy, and a failure of any kind in between.
SPECIFICATION FairSpec
CONSTANTS
  c1 = c1
  c2 = c2
  NoClient = NoClient
  Client <- Clients
  Transport = "socket"
  ObjectSlots = 3
  SessionSlots = 1
  FirstFree = TRUE
  PCRValue <- OnePCR
  NoDigest = "nodigest"
  Password <- NoPassOnly
  NoPassword = "nopass"
  Nonce <- Nonces
  AAD <- AADs
  Plaintext <- Small
  SessionConfig <- PCRSessions
  InitPairs <- PCRPair
  InitAEADs <- PCRAEAD
  MadeBefore = 8
  Call = {"Seal", "Open"}
  Event = {"CommandFault", "ConnectionLost", "Restart"}
  MaxEvents = 1
  MaxKeys = 0
  MaxAEADs = 0
  MaxSealed = 1
INVARIANTS TypeOK KeysReleased FlushesOwn HandlesStayValid
PROPERTY ImplementsLive
