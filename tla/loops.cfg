\* Two messages of any of the lengths, encrypted, decrypted and hashed.
SPECIFICATION Spec
CONSTANTS
  Nonce <- Nonces
  Length <- Lengths
  CounterBlocks = 129
INVARIANTS StreamInv OnePass RoundTrip KeyStreamFresh HashesAll TurnsAsProgrammed
