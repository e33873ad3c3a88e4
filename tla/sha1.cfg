\* A key bound to PCRs of every bank the function supports.
SPECIFICATION Spec
CONSTANTS
  Index <- PCRs
  Byte <- Bytes
  Size = 2
  Value <- Values
  Algorithm = {"SHA1", "SHA256", "SHA384"}
  Input <- Inputs
INVARIANT EveryAlgorithmBinds
CHECK_DEADLOCK FALSE
