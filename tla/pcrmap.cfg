\* A key is bound once and used at any time while PCRs are extended.
SPECIFICATION Spec
CONSTANTS
  Index <- PCRs
  Byte <- Bytes
  Size = 2
  Value <- Values
  Algorithm = {"SHA1", "SHA256", "SHA384", "SHA512"}
  Input <- Inputs
INVARIANTS IInv BoundToNamedPCRs UsableMeansAllHashed NothingPartial
CHECK_DEADLOCK FALSE
