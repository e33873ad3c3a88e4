\* Two shells run the programs of one directory at the same time, on the same
\* files, while runs are killed or fail, and passwords, PCRs or the owner's seed
\* change.
SPECIFICATION Spec
CONSTANTS
  s1 = s1
  s2 = s2
  Process <- Shells
  Suite <- Suites
  Flags <- CommandLines
  InitFile <- WithVector
  InitDevice <- OwnersDevice
  PCRValue <- Values
  Password <- Passwords
  NoPassword = "nopass"
  Event = {"Kill", "WriteFails", "LibraryFails", "ExtendPCR", "ChangeOwner"}
  MaxRuns = 3
  MaxEvents = 1
SYMMETRY Symmetry
INVARIANTS TypeOK ThreeCommandsWork OnlyNewKeyStrands OnlySealedPrinted WholeFiles PanicsOnlyOnUnfinished
CHECK_DEADLOCK FALSE
