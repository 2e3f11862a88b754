CONSTANTS
  Program <- MCProgram
  Null = Null
  Capacity = 2
  RunCycles = 3
  Poll = 2
  MaxPosts = 3
  MaxLoads = 2

SPECIFICATION Spec

INVARIANTS
  TypeOK
  ViewFaithful
  ViewExact
  UpToDate

PROPERTIES
  Follows
  CommandsTaken
  UploadLoaded

CHECK_DEADLOCK FALSE
