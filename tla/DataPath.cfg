\* One book through the page, the circuits, the wire and the contract.
SPECIFICATION Spec
CHECK_DEADLOCK FALSE
CONSTANTS
  FieldModulus = 521
  Depth = 2
  BalanceBits = 2
  BpsBits = 3
  BpsUnit = 4
  Radix = 4
  WordLen = 6
  HalfLen = 3
  U32Len = 2
  NoNumber = NoNumber
  Books <- MCBooks
  Treasuries <- MCTreasuries
  ConcBounds = {2, 4}
  CollBounds = {4, 5, 8}
  KeyLists <- MCKeyLists
  Claims <- MCClaims
  VerifyingKey <- MCVerifyingKey
  RandomA = 101
  RandomB = 202
  RootValue = 400
  LeafValue = 300
  MaxConcBps = 2
  MinCollBps = 5
  HolderBalance = 30
  None = None
INVARIANTS
  PathTypeOK
  AttestedIsTrueBook
  AttestedWithinLimits
  OnlyIntactCallsAccepted
  IntactCallsAccepted
  CircuitsAsAbstracted
  KeysWithinCap
  OnlyTrueBalanceFolds
