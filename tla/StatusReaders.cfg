\* Every reader over lagging nodes, while the contract attests and the member's
\* board and the treasury's balance change.
SPECIFICATION ReadersSpec
CHECK_DEADLOCK FALSE
CONSTANTS
  Book <- MCBook
  Keys = {}
  Owners = {acct}
  EdDSAMessages = {}
  LeafSlots = 1
  BaseDepth = 4
  SignedDepth = 2
  FieldModulus <- MCFieldModulus
  BalanceLimit = 8
  ReserveLimit = 64
  BpsLimit <- MCU32Modulus
  Accounts = {issuer}
  Tokens = {usdc}
  ReserveHolder = issuer
  ReserveToken = usdc
  Signers = {issuer}
  RootWords = {1, 2}
  Figures = {3, 5}
  CircuitEpochs = {}
  BpsWords = {}
  KeyWords = {}
  Balances = {4}
  Customers = {}
  LegLists = {}
  PricedLegLists = {}
  OracleConfigs = {}
  Reflectors = {}
  Feeds = {}
  Prices = {}
  Members = {c1}
  Commitments <- MCCommitments
  LeafBatches <- MCLeafBatches
  MemberSignatures <- MCMemberSignatures
  MaxLedger = 3
  MaxI128 = 7
  U32Modulus <- MCU32Modulus
  PriceDenominator = 2
  MaxLag = 1
  MaxTries = 2
  LedgerTicks = {2}
  MaxAge = 2
  MaxAgeLedgers = 1
  ClockSkew = 0
  Failed = Failed
  None = None
  issuer = issuer
  acct = acct
  c1 = c1
  usdc = usdc
INVARIANTS
  ReadersTypeOK
  ShownIsBacked
  EmptyMeansNone
  FiguresAreRecent
  FreshMeansRecent
  IncludedMeansCounted
  AuditMeansSignedAndCounted
PROPERTIES
  EveryLoadEnds
