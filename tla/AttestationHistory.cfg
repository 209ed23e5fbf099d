\* All six entrypoints together over few roots: the contract implements AttestationLog.
SPECIFICATION Spec
CHECK_DEADLOCK FALSE
CONSTANTS
  Book <- MCSmallBook
  Keys = {k1, k2}
  Owners = {acct}
  EdDSAMessages <- MCSmallMessages
  LeafSlots = 1
  BaseDepth = 4
  SignedDepth = 2
  FieldModulus <- MCFieldModulus
  BalanceLimit = 8
  ReserveLimit = 64
  BpsLimit <- MCU32Modulus
  Accounts = {issuer}
  Tokens = {usdc}
  ReserveHolder = issuer
  ReserveToken = usdc
  Signers = {issuer}
  RootWords = {1, 2, 3, 4}
  Figures = {0}
  CircuitEpochs = {1, 2}
  BpsWords = {4000, 10500}
  KeyWords <- MCSmallKeyWords
  Balances = {4}
  Customers = {c1, c2}
  LegLists <- MCOneLegList
  PricedLegLists <- MCOnePricedLegList
  OracleConfigs <- MCOneOracleConfig
  Reflectors = {reflector}
  Feeds = {1}
  Prices = {3}
  Members = {c1, c2}
  Commitments <- MCCommitments
  LeafBatches = {}
  MemberSignatures = {}
  MaxLedger = 0
  MaxI128 = 15
  U32Modulus <- MCU32Modulus
  PriceDenominator = 2
  issuer = issuer
  vault = vault
  other = other
  c1 = c1
  c2 = c2
  c3 = c3
  k1 = k1
  k2 = k2
  k3 = k3
  k4 = k4
  acct = acct
  usdc = usdc
  junk = junk
  reflector = reflector
  None = None
INVARIANTS
  TypeOK
  LatestIsNewest
PROPERTIES
  ImplementsLog
