\* A circuit epoch beyond 32 bits wraps the freshness counter.
SPECIFICATION Spec
CHECK_DEADLOCK FALSE
CONSTANTS
  Book <- MCBook
  Keys = {k1, k2, k3, k4}
  Owners = {acct}
  EdDSAMessages <- MCWrapMessages
  LeafSlots = 3
  BaseDepth = 4
  SignedDepth = 2
  FieldModulus <- MCFieldModulus
  BalanceLimit = 8
  ReserveLimit = 64
  BpsLimit <- MCU32Modulus
  Accounts = {issuer}
  Tokens = {usdc}
  ReserveHolder = issuer
  ReserveToken = usdc
  Signers = {issuer}
  RootWords = {4, 6}
  Figures = {2, 3, 4}
  CircuitEpochs = {2, 65537}
  BpsWords = {}
  KeyWords <- MCKeyWords
  Balances = {4}
  Customers = {c1, c2, c3}
  LegLists = {}
  PricedLegLists = {}
  OracleConfigs = {}
  Reflectors = {}
  Feeds = {}
  Prices = {}
  Members = {c1, c2}
  Commitments <- MCCommitments
  LeafBatches = {}
  MemberSignatures = {}
  MaxLedger = 0
  MaxI128 = 100000
  U32Modulus <- MCU32Modulus
  PriceDenominator = 2
  issuer = issuer
  vault = vault
  other = other
  c1 = c1
  c2 = c2
  c3 = c3
  k1 = k1
  k2 = k2
  k3 = k3
  k4 = k4
  acct = acct
  usdc = usdc
  junk = junk
  reflector = reflector
  None = None
INVARIANTS
  CircuitEpochsIncrease
