\* A holder listed twice among the reserve legs.
SPECIFICATION Spec
CHECK_DEADLOCK FALSE
CONSTANTS
  Book <- MCBook
  Keys = {k1, k2, k3, k4}
  Owners = {acct}
  EdDSAMessages <- MCEdDSAMessages
  LeafSlots = 3
  BaseDepth = 4
  SignedDepth = 2
  FieldModulus <- MCFieldModulus
  BalanceLimit = 8
  ReserveLimit = 64
  BpsLimit <- MCU32Modulus
  Accounts = {issuer, vault, other}
  Tokens = {usdc, junk}
  ReserveHolder = issuer
  ReserveToken = usdc
  Signers = {issuer, vault}
  RootWords = {1}
  Figures = {3, 6}
  CircuitEpochs = {}
  BpsWords = {}
  KeyWords = {}
  Balances = {0, 3, 5}
  Customers = {}
  LegLists <- MCRepeatedLegLists
  PricedLegLists = {}
  OracleConfigs = {}
  Reflectors = {}
  Feeds = {}
  Prices = {}
  Members = {c1, c2}
  Commitments <- MCCommitments
  LeafBatches = {}
  MemberSignatures = {}
  MaxLedger = 0
  MaxI128 = 7
  U32Modulus <- MCU32Modulus
  PriceDenominator = 2
  issuer = issuer
  vault = vault
  other = other
  c1 = c1
  c2 = c2
  c3 = c3
  k1 = k1
  k2 = k2
  k3 = k3
  k4 = k4
  acct = acct
  usdc = usdc
  junk = junk
  reflector = reflector
  None = None
INVARIANTS
  AggregateIsReal
