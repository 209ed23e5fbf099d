\* Oracle-priced reserves over distinct legs, with quotes that go stale.
SPECIFICATION Spec
CHECK_DEADLOCK FALSE
CONSTANTS
  Book <- MCBook
  Keys = {k1, k2, k3, k4}
  Owners = {acct}
  EdDSAMessages <- MCEdDSAMessages
  LeafSlots = 3
  BaseDepth = 4
  SignedDepth = 2
  FieldModulus <- MCFieldModulus
  BalanceLimit = 8
  ReserveLimit = 64
  BpsLimit <- MCU32Modulus
  Accounts = {issuer, vault}
  Tokens = {usdc, junk}
  ReserveHolder = issuer
  ReserveToken = usdc
  Signers = {issuer}
  RootWords = {1, 8}
  Figures = {0, 3}
  CircuitEpochs = {}
  BpsWords = {}
  KeyWords = {}
  Balances = {1, 3}
  Customers = {}
  LegLists = {}
  PricedLegLists <- MCPricedLegLists
  OracleConfigs <- MCOracleConfigs
  Reflectors = {reflector}
  Feeds = {1, 2}
  Prices = {0, 3}
  Members = {c1, c2}
  Commitments <- MCCommitments
  LeafBatches = {}
  MemberSignatures = {}
  MaxLedger = 1
  MaxI128 = 7
  U32Modulus <- MCU32Modulus
  PriceDenominator = 2
  issuer = issuer
  vault = vault
  other = other
  c1 = c1
  c2 = c2
  c3 = c3
  k1 = k1
  k2 = k2
  k3 = k3
  k4 = k4
  acct = acct
  usdc = usdc
  junk = junk
  reflector = reflector
  None = None
PROPERTIES
  PricedAttestationBacked
