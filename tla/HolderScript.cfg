\* Two runs of the operator's script, while the legs, the balances and the
\* account's sequence number move, over a network that loses and delays.
SPECIFICATION ScriptSpec
CHECK_DEADLOCK FALSE
CONSTANTS
  Book <- MCBook
  Keys = {}
  Owners = {acct}
  EdDSAMessages = {}
  LeafSlots = 1
  BaseDepth = 4
  SignedDepth = 2
  FieldModulus <- MCFieldModulus
  BalanceLimit = 8
  ReserveLimit = 64
  BpsLimit <- MCU32Modulus
  Accounts = {issuer, vault}
  Tokens = {usdc}
  ReserveHolder = issuer
  ReserveToken = usdc
  Signers = {issuer, vault}
  RootWords = {1, 2}
  Figures = {3, 6}
  CircuitEpochs = {}
  BpsWords = {}
  KeyWords = {}
  Balances = {1, 5}
  Customers = {}
  LegLists <- MCLegLists
  PricedLegLists = {}
  OracleConfigs = {}
  Reflectors = {}
  Feeds = {}
  Prices = {}
  Members = {c1}
  Commitments = {}
  LeafBatches = {}
  MemberSignatures = {}
  MaxLedger = 1
  MaxI128 = 15
  U32Modulus <- MCU32Modulus
  PriceDenominator = 2
  MaxRuns = 2
  ProvedSignals <- MCProvedSignals
  MaxPolls = 1
  TxTtl = 0
  AuthTtl = 0
  MaxSequence = 1
  None = None
  issuer = issuer
  vault = vault
  acct = acct
  c1 = c1
  usdc = usdc
INVARIANTS
  ScriptTypeOK
  ExitsAreTrue
  OneTransactionPerFile
PROPERTIES
  MultiAttestationBacked
  EveryRunExits
