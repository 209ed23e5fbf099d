\* The base and risk paths over one reserve account: replays under an aliased
\* encoding, a hidden negative leaf, weak risk bounds, the bulletin board.
SPECIFICATION Spec
CHECK_DEADLOCK FALSE
CONSTANTS
  Book <- MCBook
  Keys = {k1, k2, k3, k4}
  Owners = {acct}
  EdDSAMessages <- MCEdDSAMessages
  LeafSlots = 3
  BaseDepth = 4
  SignedDepth = 2
  FieldModulus <- MCFieldModulus
  BalanceLimit = 8
  ReserveLimit = 64
  BpsLimit <- MCU32Modulus
  Accounts = {issuer}
  Tokens = {usdc}
  ReserveHolder = issuer
  ReserveToken = usdc
  Signers = {issuer}
  RootWords = {1, 2, 3, 8, 70002}
  Figures = {0, 2, 3, 4}
  CircuitEpochs = {}
  BpsWords = {4000, 5000, 10500}
  KeyWords = {}
  Balances = {2, 4}
  Customers = {}
  LegLists = {}
  PricedLegLists = {}
  OracleConfigs = {}
  Reflectors = {}
  Feeds = {}
  Prices = {}
  Members = {c1, c2}
  Commitments <- MCCommitments
  LeafBatches <- MCLeafBatches
  MemberSignatures <- MCMemberSignatures
  MaxLedger = 1
  MaxI128 = 7
  U32Modulus <- MCU32Modulus
  PriceDenominator = 2
  issuer = issuer
  vault = vault
  other = other
  c1 = c1
  c2 = c2
  c3 = c3
  k1 = k1
  k2 = k2
  k3 = k3
  k4 = k4
  acct = acct
  usdc = usdc
  junk = junk
  reflector = reflector
  None = None
INVARIANTS
  RootsAttestedOnce
  NoHiddenLiability
  RiskPolicyHolds
  RegistryPinned
PROPERTIES
  HeldAttestationBacked
