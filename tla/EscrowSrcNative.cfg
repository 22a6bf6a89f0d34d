\* An order of lamports and one of wrapped SOL, of which the maker can pay one
\* at a time, with an outsider who adds lamports and syncs. The run stops at
\* the clock bound.
SPECIFICATION Spec
CONSTANTS
  maker = maker
  taker = taker
  keeper = keeper
  TOK = TOK
  NATIVE_MINT = WSOL
  o1 = o1
  o2 = o2
  s0 = s0
  s1 = s1
  s2 = s2
  h0 = h0
  h1 = h1
  h2 = h2
  root = root
  MAX_U32 = 15
  MAX_U64 = 100
  MAX_U256 = 1000
  BASE_1E7 = 10
  RESCUE_DELAY = 4
  RENT_ATA = 2
  RENT_ORDER = 1
  RENT_ESCROW = 1
  MaxTime = 7
  Mints = {WSOL}
  Users = {maker, taker, keeper}
  Outsiders = {keeper}
  Closers = {}
  Resolvers = {taker}
  Orders = {o1, o2}
  Terms <- NativeAndWrapped
  EscrowKeys <- KeysOfEach
  Secrets = {s0}
  Hashes = {h0, h1, h2, root}
  Keccak <- MCKeccak
  RewardLimits = {1, 2}
  InitSol <- LamportGift
  InitTokens <- WrappedTokens
  InitResolvers = {taker, keeper}
INVARIANTS
  OrderFunded
  EscrowFunded
  NeverStuck
PROPERTIES
  ImplementsHashTimelock
  OrderSettled
  RescueSettled
CHECK_DEADLOCK FALSE
