\* Two SPL orders that compete for the same tokens, with an outsider who opens
\* accounts and sends tokens and lamports. The premium of the second order is
\* only covered by the outsider. The run stops at the clock bound.
SPECIFICATION Spec
CONSTANTS
  maker = maker
  taker = taker
  keeper = keeper
  TOK = TOK
  NATIVE_MINT = WSOL
  o1 = o1
  o2 = o2
  s0 = s0
  s1 = s1
  s2 = s2
  h0 = h0
  h1 = h1
  h2 = h2
  root = root
  MAX_U32 = 15
  MAX_U64 = 100
  MAX_U256 = 1000
  BASE_1E7 = 10
  RESCUE_DELAY = 5
  RENT_ATA = 2
  RENT_ORDER = 1
  RENT_ESCROW = 1
  MaxTime = 9
  Mints = {TOK, WSOL}
  Users = {maker, taker, keeper}
  Outsiders = {keeper}
  Closers = {}
  Resolvers = {taker}
  Orders = {o1, o2}
  Terms <- SplAndPremium
  EscrowKeys <- KeysOfOne
  Secrets = {s0}
  Hashes = {h0, h1, h2, root}
  Keccak <- MCKeccak
  RewardLimits = {1, 3}
  InitSol <- MCSol
  InitTokens <- WithGift
  InitResolvers = {taker, keeper}
INVARIANTS
  OrderFunded
  EscrowFunded
  PremiumCovered
PROPERTIES
  ImplementsHashTimelock
CHECK_DEADLOCK FALSE
