\* An SPL order in two parts, filled in any amounts while the auction falls, and
\* an outsider who adds to its tokens. The run stops at the clock bound.
SPECIFICATION Spec
CONSTANTS
  maker = maker
  taker = taker
  keeper = keeper
  TOK = TOK
  NATIVE_MINT = WSOL
  o1 = o1
  o2 = o2
  s0 = s0
  s1 = s1
  s2 = s2
  h0 = h0
  h1 = h1
  h2 = h2
  root = root
  MAX_U32 = 15
  MAX_U64 = 100
  MAX_U256 = 1000
  BASE_1E7 = 10
  RESCUE_DELAY = 5
  RENT_ATA = 2
  RENT_ORDER = 1
  RENT_ESCROW = 1
  MaxTime = 7
  Mints = {TOK, WSOL}
  Users = {maker, taker, keeper}
  Outsiders = {keeper}
  Closers = {}
  Resolvers = {}
  Orders = {o1}
  Terms <- Halves
  EscrowKeys <- KeysOfHalves
  Secrets = {s2}
  Hashes = {h0, h1, h2, root}
  Keccak <- MCKeccak
  RewardLimits = {2}
  InitSol <- PoorKeeper
  InitTokens <- WithGift4
  InitResolvers = {taker}
INVARIANTS
  TypeOK
  OrderFunded
  DistinctSecrets
  AlwaysCompletable
  FillsPayTheirShare
PROPERTIES
  OrderSettled
CHECK_DEADLOCK FALSE
