\* A completing fill after the order has been rescued in part.
SPECIFICATION Spec
CONSTANTS
  maker = maker
  taker = taker
  keeper = keeper
  TOK = TOK
  NATIVE_MINT = WSOL
  o1 = o1
  o2 = o2
  s0 = s0
  s1 = s1
  s2 = s2
  h0 = h0
  h1 = h1
  h2 = h2
  root = root
  MAX_U32 = 15
  MAX_U64 = 100
  MAX_U256 = 1000
  BASE_1E7 = 10
  RESCUE_DELAY = 3
  RENT_ATA = 2
  RENT_ORDER = 1
  RENT_ESCROW = 1
  MaxTime = 7
  Mints = {WSOL}
  Users = {maker, taker, keeper}
  Outsiders = {}
  Closers = {}
  Resolvers = {}
  Orders = {o1}
  Terms <- NativeHalves
  EscrowKeys <- EvenKeys
  Secrets = {s0, s2}
  Hashes = {h0, h1, h2, root}
  Keccak <- MCKeccak
  RewardLimits = {2}
  InitSol <- RichSol
  InitTokens <- NoTokens
  InitResolvers = {taker}
PROPERTIES
  FillOnlyIncreases
CHECK_DEADLOCK FALSE
