\* An order in two parts, filled, paid for on the destination chain and disclosed
\* fill by fill, with a taker that may lose its place in the whitelist, rescues from
\* the moment of cancellation on, and a stranger that gives a lamport away on each
\* chain. The run stops at the clock bound.
SPECIFICATION Spec
CONSTANTS
  maker = maker
  taker = taker
  keeper = keeper
  admin = admin
  guest = guest
  TOK = TOK
  NATIVE_MINT = WSOL
  o1 = o1
  s0 = s0
  s2 = s2
  h0 = h0
  h1 = h1
  h2 = h2
  root = root
  MAX_U32 = 15
  MAX_U64 = 100
  MAX_U256 = 1000
  BASE_1E7 = 10
  RESCUE_DELAY = 4
  RENT_ATA = 2
  RENT_ORDER = 1
  RENT_SRC = 1
  RENT_DST = 2
  MaxTime = 4
  Mints = {TOK, WSOL}
  Users = {maker, taker, keeper, admin, guest}
  Strangers = {guest}
  Orders = {o1}
  Terms <- MCTerms
  SrcKeys <- MCSrcKeys
  DstKeys <- MCDstKeys
  Partner <- MCPartner
  DstToken = TOK
  Secrets = {s0, s2}
  Hashes = {h0, h1, h2, root}
  Keccak <- MCKeccak
  Offers <- MCOffers
  RewardLimits = {2}
  SrcSol <- MCSrcSol
  SrcTokens <- MCSrcTokens
  DstSol <- MCDstSol
  DstTokens <- MCDstTokens
  DstAtas <- MCDstAtas
  SrcClient = src
  DstClient = dst
  Nobody = nobody
  Authorities = {admin, keeper}
  Registrations <- MCRegistrations
  Watchers <- MCWatchers
INVARIANTS
  
  TakerWhole
  LastCallAnswered
CHECK_DEADLOCK FALSE
