\* A creator that cancels: every escrow ends. Rescues start after the clock
\* bound, at which the run stops.
SPECIFICATION FairSpec
CONSTANTS
  creator = creator
  recipient = recipient
  keeper = keeper
  TOK = TOK
  NATIVE_MINT = WSOL
  o1 = o1
  s0 = s0
  h0 = h0
  MAX_U32 = 9
  MAX_U64 = 100
  MAX_U256 = 1000
  RESCUE_DELAY = 9
  RENT_ATA = 2
  RENT_ESCROW = 2
  MaxTime = 7
  Mints = {TOK, WSOL}
  Users = {creator, recipient, keeper}
  Outsiders = {}
  Closers = {}
  Resolvers = {keeper}
  EscrowKeys <- KeysOfTwo
  Offers <- EndingOffers
  Secrets = {s0}
  Hashes = {h0}
  Keccak <- MCKeccak
  InitSol <- MCSol
  InitTokens <- MCTokens
  InitAtas <- MCAtas
  InitResolvers = {keeper}
PROPERTIES
  EscrowEnds
CHECK_DEADLOCK FALSE
