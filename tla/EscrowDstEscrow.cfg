\* An escrow of tokens, of lamports or of wrapped SOL, at an address that can be
\* used again, with an outsider. The run stops at the clock bound.
SPECIFICATION Spec
CONSTANTS
  creator = creator
  recipient = recipient
  keeper = keeper
  TOK = TOK
  NATIVE_MINT = WSOL
  o1 = o1
  s0 = s0
  h0 = h0
  MAX_U32 = 9
  MAX_U64 = 100
  MAX_U256 = 1000
  RESCUE_DELAY = 5
  RENT_ATA = 2
  RENT_ESCROW = 2
  MaxTime = 7
  Mints = {TOK, WSOL}
  Users = {creator, recipient, keeper}
  Outsiders = {keeper}
  Closers = {creator, recipient}
  Resolvers = {keeper}
  EscrowKeys <- KeysOfTwo
  Offers <- AllOffers
  Secrets = {s0}
  Hashes = {h0}
  Keccak <- MCKeccak
  InitSol <- MCSol
  InitTokens <- MCTokens
  InitAtas <- MCAtas
  InitResolvers = {keeper, recipient}
INVARIANTS
  TypeOK
  EscrowFunded
  NeverStuck
PROPERTIES
  ImplementsHashTimelock
  DepositToResolver
  OnlyCreatorsPay
CHECK_DEADLOCK FALSE
