------------------------------ MODULE EscrowDst ------------------------------
(***************************************************************************)
(* The destination-chain program, programs/cross-chain-escrow-dst.         *)
(*                                                                         *)
(* A resolver, here the CREATOR, locks what it owes to a swap's maker, the *)
(* RECIPIENT, under the hash of the maker's secret.  The escrow ends with  *)
(* a withdrawal in favour of the recipient, which needs the secret, or     *)
(* with the creator's cancellation.                                        *)
(*                                                                         *)
(* An escrow account is addressed by order hash, hashlock, creator and     *)
(* amount, and that record is the escrow.  The other arguments of "create" *)
(* are stored in the account: two escrows with one address can differ in   *)
(* them, one after the other.                                              *)
(***************************************************************************)
EXTENDS EscrowCommon

CONSTANTS
  Users,        \* wallets: resolvers, recipients and outsiders
  Outsiders,    \* the users that make transfers of their own to the accounts
  Closers,      \* the users that close token accounts of their own
  Resolvers,    \* the users whose whitelisting may change
  EscrowKeys,   \* the addresses of escrow accounts
  Offers,       \* the arguments of "create" that an address does not fix
  Secrets, Hashes,
  Keccak,       \* the hash of each secret
  RENT_ESCROW,  \* rent-exempt reserve of an escrow account
  InitSol, InitTokens, \* what the users have at the beginning
  InitAtas,     \* the users' ATAs that exist at the beginning
  InitResolvers,
  MaxTime       \* bound on the clock

OfferSet ==
  [recipient : Users, token : Mints, safety_deposit : U64, timelocks : TimelockWords,
   src_cancellation_timestamp : U32, asset_is_native : BOOLEAN]

Owners == Users \cup EscrowKeys

ASSUME EscrowDstAssumption ==
  /\ Outsiders \subseteq Users
  /\ Closers \subseteq Users
  /\ Resolvers \subseteq Users
  /\ EscrowKeys \cap Users = {}
  /\ \A k \in EscrowKeys : k.creator \in Users /\ k.amount \in Nat /\ k.hashlock \in Hashes
  /\ Offers \subseteq OfferSet
  /\ Keccak \in [Secrets -> Hashes]
  /\ RENT_ESCROW \in Nat
  /\ InitSol \in [Users -> Nat]
  /\ InitTokens \in [Users \X Mints -> Nat]
  /\ InitAtas \subseteq Users \X Mints
  /\ InitResolvers \subseteq Users
  /\ MaxTime \in U32

VARIABLES
  now,             \* the chain's clock
  escrow,          \* the EscrowDst accounts
  bank,            \* lamports and token accounts
  resolver_access, \* the users with a ResolverAccess account
  revealed         \* the secrets that the makers have disclosed

vars == <<now, escrow, bank, resolver_access, revealed>>

EscrowState ==
  [live : BOOLEAN, recipient : Users, token : Mints, asset_is_native : BOOLEAN,
   safety_deposit : U64, timelocks : TimelockWords]

\* What is left of a closed account says nothing.
NoEscrow(k) ==
  [live |-> FALSE, recipient |-> k.creator, token |-> NATIVE_MINT,
   asset_is_native |-> FALSE, safety_deposit |-> 0, timelocks |-> NoTimelocks]

EscrowAta(k) == Ata(k, escrow[k].token)
RecipientAta(k) == Ata(escrow[k].recipient, escrow[k].token)
CreatorAta(k) == Ata(k.creator, escrow[k].token)

\* Mutant: the result of the calls is ignored.
Commit_Anyway(L) == bank' = L

\* The instruction's chain of calls succeeded: its effects are committed.
Commit(L) == L.ok /\ bank' = L

-----------------------------------------------------------------------------
\* create

\* Mutant: the cancellation time wraps around.
CreateAllowed_Wraps(k, offer) ==
  /\ StageTime(SetDeployedAt(offer.timelocks, now), "DstCancellation") % (MAX_U32 + 1)
       <= offer.src_cancellation_timestamp
  /\ k.amount # 0 /\ offer.safety_deposit # 0
  /\ offer.safety_deposit <= RENT_ESCROW
  /\ offer.asset_is_native => offer.token = NATIVE_MINT

\* Mutant: the two cancellation times are not compared.
CreateAllowed_Unrelated(k, offer) ==
  /\ StageFits(SetDeployedAt(offer.timelocks, now), "DstCancellation")
  /\ k.amount # 0 /\ offer.safety_deposit # 0
  /\ offer.safety_deposit <= RENT_ESCROW
  /\ offer.asset_is_native => offer.token = NATIVE_MINT

\* The cancellation time that "get" computes exists, and is not after the one
\* that the creator gives for the source chain.
CreateAllowed(k, offer) ==
  LET tl == SetDeployedAt(offer.timelocks, now)
  IN  /\ StageFits(tl, "DstCancellation")
      /\ StageTime(tl, "DstCancellation") <= offer.src_cancellation_timestamp
      /\ k.amount # 0 /\ offer.safety_deposit # 0
      /\ offer.safety_deposit <= RENT_ESCROW
      /\ offer.asset_is_native => offer.token = NATIVE_MINT

\* The creator pays for the accounts.
CreateAccounts(k, offer) ==
  InitIfNeededAta(InitAccount(bank, k.creator, k, RENT_ESCROW), k.creator, Ata(k, offer.token))

\* A native asset is moved as lamports and, unlike on the source chain, not
\* wrapped.
DepositEscrow(L, k, offer) ==
  IF offer.asset_is_native THEN UniTransferToAta(L, k.creator, Ata(k, offer.token), k.amount)
  ELSE UniTransferToken(L, Ata(k.creator, offer.token), Ata(k, offer.token), k.amount)

Create(k, offer) ==
  /\ ~escrow[k].live
  /\ offer.asset_is_native \/ bank.ata[Ata(k.creator, offer.token)].live
  /\ CreateAllowed(k, offer)
  /\ Commit(DepositEscrow(CreateAccounts(k, offer), k, offer))
  /\ escrow' = [escrow EXCEPT ![k] =
                  [live            |-> TRUE,
                   recipient       |-> offer.recipient,
                   token           |-> offer.token,
                   asset_is_native |-> offer.asset_is_native,
                   safety_deposit  |-> offer.safety_deposit,
                   timelocks       |-> SetDeployedAt(offer.timelocks, now)]]
  /\ UNCHANGED <<now, resolver_access, revealed>>

-----------------------------------------------------------------------------
\* withdraw and public_withdraw

\* Mutant: the window has no end.
WithdrawOpen_NoEnd(k, stage) == Reached(escrow[k].timelocks, stage, now)

WithdrawOpen(k, stage) ==
  Reached(escrow[k].timelocks, stage, now) /\ Before(escrow[k].timelocks, "DstCancellation", now)

HashlockOpened(k, secret) == Keccak[secret] = k.hashlock

\* Mutant: the recipient pays for its ATA.
RecipientAccounts_RecipientPays(k, payer, with_ata) ==
  IF with_ata THEN InitIfNeededAta(bank, escrow[k].recipient, RecipientAta(k)) ELSE bank

\* The signer pays for the recipient's ATA, if it is given and does not exist.
RecipientAccounts(k, payer, with_ata) ==
  IF with_ata THEN InitIfNeededAta(bank, payer, RecipientAta(k)) ELSE bank

\* utils::withdraw, then the close of the escrow account: the creator gets the
\* rent, and the signer, if it is another one, the safety deposit out of it.
WithdrawBank(k, payer, with_ata) ==
  LET P == ProcessPayout(RecipientAccounts(k, payer, with_ata), k, escrow[k].token,
                         escrow[k].asset_is_native, k.amount, escrow[k].recipient, k.creator)
      D == PaySafetyDeposit(P, k, escrow[k].safety_deposit, k.creator, payer)
  IN  CloseAccount(D, k, k.creator)

CloseEscrow(k) == escrow' = [escrow EXCEPT ![k] = NoEscrow(k)]

\* The recipient's ATA may be left out only for a native asset.
WithdrawBy(k, secret, payer, with_ata) ==
  /\ escrow[k].live
  /\ secret \in revealed
  /\ HashlockOpened(k, secret)
  /\ bank.ata[EscrowAta(k)].live
  /\ with_ata \/ escrow[k].asset_is_native
  /\ Commit(WithdrawBank(k, payer, with_ata))
  /\ CloseEscrow(k)
  /\ UNCHANGED <<now, resolver_access, revealed>>

\* Signed by the creator.
Withdraw(k, secret, with_ata) ==
  WithdrawOpen(k, "DstWithdrawal") /\ WithdrawBy(k, secret, k.creator, with_ata)

PublicWithdraw(k, secret, payer, with_ata) ==
  /\ payer \in resolver_access
  /\ WithdrawOpen(k, "DstPublicWithdrawal")
  /\ WithdrawBy(k, secret, payer, with_ata)

-----------------------------------------------------------------------------
\* cancel and rescue_funds, both signed by the creator.

CancelBank(k) ==
  CloseAccount(ProcessPayout(bank, k, escrow[k].token, escrow[k].asset_is_native, k.amount,
                             k.creator, k.creator),
               k, k.creator)

Cancel(k) ==
  /\ escrow[k].live
  /\ Reached(escrow[k].timelocks, "DstCancellation", now)
  /\ bank.ata[EscrowAta(k)].live
  /\ escrow[k].asset_is_native \/ bank.ata[CreatorAta(k)].live
  /\ Commit(CancelBank(k))
  /\ CloseEscrow(k)
  /\ UNCHANGED <<now, resolver_access, revealed>>

RescueFundsForEscrow(k, mint, rescue_amount) ==
  /\ RescueOpen(escrow[k].live, escrow[k].timelocks, now)
  /\ bank.ata[Ata(k, mint)].live /\ bank.ata[Ata(k.creator, mint)].live
  /\ Commit(RescueFunds(bank, k, k.creator, mint, rescue_amount))
  /\ UNCHANGED <<now, escrow, resolver_access, revealed>>

-----------------------------------------------------------------------------
\* The environment.

Tick ==
  /\ now < MaxTime
  /\ now' = now + 1
  /\ UNCHANGED <<escrow, bank, resolver_access, revealed>>

\* A maker discloses a secret off chain, for good.
RevealSecret(s) ==
  /\ s \notin revealed
  /\ revealed' = revealed \cup {s}
  /\ UNCHANGED <<now, escrow, bank, resolver_access>>

\* The whitelist program, on behalf of its authority.
Register(u) ==
  /\ u \notin resolver_access
  /\ resolver_access' = resolver_access \cup {u}
  /\ UNCHANGED <<now, escrow, bank, revealed>>

Deregister(u) ==
  /\ u \in resolver_access
  /\ resolver_access' = resolver_access \ {u}
  /\ UNCHANGED <<now, escrow, bank, revealed>>

BankOnly == UNCHANGED <<now, escrow, resolver_access, revealed>>

\* Anybody can open the ATA of any address, a user's included, and send tokens
\* or lamports to it; and sync_native needs no signature.
OutsideOpen(u, a) == Commit(OpenAta(bank, u, a)) /\ BankOnly
OutsideDeposit(u, a, n) == Commit(TransferTokens(bank, Ata(u, a[2]), a, n)) /\ BankOnly
OutsideLamports(u, a, n) == Commit(FundAta(bank, u, a, n)) /\ BankOnly
OutsideSync(a) == Commit(SyncNative(bank, a)) /\ bank' # bank /\ BankOnly

\* Users close token accounts of their own; wrapped SOL is unwrapped by it.
CloseOwnAta(a) == Commit(CloseAta(bank, a, a[1])) /\ BankOnly

-----------------------------------------------------------------------------
\* The specification.

Init ==
  /\ now = 0
  /\ escrow = [k \in EscrowKeys |-> NoEscrow(k)]
  /\ bank = [sol |-> [x \in Owners |-> IF x \in Users THEN InitSol[x] ELSE 0],
             ata |-> [a \in Owners \X Mints |->
                        IF a \in InitAtas
                        THEN [live     |-> TRUE,
                              amount   |-> InitTokens[a],
                              lamports |-> RENT_ATA + TokenLamports(a, InitTokens[a])]
                        ELSE NoAta],
             ok  |-> TRUE]
  /\ resolver_access = InitResolvers
  /\ revealed = {}

EscrowStep(k) ==
  \/ \E offer \in Offers : Create(k, offer)
  \/ \E s \in Secrets, with_ata \in BOOLEAN : Withdraw(k, s, with_ata)
  \/ \E s \in Secrets, payer \in Users, with_ata \in BOOLEAN :
       PublicWithdraw(k, s, payer, with_ata)
  \/ Cancel(k)
  \/ \E m \in Mints : \E n \in 0..bank.ata[Ata(k, m)].amount : RescueFundsForEscrow(k, m, n)

OutsideStep(u, a) ==
  \/ OutsideOpen(u, a)
  \/ \E n \in 1..bank.ata[Ata(u, a[2])].amount : OutsideDeposit(u, a, n)
  \/ \E n \in 1..bank.sol[u] : OutsideLamports(u, a, n)
  \/ OutsideSync(a)

Next ==
  \/ Tick
  \/ \E s \in Secrets : RevealSecret(s)
  \/ \E u \in Resolvers : Register(u) \/ Deregister(u)
  \/ \E k \in EscrowKeys : EscrowStep(k)
  \/ \E u \in Outsiders : \E a \in EscrowKeys \X Mints : OutsideStep(u, a)
  \/ \E u \in Outsiders : \E a \in Users \X Mints : OutsideOpen(u, a)
  \/ \E a \in Closers \X Mints : CloseOwnAta(a)

Spec == Init /\ [][Next]_vars

\* Time passes, and the creator, whose funds they are, eventually cancels if
\* that stays possible.
FairSpec ==
  /\ Spec
  /\ WF_vars(Tick)
  /\ \A k \in EscrowKeys : WF_vars(Cancel(k))

=============================================================================
