------------------------------ MODULE EscrowSrc ------------------------------
(***************************************************************************)
(* The source-chain program, programs/cross-chain-escrow-src.              *)
(*                                                                         *)
(* A maker escrows tokens in an ORDER.  A whitelisted resolver, the taker, *)
(* turns all or a part of it into an ESCROW locked by the hash of a        *)
(* secret.  The escrow ends with a withdrawal, which needs the secret, or  *)
(* with a cancellation, which needs the cancellation time to be reached.   *)
(* Every instruction is one action, because a Solana transaction is        *)
(* atomic; the interleavings are those of the transactions of the maker,   *)
(* the resolvers, the whitelist authority and outsiders, and of the clock. *)
(*                                                                         *)
(* An order account is addressed by the hash of its terms, so the order    *)
(* hash IS the order here and Terms gives what it hashes.  An escrow       *)
(* account is addressed by order hash, hashlock, taker and amount, so that *)
(* record is the escrow.                                                   *)
(***************************************************************************)
EXTENDS EscrowCommon, Auction, PartialFill

CONSTANTS
  Users,        \* wallets: makers, resolvers and outsiders
  Outsiders,    \* the users that make transfers of their own to the accounts
  Closers,      \* the users that open and close users' own token accounts
  Resolvers,    \* the users whose whitelisting may change
  Orders,       \* order hashes
  Terms,        \* what an order hash is the hash of
  EscrowKeys,   \* the addresses of escrow accounts
  Secrets, Hashes,
  Keccak,       \* the hash of each secret
  RENT_ORDER, RENT_ESCROW,  \* rent-exempt reserves of the two accounts
  RewardLimits, \* the reward_limit arguments of resolvers
  InitSol, InitTokens, InitResolvers, \* what the users have at the beginning
  MaxTime       \* bound on the clock

\* The arguments of "create" that the order hash covers.  A multiple-fill
\* order's hashlock is a Merkle root with the number of parts in its first two
\* bytes: "leaves" are the proofs that verify against it.  "auction" is the data
\* whose hash the order carries.
TermsSet ==
  [creator : Users, token : Mints, amount : U64, safety_deposit : U64,
   timelocks : TimelockWords, expiration_time : U32, asset_is_native : BOOLEAN,
   dst_amount : U256, auction : AuctionDatas, max_cancellation_premium : U64,
   cancellation_auction_duration : U32, allow_multiple_fills : BOOLEAN,
   parts : Nat, hashlock : Hashes,
   leaves : SUBSET [index : Nat, hashed_secret : Hashes]]

Owners == Users \cup Orders \cup EscrowKeys

ASSUME EscrowSrcAssumption ==
  /\ Outsiders \subseteq Users
  /\ Closers \subseteq Users
  /\ Resolvers \subseteq Users
  /\ Users \cap Orders = {}
  /\ EscrowKeys \cap (Users \cup Orders) = {}
  /\ EscrowKeys \subseteq [order : Orders, hashlock : Hashes, taker : Users, amount : Nat]
  /\ Keccak \in [Secrets -> Hashes]
  /\ RENT_ORDER \in Nat /\ RENT_ESCROW \in Nat
  /\ RewardLimits \subseteq Nat
  /\ InitSol \in [Users -> Nat]
  /\ InitTokens \in [Users \X Mints -> Nat]
  /\ InitResolvers \subseteq Users
  /\ MaxTime \in U32

ASSUME TermsAssumption == Terms \in [Orders -> TermsSet]

VARIABLES
  now,             \* the chain's clock
  order,           \* the Order accounts: what changes in them
  escrow,          \* the EscrowSrc accounts: what their address does not fix
  bank,            \* lamports and token accounts
  resolver_access, \* the users with a ResolverAccess account
  revealed,        \* the secrets that the makers have disclosed
  fills,           \* history: the fills of each order since its creation
  late             \* history: the escrows created after their order's rescue start

vars == <<now, order, escrow, bank, resolver_access, revealed, fills, late>>


OrderState == [live : BOOLEAN, remaining_amount : Nat, timelocks : TimelockWords]
NoOrder == [live |-> FALSE, remaining_amount |-> 0, timelocks |-> NoTimelocks]

EscrowState == [live : BOOLEAN, timelocks : TimelockWords, dst_amount : U256]
NoEscrow == [live |-> FALSE, timelocks |-> NoTimelocks, dst_amount |-> 0]

\* A fill takes the tokens of its order from number "from" + 1 up to "upto".
Fill == [index : Nat, from : Int, upto : Int, dst_amount : U256]

-----------------------------------------------------------------------------
\* Shorthands.

Token(o) == Terms[o].token
Maker(k) == Terms[k.order].creator
OrderAta(o) == Ata(o, Token(o))
EscrowAta(k) == Ata(k, Token(k.order))
AtaOf(u, o) == Ata(u, Token(o))

\* The instruction's chain of calls succeeded: its effects are committed.
Commit(L) == L.ok /\ bank' = L

-----------------------------------------------------------------------------
\* create

\* Mutant: the premium is not compared with the lamports of the ATA.
CreateAllowed_AnyPremium(o, L) ==
  LET t == Terms[o]
  IN  /\ t.allow_multiple_fills => t.parts > 1
      /\ now < t.expiration_time
      /\ t.amount # 0 /\ t.safety_deposit # 0 /\ t.safety_deposit <= RENT_ESCROW
      /\ t.asset_is_native => t.token = NATIVE_MINT

CreateAllowed(o, L) ==
  LET t == Terms[o]
  IN  /\ L.ata[OrderAta(o)].lamports >= t.max_cancellation_premium
      /\ t.allow_multiple_fills => t.parts > 1
      /\ now < t.expiration_time
      /\ t.amount # 0 /\ t.safety_deposit # 0
      /\ t.safety_deposit <= RENT_ESCROW
      /\ t.asset_is_native => t.token = NATIVE_MINT

\* Mutant: the lamports are not wrapped.
DepositOrder_NotSynced(L, o) ==
  IF Terms[o].asset_is_native
  THEN UniTransferToAta(L, Terms[o].creator, OrderAta(o), Terms[o].amount)
  ELSE UniTransferToken(L, AtaOf(Terms[o].creator, o), OrderAta(o), Terms[o].amount)

\* A native asset is moved as lamports and wrapped.
DepositOrder(L, o) ==
  LET t == Terms[o]
  IN  IF t.asset_is_native
      THEN SyncNative(UniTransferToAta(L, t.creator, OrderAta(o), t.amount), OrderAta(o))
      ELSE UniTransferToken(L, AtaOf(t.creator, o), OrderAta(o), t.amount)

\* The maker pays for the accounts, which exist before the handler's first check.
CreateAccounts(o) ==
  InitIfNeededAta(InitAccount(bank, Terms[o].creator, o, RENT_ORDER), Terms[o].creator,
                  OrderAta(o))

Create(o) ==
  LET t == Terms[o]
      L == CreateAccounts(o)
  IN  /\ ~order[o].live
      /\ t.asset_is_native \/ bank.ata[AtaOf(t.creator, o)].live
      /\ CreateAllowed(o, L)
      /\ Commit(DepositOrder(L, o))
      /\ order' = [order EXCEPT ![o] =
                     [live             |-> TRUE,
                      remaining_amount |-> t.amount,
                      timelocks        |-> SetDeployedAt(t.timelocks, now)]]
      /\ fills' = [fills EXCEPT ![o] = <<>>]
      /\ UNCHANGED <<now, escrow, resolver_access, revealed, late>>

-----------------------------------------------------------------------------
\* create_escrow

\* The proofs that a taker can give: one for each leaf of the tree or, for a
\* single-fill order, none, written as the order's own hashlock.
Proofs(o) ==
  IF Terms[o].allow_multiple_fills THEN Terms[o].leaves
  ELSE {[index |-> 0, hashed_secret |-> Terms[o].hashlock]}

\* Mutant: no comparison with what remains.
FillAmountAllowed_TooMuch(o, amount) ==
  Terms[o].allow_multiple_fills \/ amount = Terms[o].amount

FillAmountAllowed(o, amount) ==
  IF Terms[o].allow_multiple_fills THEN amount <= order[o].remaining_amount
  ELSE amount = Terms[o].amount

FillIndexAllowed(o, amount, index) ==
  Terms[o].allow_multiple_fills =>
    IsValidPartialFill(amount, order[o].remaining_amount, Terms[o].amount,
                       Terms[o].parts, index)

Completes(o, amount) == order[o].remaining_amount = amount

\* Mutant: every fill takes everything the order's ATA holds.
AmountToTransfer_All(o, amount) == bank.ata[OrderAta(o)].amount

\* The completing fill takes everything the order's ATA holds.
AmountToTransfer(o, amount) ==
  IF Completes(o, amount) THEN bank.ata[OrderAta(o)].amount ELSE amount

\* Mutant: the ATA is left open.
CloseOrder_KeepsAta(L, o, to) == CloseAccount(L, o, to)

\* With the last fill the order's accounts are closed in favour of the maker.
CloseOrder(L, o, to) == CloseAccount(CloseAta(L, OrderAta(o), to), o, to)

LastFill(o, amount) == ~Terms[o].allow_multiple_fills \/ Completes(o, amount)

\* The taker pays for the accounts.
FillAccounts(k) ==
  InitIfNeededAta(InitAccount(bank, k.taker, k, RENT_ESCROW), k.taker, EscrowAta(k))

FillBank(k) ==
  LET T == UniTransferToken(FillAccounts(k), OrderAta(k.order), EscrowAta(k),
                            AmountToTransfer(k.order, k.amount))
  IN  IF LastFill(k.order, k.amount) THEN CloseOrder(T, k.order, Maker(k)) ELSE T

EscrowTimelocks(o) == SetDeployedAt(order[o].timelocks, now)

FillDst(k) ==
  GetDstAmount(ScaledDstAmount(Terms[k.order].dst_amount, k.amount, Terms[k.order].amount),
               now, Terms[k.order].auction)

CreateEscrow(k, proof) ==
  LET o == k.order
      t == Terms[o]
  IN  /\ order[o].live /\ ~escrow[k].live
      /\ k.taker \in resolver_access
      /\ bank.ata[OrderAta(o)].live
      /\ FillAmountAllowed(o, k.amount)
      /\ now < t.expiration_time
      /\ proof \in Proofs(o) /\ k.hashlock = proof.hashed_secret
      /\ FillIndexAllowed(o, k.amount, proof.index)
      /\ DstAmountFits(t.dst_amount, k.amount, t.amount, now, t.auction)
      /\ Commit(FillBank(k))
      /\ escrow' = [escrow EXCEPT ![k] = [live       |-> TRUE,
                                          timelocks  |-> EscrowTimelocks(o),
                                          dst_amount |-> FillDst(k)]]
      /\ order' = [order EXCEPT ![o] =
                     IF LastFill(o, k.amount) THEN NoOrder
                     ELSE [order[o] EXCEPT !.remaining_amount = @ - k.amount]]
      /\ fills' = [fills EXCEPT ![o] = Append(@,
                     [index |-> proof.index,
                      from  |-> t.amount - order[o].remaining_amount,
                      upto  |-> t.amount - order[o].remaining_amount + k.amount,
                      dst_amount |-> FillDst(k)])]
      /\ late' = IF now >= RescueStart(order[o].timelocks)
                 THEN late \cup {k} ELSE late \ {k}
      /\ UNCHANGED <<now, resolver_access, revealed>>

-----------------------------------------------------------------------------
\* withdraw and public_withdraw

\* Mutant: the window has no end.
WithdrawOpen_NoEnd(k, stage) == Reached(escrow[k].timelocks, stage, now)

WithdrawOpen(k, stage) ==
  Reached(escrow[k].timelocks, stage, now) /\ Before(escrow[k].timelocks, "SrcCancellation", now)

\* Mutant: the secret is not compared.
HashlockOpened_Any(k, secret) == TRUE

HashlockOpened(k, secret) == Keccak[secret] = k.hashlock

\* utils::withdraw, then the close of the escrow account: the taker gets the
\* rent, and "recipient" the safety deposit out of it.
WithdrawBank(k, recipient) ==
  LET W == WithdrawAndCloseTokenAta(bank, EscrowAta(k), AtaOf(k.taker, k.order), k.taker)
      D == PaySafetyDeposit(W, k, Terms[k.order].safety_deposit, k.taker, recipient)
  IN  CloseAccount(D, k, k.taker)

CloseEscrow(k) == escrow' = [escrow EXCEPT ![k] = NoEscrow]

\* Anybody may pass a secret that its maker has disclosed.
WithdrawWith(k, secret, recipient) ==
  /\ escrow[k].live
  /\ secret \in revealed
  /\ HashlockOpened(k, secret)
  /\ bank.ata[EscrowAta(k)].live /\ bank.ata[AtaOf(k.taker, k.order)].live
  /\ Commit(WithdrawBank(k, recipient))
  /\ CloseEscrow(k)
  /\ UNCHANGED <<now, order, resolver_access, revealed, fills, late>>

\* Signed by the taker, who need not be whitelisted any more.
Withdraw(k, secret) ==
  WithdrawOpen(k, "SrcWithdrawal") /\ WithdrawWith(k, secret, k.taker)

PublicWithdraw(k, secret, payer) ==
  /\ payer \in resolver_access
  /\ WithdrawOpen(k, "SrcPublicWithdrawal")
  /\ WithdrawWith(k, secret, payer)

-----------------------------------------------------------------------------
\* cancel_escrow and public_cancel_escrow

CancelBank(k, recipient) ==
  LET t == Terms[k.order]
      P == ProcessPayout(bank, k, t.token, t.asset_is_native, k.amount, t.creator, k.taker)
      D == PaySafetyDeposit(P, k, t.safety_deposit, k.taker, recipient)
  IN  CloseAccount(D, k, k.taker)

CancelTo(k, recipient) ==
  /\ escrow[k].live
  /\ bank.ata[EscrowAta(k)].live
  /\ Terms[k.order].asset_is_native \/ bank.ata[AtaOf(Maker(k), k.order)].live
  /\ Commit(CancelBank(k, recipient))
  /\ CloseEscrow(k)
  /\ UNCHANGED <<now, order, resolver_access, revealed, fills, late>>

CancelOpen(k, stage) == Reached(escrow[k].timelocks, stage, now)

\* Mutant: only a whitelisted taker may cancel.
CancelEscrow_Whitelisted(k) ==
  /\ k.taker \in resolver_access
  /\ CancelOpen(k, "SrcCancellation")
  /\ CancelTo(k, k.taker)

\* Signed by the taker.
CancelEscrow(k) == CancelOpen(k, "SrcCancellation") /\ CancelTo(k, k.taker)

PublicCancelEscrow(k, payer) ==
  /\ payer \in resolver_access
  /\ CancelOpen(k, "SrcPublicCancellation")
  /\ CancelTo(k, payer)

-----------------------------------------------------------------------------
\* cancel_order and cancel_order_by_resolver

\* Mutant: the tokens are left to the close of the ATA.
RefundTokens_None(L, o) == L

\* The maker's tokens go back to its own ATA; a native asset is instead part
\* of the lamports of the order's ATA.
RefundTokens(L, o) ==
  IF Terms[o].asset_is_native THEN L
  ELSE UniTransferToken(L, OrderAta(o), AtaOf(Terms[o].creator, o), L.ata[OrderAta(o)].amount)

MakerCanBeRefunded(o) ==
  Terms[o].asset_is_native \/ bank.ata[AtaOf(Terms[o].creator, o)].live

DropOrder(o) == order' = [order EXCEPT ![o] = NoOrder]

\* Signed by the maker, at any time.
CancelOrder(o) ==
  /\ order[o].live
  /\ bank.ata[OrderAta(o)].live /\ MakerCanBeRefunded(o)
  /\ Commit(CloseOrder(RefundTokens(bank, o), o, Terms[o].creator))
  /\ DropOrder(o)
  /\ UNCHANGED <<now, escrow, resolver_access, revealed, fills, late>>

\* Mutant: the comparison is the wrong way round.
OrderExpired_Flipped(o) == now < Terms[o].expiration_time

OrderExpired(o) == now >= Terms[o].expiration_time

Premium(o) ==
  CalculatePremium(now, Terms[o].expiration_time, Terms[o].cancellation_auction_duration,
                   Terms[o].max_cancellation_premium)

\* Mutant: the limit is taken for the premium.
ResolverReward_Limit(o, reward_limit) == reward_limit

\* The resolver receives the lamports of the order's ATA and passes on all
\* but its premium, which it may limit itself.
ResolverReward(o, reward_limit) ==
  IF Premium(o) <= reward_limit THEN Premium(o) ELSE reward_limit

\* Mutant: the maker gets the ATA's lamports, and the resolver passes them on too.
ResolverCancelBank_ClosedToMaker(o, resolver, reward_limit) ==
  LET R == RefundTokens(bank, o)
      C == CloseAta(R, OrderAta(o), Terms[o].creator)
      rest == R.ata[OrderAta(o)].lamports - ResolverReward(o, reward_limit)
  IN  CloseAccount(Attempt(C, rest >= 0, UniTransferNative(C, resolver, Terms[o].creator, rest)),
                   o, Terms[o].creator)

ResolverCancelBank(o, resolver, reward_limit) ==
  LET R == RefundTokens(bank, o)
      lamports == R.ata[OrderAta(o)].lamports
      reward == ResolverReward(o, reward_limit)
      C == CloseAta(R, OrderAta(o), resolver)
      M == Attempt(C, reward <= lamports,
                   UniTransferNative(C, resolver, Terms[o].creator, lamports - reward))
  IN  CloseAccount(M, o, Terms[o].creator)

CancelOrderByResolver(o, resolver, reward_limit) ==
  LET t == Terms[o]
  IN  /\ order[o].live
      /\ resolver \in resolver_access
      /\ OrderExpired(o)
      /\ t.max_cancellation_premium > 0
      /\ bank.ata[OrderAta(o)].live /\ MakerCanBeRefunded(o)
      /\ PremiumFits(now, t.expiration_time, t.cancellation_auction_duration,
                     t.max_cancellation_premium)
      /\ Commit(ResolverCancelBank(o, resolver, reward_limit))
      /\ DropOrder(o)
      /\ UNCHANGED <<now, escrow, resolver_access, revealed, fills, late>>

-----------------------------------------------------------------------------
\* rescue_funds_for_escrow and rescue_funds_for_order

Rescue(owner, recipient, mint, rescue_amount) ==
  /\ bank.ata[Ata(owner, mint)].live /\ bank.ata[Ata(recipient, mint)].live
  /\ Commit(RescueFunds(bank, owner, recipient, mint, rescue_amount))
  /\ UNCHANGED <<now, order, escrow, resolver_access, revealed, fills, late>>

\* Signed by the taker of the escrow's address.
RescueFundsForEscrow(k, mint, rescue_amount) ==
  /\ RescueOpen(escrow[k].live, escrow[k].timelocks, now)
  /\ Rescue(k, k.taker, mint, rescue_amount)

RescueFundsForOrder(o, resolver, mint, rescue_amount) ==
  /\ resolver \in resolver_access
  /\ RescueOpen(order[o].live, order[o].timelocks, now)
  /\ Rescue(o, resolver, mint, rescue_amount)

-----------------------------------------------------------------------------
\* The environment.

Tick ==
  /\ now < MaxTime
  /\ now' = now + 1
  /\ UNCHANGED <<order, escrow, bank, resolver_access, revealed, fills, late>>

\* A maker discloses a secret off chain, for good.
RevealSecret(s) ==
  /\ s \notin revealed
  /\ revealed' = revealed \cup {s}
  /\ UNCHANGED <<now, order, escrow, bank, resolver_access, fills, late>>

\* The whitelist program, on behalf of its authority.
Register(u) ==
  /\ u \notin resolver_access
  /\ resolver_access' = resolver_access \cup {u}
  /\ UNCHANGED <<now, order, escrow, bank, revealed, fills, late>>

Deregister(u) ==
  /\ u \in resolver_access
  /\ resolver_access' = resolver_access \ {u}
  /\ UNCHANGED <<now, order, escrow, bank, revealed, fills, late>>

BankOnly == UNCHANGED <<now, order, escrow, resolver_access, revealed, fills, late>>

\* Anybody can open the ATA of any address, before or after the address is
\* used, and send tokens or lamports to it; and sync_native needs no signature.
OutsideOpen(u, a) == Commit(OpenAta(bank, u, a)) /\ BankOnly
OutsideDeposit(u, a, n) == Commit(TransferTokens(bank, Ata(u, a[2]), a, n)) /\ BankOnly
OutsideLamports(u, a, n) == Commit(FundAta(bank, u, a, n)) /\ BankOnly
OutsideSync(a) == Commit(SyncNative(bank, a)) /\ bank' # bank /\ BankOnly

\* Users close token accounts of their own; wrapped SOL is unwrapped by it.
CloseOwnAta(a) == Commit(CloseAta(bank, a, a[1])) /\ BankOnly

-----------------------------------------------------------------------------
\* The specification.

Init ==
  /\ now = 0
  /\ order = [o \in Orders |-> NoOrder]
  /\ escrow = [k \in EscrowKeys |-> NoEscrow]
  /\ bank = [sol |-> [x \in Owners |-> IF x \in Users THEN InitSol[x] ELSE 0],
             ata |-> [a \in Owners \X Mints |->
                        IF a[1] \in Users
                        THEN [live     |-> TRUE,
                              amount   |-> InitTokens[a],
                              lamports |-> RENT_ATA + TokenLamports(a, InitTokens[a])]
                        ELSE NoAta],
             ok  |-> TRUE]
  /\ resolver_access = InitResolvers
  /\ revealed = {}
  /\ fills = [o \in Orders |-> <<>>]
  /\ late = {}

OrderStep(o) ==
  \/ Create(o)
  \/ CancelOrder(o)
  \/ \E r \in Users, limit \in RewardLimits : CancelOrderByResolver(o, r, limit)
  \/ \E r \in Users, m \in Mints : \E n \in 0..bank.ata[Ata(o, m)].amount :
       RescueFundsForOrder(o, r, m, n)

EscrowStep(k) ==
  \/ \E proof \in Proofs(k.order) : CreateEscrow(k, proof)
  \/ \E s \in Secrets : Withdraw(k, s)
  \/ \E s \in Secrets, payer \in Users : PublicWithdraw(k, s, payer)
  \/ CancelEscrow(k)
  \/ \E payer \in Users : PublicCancelEscrow(k, payer)
  \/ \E m \in Mints : \E n \in 0..bank.ata[Ata(k, m)].amount : RescueFundsForEscrow(k, m, n)

OutsideStep(u, a) ==
  \/ OutsideOpen(u, a)
  \/ \E n \in 1..bank.ata[Ata(u, a[2])].amount : OutsideDeposit(u, a, n)
  \/ \E n \in 1..bank.sol[u] : OutsideLamports(u, a, n)
  \/ OutsideSync(a)

UserAtaStep(u, a) == OutsideOpen(u, a) \/ (a[1] = u /\ CloseOwnAta(a))

Next ==
  \/ Tick
  \/ \E s \in Secrets : RevealSecret(s)
  \/ \E u \in Resolvers : Register(u) \/ Deregister(u)
  \/ \E o \in Orders : OrderStep(o)
  \/ \E k \in EscrowKeys : EscrowStep(k)
  \/ \E u \in Outsiders : \E a \in (Orders \cup EscrowKeys) \X Mints : OutsideStep(u, a)
  \/ \E u \in Closers : \E a \in Users \X Mints : UserAtaStep(u, a)

Spec == Init /\ [][Next]_vars

\* Time passes; a taker, who signs cancel_escrow and gets the rent back by it,
\* eventually does so if it stays possible; and so does some whitelisted resolver
\* take the premium of an expired order.
FairSpec ==
  /\ Spec
  /\ WF_vars(Tick)
  /\ \A k \in EscrowKeys : WF_vars(CancelEscrow(k))
  /\ \A o \in Orders :
       WF_vars(\E r \in Users, limit \in RewardLimits : CancelOrderByResolver(o, r, limit))

=============================================================================
