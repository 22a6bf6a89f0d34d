# A verification of the Solana cross-chain protocol

TLA+ models of the programs in this repository, the TLC runs that check them on
small instances, and the theorems about them that TLAPS proves.

## 1. The system

A swap moves a maker's tokens on one chain and a resolver's (the *taker's*) on
another, tied together by the hash of a secret. This repository holds the Solana
side of both ends: a source-chain program and a destination-chain program, the
code they share, and a whitelist of resolvers.

| Component | Source | State | Operations |
|---|---|---|---|
| Source escrow program | `programs/cross-chain-escrow-src/src/{lib,utils}.rs` | `Order` and `EscrowSrc` accounts, a token account (ATA) for each | `create`, `create_escrow`, `withdraw`, `public_withdraw`, `cancel_escrow`, `public_cancel_escrow`, `cancel_order`, `cancel_order_by_resolver`, `rescue_funds_for_escrow`, `rescue_funds_for_order` |
| Destination escrow program | `programs/cross-chain-escrow-dst/src/{lib,utils}.rs` | `EscrowDst` accounts, an ATA for each | `create`, `withdraw`, `public_withdraw`, `cancel`, `rescue_funds` |
| Shared transfers | `common/src/escrow.rs` | none | `uni_transfer`, `withdraw_and_close_token_ata`, `process_payout`, `rescue_funds` |
| Timelocks | `common/src/timelocks.rs`, `constants.rs` | one 256-bit word per order or escrow | `set_deployed_at`, `rescue_start`, `get` |
| Auction | `programs/cross-chain-escrow-src/src/auction.rs` | none | `calculate_rate_bump`, `calculate_premium` |
| Partial fills | `is_valid_partial_fill` in `lib.rs`, `merkle_tree.rs` | the order's `remaining_amount` | the index rule, the proof of a leaf |
| Whitelist program | `programs/whitelist/src/lib.rs` | the authority, a `ResolverAccess` account per resolver | `initialize`, `register`, `deregister`, `set_authority` |
| Solana (external) | System, SPL Token, Associated Token programs | lamports, token accounts | transfers, open, close, `sync_native` |

**How they interact.** Every instruction is one transaction: it runs atomically,
or an error anywhere in it reverts all of it. What interleaves are transactions,
sent by makers, takers, other whitelisted resolvers, the whitelist authority, and
by anyone who sends tokens or lamports to an address or opens its ATA, and the
clock. The two ends of a swap share no state: they are related only by the
secret's hash, the timelocks and the destination amount written in the source escrow.

**What is hard.** Time windows that race (withdrawal, cancellation, rescue, order
expiry, auction); sequences of partial fills; balances that differ from the
recorded amounts because anybody can add to them and a rescue can take from them;
native lamports that are also wrapped tokens and rent; rents of four accounts
returned along several endings; addresses that can be created again; arithmetic
that aborts on overflow and so can block an exit. `PROJECT.json` lists each
hazard at its line with the properties that watch it.

## 2. The modules

| Module | Models | Kind |
|---|---|---|
| `Widths` | integer widths | constants |
| `Timelocks` | `timelocks.rs`, rescue delay | operators |
| `PackedTimelocks` | the 256-bit word of `timelocks.rs` | operators |
| `Ledger` | lamports and ATAs (external) | operators on a *bank* |
| `EscrowCommon` | `common/src/escrow.rs` | operators on a bank |
| `Auction` | `auction.rs`, `get_dst_amount` | operators |
| `RateBumpLoop` | the loop of `calculate_rate_bump`, statement by statement | operators |
| `MerkleTree` | `merkle_tree.rs`, and the tree that the tests build | operators |
| `PartialFill` | `is_valid_partial_fill` | operators |
| `EscrowSrc` | the source program and its environment | state machine |
| `EscrowSrcProperties` | its properties, and the refinement of `HashTimelock` | |
| `MCEscrowSrc` | its instances | |
| `EscrowDst` | the destination program and its environment | state machine |
| `EscrowDstProperties` | its properties, and the refinement of `HashTimelock` | |
| `MCEscrowDst` | its instances | |
| `LockStates`, `HashTimelock` | what an escrow of either program promises | abstract specification |
| `Whitelist` | the whitelist program | actions |
| `Swap` | both programs, the whitelist and the parties' policies, one clock | state machine |
| `MCSwap`, `MCAlgorithms` | instances of the swap and of the algorithms | |
| `LedgerProofs` | lemmas about `Ledger` and `EscrowCommon` | proofs |
| `EscrowSrcProofs`, `EscrowDstProofs` | theorems about the two programs | proofs |
| `EscrowSrcFillProofs` | theorems about the secrets, the prices and the rest of partial fills | proofs |
| `EscrowSrcSettleProofs` | theorems about the lamports of the source program's accounts, how orders and escrows end, and the refinement | proofs |
| `SwapProofs` | theorems about the two escrows of a fill, and that a swap is a behaviour of both programs | proofs |
| `AuctionProofs` | lemmas about recursion, division and the curve of `Auction` | proofs |
| `AlgorithmProofs` | theorems about the loop, the packed word and the tree | proofs |

**State of `EscrowSrc`.** `order` and `escrow` are the program's accounts, as
functions on their addresses with a `live` flag; an address *is* what it is the
hash of, so an escrow is the record of order, hashlock, taker and amount, and
`Terms` gives the arguments of `create` that an order hash covers. `bank` holds
lamports and ATAs, `resolver_access` the whitelist, `now` the clock, `revealed`
the secrets that makers have disclosed off chain. `fills` and `late` are history.

**State of `EscrowDst`.** The same, without orders: `escrow` maps an address (order
hash, hashlock, creator, amount) to the other fields of the `EscrowDst` account, which
are arguments of `create` (an *offer*) that the address does not fix, so the same
address may serve different offers one after the other.

**Actions.** One per instruction, under the handler's name, with the guards of the
handler and of its accounts context. An instruction's calls are a chain of
operators from one bank to the next; any failing call leaves `ok = FALSE`, and
`Commit` only lets chains that end with `ok = TRUE` be steps. The environment is
`Tick`, `RevealSecret`, `Register`, `Deregister`, the `Outside...` actions, and the users
in `Closers`, who close their own token accounts (`CloseOwnAta`). A closed account can be
opened again: by the same users on the source chain (`UserAtaStep`), by outsiders on the
destination chain (`OutsideOpen`), where a withdrawal opens the recipient's account too.

**The abstract escrow.** `HashTimelock` knows nothing of accounts, rents, deposits or
signers. A lock is free, expired (past its rescue start, when nothing is promised of it
any more) or locked, with a payee, a payer, a deadline and an expiry. It is redeemed only
before the deadline with its secret out, and its payee then gains the amount; it is
refunded only from the deadline on, and its payer then gains the amount; it expires only
at its expiry; otherwise it stays as it is, and while it is locked the amount is behind
it. The refinement mappings read the lock off the program's account (`LockOf`) and the
rest off the bank (`held`, `wealth`): each user's wealth in a token is the amount of its
ATA, and its wealth in lamports what the operators `Lamports` count, so an escrow of a
native asset refunds lamports while it pays the taker in wrapped SOL on the source chain.
`ImplementsHashTimelock == Lock!Spec` is a property of three runs.

**The swap.** `Swap` instantiates both programs (with their properties) on disjoint state and one
clock and set of disclosed secrets; their `resolver_access` is what `Whitelist` holds for
the client. `Partner` names the destination escrow that pays for a source escrow. What
ties the two ends together is not in this repository, so the parties' policies are
conjuncts of `Swap`'s actions, or assumed of its terms, as listed at its head: the maker offers
fresh secrets only, one for each part, leaves the taker a window to withdraw, lets others cancel
no earlier than the taker and everybody cancel no later than the rescue start, and discloses a
secret only against destination escrows that pay, that have a public window and that a watcher can
serve; the taker fills no order past its rescue start, locks only against a live source escrow and
gives `create` its true cancellation time; who gains from a disclosed secret does not let its last
moment pass (`Tick` waits for it). That the last is possible is itself checked
(`LastCallAnswered`). Users keep their own token accounts here (`Closers` is empty); what happens
when they close them is a matter of the single programs. One clock for both chains is an
assumption: with skew, the relation of the two cancellation times would have to be stricter by the
skew. Everything else is free: who fills what and when, whether secrets come out, what is rescued
(`OrderRescued`, `SrcRescued`, `DstRescued`, under the programs' own guards), what strangers send
to the programs' token accounts on both chains (`SrcStranger`, `DstStranger`, by users that are
party to no swap: `StrangersAssumption`), and what the authority does with the whitelist, except to
remove a registered watcher (the parties that serve public withdrawals, put up no escrows and have
the lamports for the recipients' token accounts: `WatchersAssumption`).

**Abstractions.** Merkle proofs are the set of leaves that verify; timelock words are
functions on the eight field names instead of a packed integer; the auction data is part
of the terms instead of being matched by hash. `MerkleTree` and `PackedTimelocks` model
what these stand for and show that they agree. Left out: transaction fees, Token-2022
extensions, lamports sent to addresses that hold no account yet, and u64 overflow of
balances (the supply of a mint is itself a u64). `cancel_escrow` is signed by the taker,
although `README.md` describes its stage as one where "the maker can cancel"; the model
follows the code.

## 3. The runs

All instances use a rent of 2 for a token account, 1 for a program account, single
digit amounts, withdrawal windows at 1, 2 and cancellation at 3, 4 after deployment,
and a clock bounded by `MaxTime`, at which a run stops (hence
`CHECK_DEADLOCK FALSE`: the bound on the clock, not the program, ends it).

| Run | Instance | Properties | Expected |
|---|---|---|---|
| `EscrowSrcSpl` | one SPL order, filled whole, two resolvers racing, maker and taker closing and opening their own token accounts; up to the rescues | `NothingStranded`, `NeverStuck`, `EscrowSettled`, `DepositToResolver`, `OnlyCreatorsPay`, `OrderSettled` | hold |
| `EscrowSrcGifts` | two SPL orders competing for the same tokens; an outsider opens accounts, sends tokens and lamports; the second order's premium exceeds the rent | `OrderFunded`, `EscrowFunded`, `PremiumCovered`, `ImplementsHashTimelock` | hold |
| `EscrowSrcNative` | an order of lamports and one of wrapped SOL, an outsider that adds lamports and syncs; up to the rescues | `OrderFunded`, `EscrowFunded`, `NeverStuck`, `ImplementsHashTimelock`, `RescueSettled`, `OrderSettled` | hold |
| `EscrowSrcHalves` | four tokens in two parts, every sequence of fills, falling auction, an outsider | `TypeOK`, `OrderFunded`, `DistinctSecrets`, `AlwaysCompletable`, `FillsPayTheirShare`, `OrderSettled` | hold |
| `EscrowSrcEnds` | the secret may never come, the maker never act, the taker lose its whitelisting | `EscrowEnds`, `OrderEnds` | hold |
| `EscrowSrcLessThanFilled` | an order in parts that outlives its rescue start | `FillOnlyIncreases` | violated |
| `EscrowSrcRescuedFirst` | rescue delay shorter than the cancellation time | `WithdrawnOrCancelled` | violated |
| `EscrowSrcEndless` | a cancellation delta near the largest `u32` | `EscrowEnds` | violated |
| `EscrowDstEscrow` | one address used again for tokens, lamports or wrapped SOL, an outsider, creator and recipient closing their own token accounts, a recipient who is itself a resolver | `TypeOK`, `EscrowFunded`, `NeverStuck`, `ImplementsHashTimelock`, `DepositToResolver`, `OnlyCreatorsPay` | hold |
| `EscrowDstEnds` | offers with and without an overflowing cancellation time | `EscrowEnds` | holds |
| `Swap` | an order in two parts filled, paid for and disclosed fill by fill; the whitelist set up and changed by two authorities; a stranger and rescues | `MakerWhole`, `TakerWhole`, `LastCallAnswered` | hold |
| `Algorithms` | every small auction, time, word of timelocks and tree | `LoopComputesRate`, `LoopInsideAuction`, `RateFalls`, `PackedAgrees`, `OnlyLeavesVerify`, `EveryLeafVerifies` | hold |

What they show, by question:

- *Is the money there?* `OrderFunded`, `EscrowFunded`: before the rescue start the ATA
  of a live account holds what the program still has to pay out of it (on the
  destination chain, for a native asset, as lamports beyond the rent). The exception,
  escrows made from an order past its own rescue start, is the set `late`. From the rescue
  start on nothing is promised of the balance, but `RescueSettled` says where it goes: while no
  order or escrow begins or ends, what leaves one of its token accounts goes to one party
  that may rescue it, in however many parts, and the account closes exactly when it is empty,
  its other lamports going to that party, too.
- *Does it go to the right party?* `ImplementsHashTimelock`, for each escrow in its own
  asset; `EscrowSettled` says the same of tokens directly: a funded escrow ends either
  paid, with its secret disclosed and before its cancellation time, or refunded, after it,
  in full and in the form in which the asset was locked. `OrderSettled`: an order that a
  fill ends leaves the rest in the new escrow; one that is cancelled returns tokens and
  rent to the maker, less at most the premium. `DepositToResolver`: when the taker or
  creator signs the end of an escrow, the lamports put into it come back to it; when
  another resolver signs, that very resolver gets the safety deposit and the taker or
  creator the rest. On the destination chain the signer, and nobody else, is charged for
  the recipient's account if it is opened, which may cost more than the deposit brings: no
  property promises a resolver a gain. `NothingStranded`: closed accounts leave nothing
  behind.
- *Who pays?* `OnlyCreatorsPay`: an instruction takes tokens and lamports from the maker
  that puts up an order, lamports from the taker that fills one, both from the creator of
  a destination escrow, and from nobody else: not from the resolver that passes a
  cancelled order's lamports on, nor from those for whom an account is ended; and it
  closes no token account of a user. Who withdraws on the destination chain pays at most
  for the recipient's account, less the safety deposit. Outside transfers, and users that
  close their own accounts, are excepted.
- *Does a swap as a whole keep both sides?* `MakerWhole`: whenever a taker has been paid
  on the source chain, its maker has been paid on the destination chain or still can be.
  `TakerWhole`: the converse. Both rest on the order of the two cancellation times that the
  destination's `create` checks, on the index rule, which keeps a secret from opening two
  fills, and on the windows in which a secret opens an escrow; without either check
  (the mutants) a party loses its side.
- *Do partial fills add up?* `DistinctSecrets`: no secret opens two fills of an order.
  `AlwaysCompletable`: whatever has been filled, some leaf of the tree admits a fill of
  all that remains. `FillsPayTheirShare`: the destination amount of each fill is no
  less than its share of the whole, so that fills of the whole order pay all of it.
- *Does it end?* `EscrowEnds`, `OrderEnds`. `NeverStuck`: within its window, an ending of
  an order or escrow that is still funded can only fail for want of a party's own token
  account (on the source chain the maker's, in `cancel_escrow` and `cancel_order`, and the
  taker's in a withdrawal; on the destination chain the creator's, in `cancel`), which
  anybody can open again. `LastCallAnswered`: the same for the last moment of a disclosed
  secret. And `PremiumCovered`: the premium of a live order can be paid out of the
  lamports of its ATA, so that a resolver's cancellation is not blocked by it. Orders of wrapped
  SOL taken as a token are excepted: the lamports of their tokens counted when `create`
  compared the premium, and the refund takes them away first, so that a resolver's
  cancellation may abort, as it does in the model. Their maker can still cancel.
- *Do the algorithms compute what the rest of the model takes them to?* The loop of
  `calculate_rate_bump` against the curve (`LoopComputesRate`), which never rises while its
  points fall (`RateFalls`); the shifted and masked word against the function of fields
  (`PackedAgrees`); a proof verifies for its own leaf and for no other (`EveryLeafVerifies`,
  `OnlyLeavesVerify`), with a hash assumed free of collisions.

`EscrowSrcProperties` and `EscrowDstProperties` state each with the code it is about.

**Why the bounds are enough for what they show.** Each window edge, the expiry, both ends
of the auction and the rescue start lie inside the clock bound, so each comparison is
exercised just before, at and after its limit. Two takers are enough for a race; four
tokens in two parts give every kind of fill (within a part, across a boundary, completing,
of zero); one outsider with one token or a few lamports makes every balance exceed what is
recorded. The three amounts of a swap (tokens, rent, deposit) are different, so mixing
them up shows. In `Swap`, the times 0 to 4 contain the windows of both chains for a fill
at once, up to its cancellation, and the withdrawal windows of a fill a second later,
whose last moments are 3 on the destination and 4 on the source chain; the offers claim a
cancellation before, at and after the source's, one that overflows, and one that leaves no
public window; two secrets are enough for one to be out while the other is not; the rescue
delay of 4 lies inside the clock bound, so that the order and the first escrow are rescued
while a later one is still open. `Algorithms` takes fields of three values instead of 2^32
(the shifts are divisions and remainders by the width of a field, whatever it is), rates
of three bytes of two values each (`BYTE`), auctions of up to two points (rising, falling,
coinciding or past the end) and trees of two to five leaves, one of which uses a secret
twice.

**Every property has a mutant**: an operator next to the one it mutates, with a
plausible slip (a missing guard, a wrong recipient, a rounding direction), under
which TLC finds the property violated in the same run.

**Fairness.** Only the two `...Ends` runs and `EscrowSrcEndless` use `FairSpec`. It
assumes weak fairness of `Tick` (time passes) and of the cancellations whose signer gains
by them: `cancel_escrow` by the taker, who has paid the rents of the escrow and gets them
back; `cancel_order_by_resolver`, where any whitelisted resolver earns the premium;
`cancel` by the destination's creator, whose own funds are locked. Nothing is assumed of
the maker, of the disclosure of secrets, of withdrawals or of the whitelist authority.
Weak fairness suffices because each of these cancellations, once open, stays enabled until
the account is gone: windows have no end, and nobody else can close the signer's token
accounts. `Closers` is empty in these runs: a maker that closes its own token account does
block `cancel_escrow` until somebody opens it, and `NeverStuck` says that nothing else
does. `Swap` states safety only: its endings are those of the single programs.

**Disagreements with the repository's own statements.** Three runs expect a violation;
`PROJECT.json` quotes the statements under "findings". (1) A completing fill may
transfer *less* than its amount, when the order was partly rescued first. (2) The
rescue start is not related to the cancellation time, so a live escrow's tokens may
be rescued before it can be cancelled. (3) A cancellation time that overflows `u32`
is accepted at creation and then blocks withdrawal and cancellation alike.

## 4. The proofs

The runs are small; the theorems hold for every set of users, orders, escrows, terms,
amounts, rents and clock bounds that meets the assumptions named in the modules
(`WidthsAssumption`, `TimelocksAssumption`, `LedgerAssumption`, `AuctionAssumption`,
`TermsAssumption`, `EscrowSrcAssumption`, `EscrowDstAssumption`, `WealthAssumption`,
`RateBumpLoopAssumption`, `MerkleAssumption`, `SwapAssumption`, `SwapTypesAssumption`,
`ProgramsAssumption`, `MakersAssumption`, `StrangersAssumption`, `WatchersAssumption`). Those of
the programs and algorithms say that sizes are naturals, the kinds of addresses are disjoint, inputs
have their types, and there are finitely many mints, so that the reserves of a user's token accounts
can be counted. Those of `Swap` say more, because its theorems are about parties that follow
policies which no program enforces:

- `SwapAssumption`: the partner of a source escrow has its order, hashlock and taker, and belongs
  to it alone; addresses of the two chains are apart; watchers are among the accounts that an
  authority may register, and nobody is no user;
- `SwapTypesAssumption`, `ProgramsAssumption`: the inputs have their types, and what each program
  assumes of its constants holds of those given here;
- `MakersAssumption`: one secret for one part of one order, withdrawal before cancellation, the
  taker's cancellation before that of others, and no later than the rescue start;
- `StrangersAssumption`: strangers are neither takers nor recipients nor watchers;
- `WatchersAssumption`: watchers put up no escrows, and have the rent of each offered recipient's
  token account that is missing at the start.

The policies in `Swap`'s actions (section 2) and one clock for both chains come on top. TLC
evaluates each assumption in every run of its module.

| Theorem | Module | States |
|---|---|---|
| `TypesInvariant`, `TypeCorrect` | `EscrowSrcProofs`, `EscrowDstProofs` | `Spec => []TypeOK`, with the reserve behind token accounts |
| `OrdersStayFunded` | `EscrowSrcProofs` | `Spec => []OrderFunded` |
| `EscrowsStayFunded` | `EscrowSrcProofs`, `EscrowDstProofs` | `Spec => []EscrowFunded` |
| `FillsInvariant`, `SecretsStayDistinct` | `EscrowSrcFillProofs` | `Spec => []DistinctSecrets`, with what it rests on |
| `FillsPay` | `EscrowSrcFillProofs` | `Spec => []FillsPayTheirShare` |
| `OrdersCompletable` | `EscrowSrcFillProofs` | `PartsFit`, then `Spec => []AlwaysCompletable` |
| `ReservesInvariant` | `EscrowSrcSettleProofs`, `EscrowDstProofs` | what live accounts keep of their rents and of what was checked |
| `NeverStuckInvariant` | `EscrowSrcSettleProofs`, `EscrowDstProofs` | `Spec => []NeverStuck` |
| `PremiumInvariant` | `EscrowSrcSettleProofs` | `Spec => []PremiumCovered` |
| `NothingStrandedInvariant` | `EscrowSrcSettleProofs` | `Spec => []NothingStranded` |
| `EscrowsSettle` | `EscrowSrcSettleProofs` | `StagesOrdered`, then `Spec => EscrowSettled` |
| `DepositsComeBack` | `EscrowSrcSettleProofs`, `EscrowDstProofs` | `Spec => DepositToResolver` |
| `OrdersSettle` | `EscrowSrcSettleProofs` | `Spec => OrderSettled` |
| `RescuesSettle` | `EscrowSrcSettleProofs` | `Spec => RescueSettled` |
| `OthersPayNothing` | `EscrowSrcProofs`, `EscrowDstProofs` | `Spec => OnlyCreatorsPay` |
| `EscrowsAreHashTimelocks` | `EscrowSrcSettleProofs`, `EscrowDstProofs` | `Spec => ImplementsHashTimelock` (on the source chain with `StagesOrdered`) |
| `SwapInvariant`, `MakersStayWhole`, `TakersStayWhole` | `SwapProofs` | `Spec => []MakerWhole`, `Spec => []TakerWhole`, with what they rest on |
| `ProgramsCompose` | `SwapProofs` | `Spec => Src!Spec /\ Dst!Spec` |
| `LastCallsAnswered` | `SwapProofs` | `Spec => []LastCallAnswered` |
| `LoopReturnsCurve`, `LoopStaysInside`, `CurvesFall` | `AlgorithmProofs` | `AuctionSpec =>` `[]LoopComputesRate`, `[]LoopInsideAuction`, `[]RateFalls` |
| `FieldsStayApart` | `AlgorithmProofs` | `PackedSpec => []PackedAgrees` |
| `OnlyLeavesProven`, `EveryLeafProven` | `AlgorithmProofs` | `MerkleSpec =>` `[]OnlyLeavesVerify`, `[]EveryLeafVerifies` |

**Two hypotheses beyond the constants' assumptions.** `StagesOrdered` says that no order's
`SrcPublicCancellation` comes before its `SrcCancellation`. The program never compares the
two. With terms that have them the wrong way round, another resolver may return an escrow
to its maker while the taker can still withdraw from it; every other theorem about the
program holds for such terms too (`Swap` assumes the order, below), but the escrow is then
no hash time lock with one deadline. The destination chain has one cancellation time and
needs no such hypothesis. `PartsFit` says that the number of an order's tokens, less one,
times the number of its parts fits a `u64`. The index rule multiplies them, `create` does
not compare them, and for a larger order the fill that would complete it aborts. All
instances of the runs satisfy both.

**Types and funds.** `TypeOK` is not inductive: that balances stay in `Nat` when wrapped SOL
is moved or synchronised needs `Backed`, which says that every open token account holds
its rent reserve plus, for wrapped SOL, the lamports of its tokens. `TypeInv` is the
conjunction. `EscrowFunded` of the source program is not inductive either, because an
escrow is filled out of its order: the inductive invariant is
`Inv == TypeInv /\ OrderFunded /\ EscrowFunded`. On the destination chain
it is `Inv == TypeInv /\ EscrowFunded`.

`LedgerProofs` proves of each operator on a bank that it keeps a bank sound (typed and
backed), that a failed call stays failed, and which token accounts it may change
(`Extends`). In the proofs about the programs one lemma per action (`...Touches`) turns
its chain of calls into the set of token accounts the transaction touches; since the
token accounts of different owners differ, everything outside that set
keeps its funds (`Untouched`), and each action has to be looked at only for the account it is
about. Outside transfers are covered because they only add (`OutsideTouches`).
The proof of `NextFunded` is the case split over the actions.

**Whether a call succeeds, and what it pays.** The properties about endings need more than
what a call touches. The `...Effect` lemmas of `LedgerProofs` give, for each operator, when
it succeeds and the exact balances after it; along a chain they give what an ending pays to
whom. `NeverStuck` adds that the calls must not fail: closing an escrow pays the safety
deposit out of the escrow's own rent, and unwrapping works only if the token is wrapped SOL,
both of which only the creating instruction checks. `Reserves` carries them along: a
live account still has its rent, its terms passed the checks, its timelocks differ from the
order's in the time of deployment only. On the destination chain, `Vacant` (a closed token
account is empty) is added, because a withdrawal may open the recipient's account. The
properties of steps (`EscrowSettled`, `DepositToResolver`, `OrderSettled`) then follow from
`Inv`, `Reserves` and the effects of the instruction that ends the account. `RescueSettled` needs
only the types: `OnlyRescues` goes through the kinds of steps, and `RescueTakes` gives the balances
after a rescue of all or of a part.

**Who pays.** `OnlyCreatorsPay` is about all users at once, most of whom an instruction does
not name. `Spares(L, M, U, V)` says of two banks that none of the users in `U` has fewer
lamports in `M` than in `L`, and none of those in `V` has lost a token account or tokens. It
holds along a chain of calls if it does of each (`SparesTransitive`), and each operator spares
everybody but whom it names; an instruction's chain then spares everybody but its payers. What is
left is arithmetic: the resolver that cancels an order receives all the lamports of its account and
passes on at most as many, and the opening of a recipient's account is the only call of a withdrawal
that costs its signer anything. `TypeInv` is enough for it.

`PremiumCovered` compares lamports with the premium, but a native asset is in those same
lamports. `Premiums` therefore asks for the premium *plus* the remaining asset; it is kept
because a fill takes lamports only together with the tokens they back. `NothingStranded`
rests on `Clean`: without outsiders, only live accounts have lamports, and only a token
account of their own token.

**The refinement.** `LockNext` shows that each step of the program is, for each escrow at
once, a step of `HashTimelock`: a creation secures the lock (`Secure`), a withdrawal redeems
it, a cancellation refunds it, the clock reaching the rescue start expires it, and every
other step, whoever it is by, leaves it as it is (`Stay`). Funds (`EscrowFunded`) give that
the amount is behind a locked lock and that the payee or payer gains all of it; the exact
effects give the gain in each of the forms of the asset (tokens, or lamports in the wallet
and in the reserves of a user's token accounts, whose number `Cardinality` counts).

**Partial fills.** `DistinctSecrets` compares fills with one another, but
`is_valid_partial_fill` compares a fill with what remains of the order only. `FillsInv`
relates the two: what remains lies between 1 and the amount, and every fill so far has an
index no larger than that of the last token that is gone. `NextIndex` then says that the
index a fill must use is larger still, since division is monotone and the rule excludes
the previous index, and that it is, unless the fill completes the order, the index of its
own last token, which keeps `FillsInv`. Nothing is assumed of the tree, the number of
parts or the amounts. `FillsPayTheirShare` follows from `PaidInv`, which adds that a live
order's amount is not zero; `ShareFact` gives the step: both divisions round up, and the
rate of the auction is never negative. `AlwaysCompletable` follows
from `FillsInv` and what `create` checks of the parts: the last token lies in the last part
or an earlier one (`LastPart`), so that the index after it is one of the tree.

**Algorithms.** Induction cannot be cited here as a rule about an operator; it is derived
for sets of naturals (`SetInduction`), from the well-foundedness of `<` that the
library states. With it, recursive *functions* can be reasoned about: the times of the
points (`PointTimeExists`), the levels of a tree (`LevelsExist`), the weights of fields and
the way up from a leaf (`RecursionExists`).
`LoopInv` says that the loop is at the first point it has not passed, with the time and the
rate of the one before it; so what it returns there is the interpolation that the closed
form picks (`RateBetween`). `CurvesFall` compares two times: in one piece, interpolation
falls (`InterpolateFalls`); across pieces, each lies between the rates of its ends
(`RateInPiece`). `PackedInv` says that the word is the time of deployment times its weight plus
the sum of the fields below, which is smaller than that weight (`LowFact`), so that a
remainder clears and a quotient reads exactly one field (`FieldFact`). `ClimbInv` says that
a digest that is a node of the tree was computed from a leaf of the tree; a step up
keeps it, because a pair is a node only if both of its members are nodes or zero. Conversely,
`WayInv` says that, as long as the elements are those of the proof made for a leaf, the digest
is that leaf's ancestor on the level reached. Levels shrink until one node is left
(`LevelsShrink`), so there is a height (`HeightFact`); a place halves on the way and stays
inside its level (`WayInside`), and the next ancestor is the hash of this one and its
sibling, whichever of the two comes first (`ProofFact`).

**The swap.** `Steps` reduces each step of the composition to what it does to the clock,
the secrets, the orders and the escrows, as one of eleven small relations; banks and the
whitelist only restrict which steps there are. Two facts carry `MakerWhole` and
`TakerWhole`, one on each side of a disclosure. `Linked`: while a secret is not out,
nobody has been paid with it, and a destination escrow that can still pay has a live
source escrow that lasts no less long; that is the comparison of the two cancellation
times in the destination's `create`. `Balanced`: once it is out, the payments made and
those still possible are as many on both sides. The disclosure turns the first into the
second for every source escrow that the secret opens, and no fill adds another one later:
`UsedIfOut` says that a secret of a live order that is out has been used by one of its
fills, and `HistoryAt`, as `FillsInv` above, that the next fill has a larger index.
Rescues and strangers change balances only, of which neither fact speaks.
`MakersAssumption` states two policies that this needs and the programs do not check: a
secret belongs to one part of one order, or what is disclosed for one part opens another,
whose partner need not have paid; and the public cancellation time is not before the
taker's, or another resolver returns the escrow while its taker, who has paid, can still
withdraw from it. The theorems hold for any number of orders, parts and escrows.

**From the programs to the swap.** `ProgramsCompose` says that a swap is a behaviour of
the source program and one of the destination program: each of its steps is a step of one
of them that leaves the other alone, a step of both (the clock, a disclosure), or a step
of the whitelist, which each program sees as a registration or removal of a resolver, or
not at all. So each theorem about a program, whose environment may do anything that the
model allows it, is one about its half of a swap. `LastCallsAnswered` uses four of them on
each side (`SrcProgram`, `DstProgram`): types, funds, `NeverStuck` and `OnlyCreatorsPay`.
`Swap` instantiates the modules of their proofs, so that the theorems are cited as those
of the instance, with the programs' assumptions from `ProgramsAssumption`; nothing about
the programs is left as a hypothesis. Two more facts are kept through a swap.
`SrcPromises`: no fill comes after its order's rescue start, and since no instruction
closes a user's token account, takers keep theirs. `RescueFact` is why a rescue does not
come before a last call: a source escrow is over, by its maker's terms, when its rescue
starts, and so is a destination escrow that a secret opens, because `create` compared its
cancellation time with the source's and it was deployed no earlier (`LockedDelay`).
Without the maker's terms that is false, which the second disagreement exhibits.
`DstPromises`: once a secret is out, the whitelist has a watcher for every escrow it
opens, which the disclosure asked for and the authority does not take away; and every
watcher has the rent of each offered recipient's account that does not exist yet. The last
is a potential: by `OnlyCreatorsPay` a watcher loses a rent only in a withdrawal that
opens such an account, which is then missing no more, and accounts once open stay open
(`NextWatcherFunds`). In the last moment the window is open, because it is not empty and
the clock is one before its end, and by `NeverStuck` no call fails. Without watchers'
lamports the claim is false: a destination withdrawal needs the recipient's account, and
the deposit may be worth less.

**Only model-checked**: liveness (`EscrowEnds`, `OrderEnds`), because fairness and
`ENABLED` are out of the prover's reach. The three runs that expect a violation have no
theorems. Every other property of a run is stated by a theorem; `ImplementsHashTimelock`
and `EscrowSettled` of the source program, and `AlwaysCompletable`, have the hypotheses
named above. The u64 overflow of the index rule is modelled but outside every instance
(`PartsFit` excludes it from the theorem as well).

## 5. Not modelled, and the plan

Not modelled:

- error codes and messages: every error is the same reverted transaction;
- account layouts, bumps and hash collisions: an address is the record of its seeds;
- the hash by which `create_escrow` recognises the auction data: the terms of an order
  carry them;
- the rents of the whitelist's own accounts, transaction fees, and what section 2
  lists as left out;
- clocks of two chains that differ, and a destination chain other than Solana: `Swap`
  composes the two programs of this repository;
- the tests, the build and the test utilities, which were read and are not part of the
  deployed system.

Of the plan, the ledger, both programs, the whitelist, the abstract escrow and its
refinements, the algorithms and the swap are modelled; the types, the funds, the reserves, the
endings, who pays, and the refinement of both programs are proved, and so are the algorithms,
that a swap keeps both parties whole and that they can use a disclosed secret to the last
moment. What is left: a skew between the two clocks of a swap, as a second clock with a bound on
the difference, under which the comparison of the two cancellation times would need a margin.
