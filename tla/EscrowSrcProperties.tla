------------------------- MODULE EscrowSrcProperties -------------------------
(***************************************************************************)
(* What the source-chain program must guarantee.                           *)
(***************************************************************************)
EXTENDS EscrowSrc, FiniteSets, LockStates

\* Every variable has its type, and no reverted transaction is committed.
TypeOK ==
  /\ now \in 0..MaxTime
  /\ order \in [Orders -> OrderState]
  /\ escrow \in [EscrowKeys -> EscrowState]
  /\ bank \in Bank(Owners) /\ bank.ok
  /\ resolver_access \subseteq Users
  /\ revealed \subseteq Secrets
  /\ fills \in [Orders -> Seq(Fill)]
  /\ late \subseteq EscrowKeys

-----------------------------------------------------------------------------
\* Funds stay where they are owed.

OrderRescuable(o) == now >= RescueStart(order[o].timelocks)
EscrowRescuable(k) == now >= RescueStart(escrow[k].timelocks)

\* Until its rescue start, the ATA of a live order holds at least the amount
\* that is still to be filled, whatever fills, cancellations, rescues of other
\* accounts and outside transfers happen.
OrderFunded ==
  \A o \in Orders : (order[o].live /\ ~OrderRescuable(o)) =>
    /\ bank.ata[OrderAta(o)].live
    /\ bank.ata[OrderAta(o)].amount >= order[o].remaining_amount

\* Until its rescue start, the ATA of a live escrow holds at least the
\* escrow's amount, which is what withdraw and cancel have to pay.  An escrow
\* made from an order past the order's own rescue start is excepted: see
\* FillOnlyIncreases.
EscrowFunded ==
  \A k \in EscrowKeys : (escrow[k].live /\ k \notin late /\ ~EscrowRescuable(k)) =>
    /\ bank.ata[EscrowAta(k)].live
    /\ bank.ata[EscrowAta(k)].amount >= k.amount

\* What its party's own token account cannot stop cannot be stopped: as long as
\* the maker has its ATA open, the order can be cancelled at any time and the
\* escrow after its cancellation time, by whoever may, and as long as the taker
\* has, the escrow can be withdrawn from; neither outside transfers nor what
\* other users do with their accounts makes one of the calls fail.
NeverStuck ==
  /\ \A o \in Orders : (order[o].live /\ ~OrderRescuable(o) /\ MakerCanBeRefunded(o)) =>
       CloseOrder(RefundTokens(bank, o), o, Terms[o].creator).ok
  /\ \A k \in EscrowKeys : (escrow[k].live /\ k \notin late /\ ~EscrowRescuable(k)) =>
       \A u \in Users :
         /\ bank.ata[AtaOf(k.taker, k.order)].live => WithdrawBank(k, u).ok
         /\ MakerCanBeRefunded(k.order) => CancelBank(k, u).ok

\* Without outside transfers a closed order or escrow leaves nothing behind:
\* no lamports at its address and no token account of its address.
NothingStranded ==
  Outsiders = {} =>
    /\ \A o \in Orders : ~order[o].live =>
         bank.sol[o] = 0 /\ \A m \in Mints : ~bank.ata[Ata(o, m)].live
    /\ \A k \in EscrowKeys : ~escrow[k].live =>
         bank.sol[k] = 0 /\ \A m \in Mints : ~bank.ata[Ata(k, m)].live

\* How much more a user has after a step.
SolGain(u) == bank'.sol[u] - bank.sol[u]
TokenGain(u, m) == bank'.ata[Ata(u, m)].amount - bank.ata[Ata(u, m)].amount

\* The escrow k ends with its secret out, within the withdrawal window, and its
\* whole amount in the taker's ATA.
PaidToTaker(k) ==
  /\ \E s \in revealed : Keccak[s] = k.hashlock
  /\ Before(escrow[k].timelocks, "SrcCancellation", now)
  /\ TokenGain(k.taker, Token(k.order)) >= k.amount

\* The escrow k ends after its cancellation time, and its whole amount is back
\* with the maker.
ReturnedToMaker(k) ==
  /\ Reached(escrow[k].timelocks, "SrcCancellation", now)
  /\ IF Terms[k.order].asset_is_native THEN SolGain(Maker(k)) >= k.amount
     ELSE TokenGain(Maker(k), Token(k.order)) >= k.amount

\* A funded escrow ends in one of two ways, never both and never short: paid
\* to the taker against the secret, or returned to the maker after the
\* cancellation time (withdraw, public_withdraw, cancel_escrow,
\* public_cancel_escrow).
EscrowSettled ==
  [][\A k \in EscrowKeys :
       (escrow[k].live /\ ~escrow'[k].live /\ k \notin late /\ ~EscrowRescuable(k))
         => PaidToTaker(k) \/ ReturnedToMaker(k)]_vars

\* There are finitely many mints, and "lamports" names none of them.
ASSUME WealthAssumption == IsFiniteSet(Mints) /\ "lamports" \notin Mints

\* The lamports of a user: those in its wallet and the reserves of its ATAs.
Lamports(u) ==
  bank.sol[u] + RENT_ATA * Cardinality({m \in Mints : bank.ata[Ata(u, m)].live})

Wealth == [a \in Users \X (Mints \cup {"lamports"}) |->
             IF a[2] = "lamports" THEN Lamports(a[1]) ELSE bank.ata[a].amount]

\* An escrow locks the order's token for its taker; what the maker gets back is
\* the asset that the order was made of.
LockOf(k) ==
  LET o == k.order
      returned == IF Terms[o].asset_is_native THEN "lamports" ELSE Token(o)
  IN  IF ~escrow[k].live THEN Free
      ELSE IF k \in late \/ EscrowRescuable(k) THEN Expired
      ELSE Locked(<<k.taker, Token(o)>>, <<Maker(k), returned>>,
                  StageTime(escrow[k].timelocks, "SrcCancellation"),
                  RescueStart(escrow[k].timelocks))

Lock == INSTANCE HashTimelock WITH
  Locks  <- EscrowKeys,
  Hash   <- [k \in EscrowKeys |-> k.hashlock],
  Amount <- [k \in EscrowKeys |-> k.amount],
  clock  <- now,
  opened <- {Keccak[s] : s \in revealed},
  lock   <- [k \in EscrowKeys |-> LockOf(k)],
  held   <- [k \in EscrowKeys |-> bank.ata[EscrowAta(k)].amount],
  wealth <- Wealth

\* The program implements the hash time lock: whatever becomes of orders, fills,
\* rescues and outside transfers, every step of every escrow is one of its steps.
ImplementsHashTimelock == Lock!Spec

\* The step ends the escrow k by an instruction that u signs.
EndedBy(k, u) ==
  /\ escrow[k].live
  /\ \/ u = k.taker /\ (CancelEscrow(k) \/ \E s \in Secrets : Withdraw(k, s))
     \/ PublicCancelEscrow(k, u) \/ \E s \in Secrets : PublicWithdraw(k, s, u)

\* The lamports put into an escrow come back when it ends: all of them to the
\* taker if the taker signs; if another resolver does, the safety deposit to that
\* very resolver, which is what it acts for, and the rest to the taker (the tails
\* of utils::withdraw and cancel, after each of the four endings).
DepositToResolver ==
  [][\A k \in EscrowKeys, u \in Users :
       (EndedBy(k, u) /\ k \notin late /\ ~EscrowRescuable(k)) =>
         IF u = k.taker THEN SolGain(u) >= RENT_ESCROW + RENT_ATA
         ELSE /\ SolGain(u) >= Terms[k.order].safety_deposit
              /\ SolGain(k.taker) >= RENT_ESCROW + RENT_ATA - Terms[k.order].safety_deposit]_vars

\* When an order ends by a fill, the new escrow holds what remained.  When it is
\* cancelled, the maker gets back the remaining tokens and the rent, less at
\* most the premium that the cancellation auction has reached (cancel_order,
\* cancel_order_by_resolver).
OrderSettled ==
  [][\A o \in Orders :
       (order[o].live /\ ~order'[o].live /\ ~OrderRescuable(o)) =>
         LET t == Terms[o]
             filled == \E k \in EscrowKeys :
                         /\ k.order = o /\ ~escrow[k].live /\ escrow'[k].live
                         /\ bank'.ata[EscrowAta(k)].amount >= order[o].remaining_amount
             rent == RENT_ORDER + RENT_ATA - Premium(o)
         IN  \/ filled
             \/ IF t.asset_is_native
                THEN SolGain(t.creator) >= order[o].remaining_amount + rent
                ELSE /\ TokenGain(t.creator, t.token) >= order[o].remaining_amount
                     /\ SolGain(t.creator) >= rent]_vars

\* Who may rescue what an address holds, and when.
MayRescue(x, u) ==
  IF x \in Orders THEN u \in resolver_access /\ (order[x].live => OrderRescuable(x))
  ELSE u = x.taker /\ (escrow[x].live => EscrowRescuable(x))

\* Between the beginning and the end of an order or an escrow only a rescue takes
\* something out of its token accounts.  In however many parts and whatever
\* outsiders add or sync in between, what is taken goes to a single party that may
\* have it, and the account is closed exactly when nothing is left in it, with all
\* its other lamports going to that party, too (rescue_funds, which compares the
\* amount with a balance read before its transfer).
RescueSettled ==
  [][UNCHANGED <<order, escrow>> =>
       \A x \in Orders \cup EscrowKeys, m \in Mints :
         LET before == bank.ata[Ata(x, m)]
             after == bank'.ata[Ata(x, m)]
             taken == before.amount - after.amount
             rest == IF after.live THEN 0 ELSE before.lamports - TokenLamports(Ata(x, m), taken)
         IN  (before.live /\ (taken > 0 \/ ~after.live)) =>
               /\ ~after.live <=> after.amount = 0
               /\ \E u \in Users : MayRescue(x, u) /\ TokenGain(u, m) = taken /\ SolGain(u) = rest]_vars

\* What a step leaves to a user.
KeepsAtas(u) == \A m \in Mints : bank.ata[Ata(u, m)].live => bank'.ata[Ata(u, m)].live
KeepsTokens(u) ==
  \A m \in Mints : bank.ata[Ata(u, m)].live => bank'.ata[Ata(u, m)].live /\ TokenGain(u, m) >= 0

\* Nobody else pays: an instruction takes lamports and tokens from the maker that
\* creates an order and lamports from the taker that creates an escrow, and from
\* no one else, neither from those that it ends an account for nor from those
\* that end it (public_withdraw, public_cancel_escrow, cancel_order_by_resolver);
\* and it closes no token account of a user.  Outsiders and Closers do so themselves.
CreatorsPay ==
  \A u \in Users :
    (order' # order \/ escrow' # escrow \/ u \notin Outsiders \cup Closers) =>
      \/ SolGain(u) >= 0 /\ KeepsTokens(u)
      \/ /\ \E k \in EscrowKeys : ~escrow[k].live /\ escrow'[k].live /\ u = k.taker
         /\ KeepsTokens(u)
      \/ /\ \E o \in Orders : ~order[o].live /\ order'[o].live /\ u = Terms[o].creator
         /\ KeepsAtas(u)
OnlyCreatorsPay == [][CreatorsPay]_vars

-----------------------------------------------------------------------------
\* Partial fills.

\* The fills of an order use secrets of strictly increasing index, so the
\* secret that is disclosed for one fill never opens another one.
DistinctSecrets ==
  \A o \in Orders : Terms[o].allow_multiple_fills =>
    \A i, j \in DOMAIN fills[o] : i < j => fills[o][i].index < fills[o][j].index

\* Whatever fills were made, the rest of a multiple-fill order can still be
\* taken by one fill, with a secret that its tree of parts + 1 secrets has.
AlwaysCompletable ==
  \A o \in Orders : (order[o].live /\ Terms[o].allow_multiple_fills) =>
    \E index \in 0..Terms[o].parts :
      FillIndexAllowed(o, order[o].remaining_amount, index)

\* Every fill is priced at its share of the order's dst_amount or more, and the
\* share is never rounded down, so that fills that add up to the whole order
\* add up to its whole dst_amount or more.
FillsPayTheirShare ==
  \A o \in Orders : \A i \in DOMAIN fills[o] :
    LET f == fills[o][i]
    IN  f.dst_amount * Terms[o].amount >= Terms[o].dst_amount * (f.upto - f.from)

\* An order whose tokens are not the lamports of its ATA can always pay the
\* whole cancellation premium out of that ATA, after the maker's refund.
PremiumCovered ==
  \A o \in Orders :
    (/\ order[o].live /\ ~OrderRescuable(o)
     /\ Terms[o].asset_is_native \/ Token(o) # NATIVE_MINT)
      => Terms[o].max_cancellation_premium <= RefundTokens(bank, o).ata[OrderAta(o)].lamports

-----------------------------------------------------------------------------
\* Liveness.

\* Under FairSpec: with a cancellation time that exists (no overflow) and comes
\* before the rescue start, every escrow ends, whether or not its secret is
\* ever disclosed and its taker stays whitelisted.
EscrowEnds == \A k \in EscrowKeys : escrow[k].live ~> ~escrow[k].live

\* Under FairSpec: every order with a cancellation premium ends.
OrderEnds == \A o \in Orders : order[o].live ~> ~order[o].live

-----------------------------------------------------------------------------
\* Statements of the repository that the program does not keep.

\* "Transfer amount may be increased due to external transfers" (lib.rs:217):
\* the only way for the amount transferred to differ from the amount filled.
FillOnlyIncreases ==
  [][\A k \in EscrowKeys : (~escrow[k].live /\ escrow'[k].live) =>
       bank'.ata[EscrowAta(k)].amount >= bank.ata[EscrowAta(k)].amount + k.amount]_vars

\* "ensuring that either both parties receive their tokens or the swap is
\* cancelled and funds are returned" (README.md:7): the tokens of a live
\* escrow leave it only when it is withdrawn or cancelled.
WithdrawnOrCancelled ==
  [][\A k \in EscrowKeys :
       bank'.ata[EscrowAta(k)].amount < bank.ata[EscrowAta(k)].amount /\ escrow[k].live
         => PaidToTaker(k) \/ ReturnedToMaker(k)]_vars

=============================================================================
