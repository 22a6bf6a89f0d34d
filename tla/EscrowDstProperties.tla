------------------------- MODULE EscrowDstProperties -------------------------
(***************************************************************************)
(* What the destination-chain program must guarantee.                      *)
(***************************************************************************)
EXTENDS EscrowDst, FiniteSets, LockStates

\* Every variable has its type, and no reverted transaction is committed.
TypeOK ==
  /\ now \in 0..MaxTime
  /\ escrow \in [EscrowKeys -> EscrowState]
  /\ bank \in Bank(Owners) /\ bank.ok
  /\ resolver_access \subseteq Users
  /\ revealed \subseteq Secrets

EscrowRescuable(k) == now >= RescueStart(escrow[k].timelocks)

\* Until its rescue start, the ATA of a live escrow holds what withdraw and
\* cancel have to pay: tokens, or lamports on top of the rent, which a
\* sync_native by anybody must not take away.
EscrowFunded ==
  \A k \in EscrowKeys : (escrow[k].live /\ ~EscrowRescuable(k)) =>
    LET a == bank.ata[EscrowAta(k)]
    IN  /\ a.live
        /\ IF escrow[k].asset_is_native THEN a.lamports >= RENT_ATA + k.amount
           ELSE a.amount >= k.amount

\* What its party's own token account cannot stop cannot be stopped: until its
\* rescue start an escrow of lamports can be cancelled, and one of tokens as long
\* as its creator has its ATA open; and whoever can pay for the recipient's ATA, if
\* that is closed, can withdraw.  A sync_native or a gift by anybody, at any time,
\* makes none of the calls fail (withdraw, public_withdraw, cancel).
NeverStuck ==
  \A k \in EscrowKeys : (escrow[k].live /\ ~EscrowRescuable(k)) =>
    /\ (escrow[k].asset_is_native \/ bank.ata[CreatorAta(k)].live) => CancelBank(k).ok
    /\ \A u \in Users :
         /\ escrow[k].asset_is_native => WithdrawBank(k, u, FALSE).ok
         /\ (bank.ata[RecipientAta(k)].live \/ bank.sol[u] >= RENT_ATA) =>
              WithdrawBank(k, u, TRUE).ok

-----------------------------------------------------------------------------
\* The refinement.

\* There are finitely many mints, and "lamports" names none of them.
ASSUME WealthAssumption == IsFiniteSet(Mints) /\ "lamports" \notin Mints

\* The lamports of a user: those in its wallet and the reserves of its ATAs.
Lamports(u) ==
  bank.sol[u] + RENT_ATA * Cardinality({m \in Mints : bank.ata[Ata(u, m)].live})

Wealth == [a \in Users \X (Mints \cup {"lamports"}) |->
             IF a[2] = "lamports" THEN Lamports(a[1]) ELSE bank.ata[a].amount]

\* What is locked is paid out in the form in which it was locked.
AssetAccount(k, u) == <<u, IF escrow[k].asset_is_native THEN "lamports" ELSE escrow[k].token>>

LockOf(k) ==
  IF ~escrow[k].live THEN Free
  ELSE IF EscrowRescuable(k) THEN Expired
  ELSE Locked(AssetAccount(k, escrow[k].recipient), AssetAccount(k, k.creator),
              StageTime(escrow[k].timelocks, "DstCancellation"),
              RescueStart(escrow[k].timelocks))

HeldFor(k) ==
  LET a == bank.ata[EscrowAta(k)]
  IN  IF escrow[k].asset_is_native THEN a.lamports - RENT_ATA ELSE a.amount

Lock == INSTANCE HashTimelock WITH
  Locks  <- EscrowKeys,
  Hash   <- [k \in EscrowKeys |-> k.hashlock],
  Amount <- [k \in EscrowKeys |-> k.amount],
  clock  <- now,
  opened <- {Keccak[s] : s \in revealed},
  lock   <- [k \in EscrowKeys |-> LockOf(k)],
  held   <- [k \in EscrowKeys |-> HeldFor(k)],
  wealth <- Wealth

\* The program implements the hash time lock: an escrow of tokens, of lamports or
\* of wrapped SOL, at an address used before or not, is paid to its recipient
\* against the secret or returned to its creator after the deadline, in full
\* (withdraw, public_withdraw, cancel).
ImplementsHashTimelock == Lock!Spec

-----------------------------------------------------------------------------
\* The safety deposit.

\* How many lamports more a user has after a step, and what the step pays to
\* open the ATA a.
SolGain(u) == bank'.sol[u] - bank.sol[u]
OpeningCost(a) == IF bank'.ata[a].live /\ ~bank.ata[a].live THEN RENT_ATA ELSE 0

\* The step ends the escrow k by an instruction that u signs.
EndedBy(k, u) ==
  /\ escrow[k].live
  /\ \/ u = k.creator /\ Cancel(k)
     \/ \E s \in Secrets, with_ata \in BOOLEAN :
          (u = k.creator /\ Withdraw(k, s, with_ata)) \/ PublicWithdraw(k, s, u, with_ata)

\* The lamports put into an escrow come back when it ends: all of them to the
\* creator if the creator signs; if another resolver does, the safety deposit to
\* that very resolver and the rest to the creator.  What the recipient's ATA
\* costs, if it is opened, is charged to the signer and to nobody else; it may be
\* more than the deposit is worth (withdraw, public_withdraw, cancel).
DepositToResolver ==
  [][\A k \in EscrowKeys, u \in Users :
       (EndedBy(k, u) /\ ~EscrowRescuable(k)) =>
         LET deposit == escrow[k].safety_deposit
             cost == OpeningCost(RecipientAta(k))
         IN  IF u = k.creator THEN SolGain(u) >= RENT_ESCROW + RENT_ATA - cost
             ELSE /\ SolGain(u) >= deposit - cost
                  /\ SolGain(k.creator) >= RENT_ESCROW + RENT_ATA - deposit]_vars

\* What the withdrawal from an escrow costs the one that makes it: the recipient's
\* ATA, if that has to be opened, less the deposit that goes to other resolvers.
WithdrawalCosts(k, u) ==
  LET deposit == IF u = k.creator THEN 0 ELSE escrow[k].safety_deposit
  IN  /\ escrow[k].live /\ ~escrow'[k].live
      /\ Before(escrow[k].timelocks, "DstCancellation", now)
      /\ u \in resolver_access \cup {k.creator}
      /\ SolGain(u) >= deposit - OpeningCost(RecipientAta(k))

KeepsAtas(u) == \A m \in Mints : bank.ata[Ata(u, m)].live => bank'.ata[Ata(u, m)].live
KeepsTokens(u) ==
  \A m \in Mints : bank.ata[Ata(u, m)].live =>
    bank'.ata[Ata(u, m)].live /\ bank'.ata[Ata(u, m)].amount >= bank.ata[Ata(u, m)].amount

\* Nobody else pays: an instruction takes lamports and tokens from the creator of
\* an escrow, and from who withdraws from one at most what the recipient's ATA
\* costs (withdraw, public_withdraw); it takes nothing from any other user, least
\* of all from a recipient, and closes no token account of a user.  Outsiders and
\* Closers do so themselves.
CreatorsPay ==
  \A u \in Users : (escrow' # escrow \/ u \notin Outsiders \cup Closers) =>
    \/ /\ SolGain(u) >= 0 \/ \E k \in EscrowKeys : WithdrawalCosts(k, u)
       /\ KeepsTokens(u)
    \/ /\ \E k \in EscrowKeys : ~escrow[k].live /\ escrow'[k].live /\ u = k.creator
       /\ KeepsAtas(u)
OnlyCreatorsPay == [][CreatorsPay]_vars

-----------------------------------------------------------------------------
\* Liveness.

\* Under FairSpec: every escrow ends before it can be rescued or by the
\* creator's cancellation, because "create" only accepts a cancellation time
\* that does not overflow.
EscrowEnds == \A k \in EscrowKeys : escrow[k].live ~> ~escrow[k].live

=============================================================================
