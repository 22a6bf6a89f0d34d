-------------------------------- MODULE Swap --------------------------------
(***************************************************************************)
(* Whole swaps: the source-chain program, the destination-chain program and *)
(* the whitelist that both read, under one clock.  The programs share no   *)
(* state.  What ties the two escrows of a fill together is what the parties *)
(* do off chain, so their policies are conjuncts here:                     *)
(*                                                                         *)
(*  - a maker puts up an order only with secrets it has told nobody;       *)
(*  - a maker uses a secret for one part of one order only, leaves the     *)
(*    taker a window to withdraw, and lets others cancel no earlier than   *)
(*    the taker, and nobody rescue earlier either (MakersAssumption);      *)
(*  - a taker fills no order past its rescue start, locks its side only    *)
(*    for a live source escrow whose secret is not out, and gives "create" *)
(*    that escrow's true cancellation time;                                *)
(*  - a maker discloses a secret once every source escrow that it opens has *)
(*    a destination escrow that pays, and not after its withdrawal window, *)
(*    which has a public part and a watcher to use it (WatchersAssumption); *)
(*  - who profits from a disclosed secret uses it before its time is over: *)
(*    Tick waits for that, and LastCallAnswered says that it is possible.  *)
(*                                                                         *)
(* Everybody may rescue what and when the programs let it, and strangers to *)
(* the swaps may open and feed the programs' token accounts on both chains. *)
(* Users keep their own token accounts; EscrowSrc and EscrowDst treat users *)
(* that close them.                                                        *)
(***************************************************************************)
EXTENDS Integers, FiniteSets

CONSTANTS
  Users, Mints, NATIVE_MINT, Secrets, Hashes, Keccak, MaxTime,
  MAX_U32, MAX_U64, MAX_U256, RESCUE_DELAY, RENT_ATA, BASE_1E7,
  Orders, Terms, SrcKeys, RENT_ORDER, RENT_SRC, RewardLimits, SrcSol, SrcTokens,
  DstKeys, Offers, RENT_DST, DstSol, DstTokens, DstAtas,
  Strangers,        \* the users that send tokens and lamports where they like
  Partner,          \* the destination escrow that pays for a source escrow
  DstToken,         \* the token that the orders ask for
  SrcClient, DstClient, Nobody,
  Authorities,      \* the users that may become the whitelist's authority
  Registrations,    \* the accounts an authority may want in the whitelist
  Watchers          \* those that it never takes away again

VARIABLES
  now, revealed,
  src_order, src_escrow, src_bank, fills, late,
  dst_escrow, dst_bank,
  authority, resolver_access,
  paid              \* history: how often an escrow has ended by a withdrawal

Clients == {SrcClient, DstClient}

WL == INSTANCE Whitelist

\* The programs, with what is proved of them: an instance of a module of proofs
\* has its theorems, said of the constants and variables given here.
Src == INSTANCE EscrowSrcSettleProofs WITH
  Outsiders <- Strangers, Closers <- {}, Resolvers <- Users, EscrowKeys <- SrcKeys,
  RENT_ESCROW <- RENT_SRC,
  InitSol <- SrcSol, InitTokens <- SrcTokens, InitResolvers <- {},
  order <- src_order, escrow <- src_escrow, bank <- src_bank,
  resolver_access <- WL!ResolversOf(SrcClient)

Dst == INSTANCE EscrowDstProofs WITH
  Outsiders <- Strangers, Closers <- {}, Resolvers <- Users, EscrowKeys <- DstKeys,
  RENT_ESCROW <- RENT_DST,
  InitSol <- DstSol, InitTokens <- DstTokens, InitAtas <- DstAtas, InitResolvers <- {},
  escrow <- dst_escrow, bank <- dst_bank,
  resolver_access <- WL!ResolversOf(DstClient)

ASSUME SwapAssumption ==
  /\ Partner \in [SrcKeys -> DstKeys]
  /\ \A k \in SrcKeys :
       LET d == Partner[k]
       IN  d.order_hash = k.order /\ d.hashlock = k.hashlock /\ d.creator = k.taker
  /\ \A k, l \in SrcKeys : Partner[k] = Partner[l] => k = l
  /\ Watchers \subseteq Registrations
  /\ Registrations \subseteq Clients \X Users
  /\ Authorities \subseteq Users
  /\ Nobody \notin Users
  /\ SrcKeys \cap DstKeys = {}

ASSUME SwapTypesAssumption ==
  /\ MAX_U32 \in Nat /\ MaxTime \in 0..MAX_U32
  /\ Terms \in [Orders -> Src!TermsSet]
  /\ SrcKeys \subseteq [order : Orders, hashlock : Hashes, taker : Users, amount : Nat]
  /\ Offers \subseteq Dst!OfferSet

\* What the two programs assume of their constants.
ASSUME ProgramsAssumption ==
  /\ Src!WidthsAssumption /\ Src!TimelocksAssumption /\ Src!LedgerAssumption
  /\ Src!AuctionAssumption /\ Src!EscrowSrcAssumption /\ Src!TermsAssumption
  /\ Src!WealthAssumption
  /\ Dst!WidthsAssumption /\ Dst!TimelocksAssumption /\ Dst!LedgerAssumption
  /\ Dst!EscrowDstAssumption /\ Dst!WealthAssumption

\* Policies of the makers about the terms of their orders; the programs check
\* none.  With one secret for two parts, what is disclosed for one opens the
\* other; with no time between withdrawal and cancellation, a taker that has paid
\* cannot withdraw; with the cancellation times the wrong way round, another
\* resolver returns the escrow while its taker still can; and with a cancellation
\* after the rescue start, a rescue may empty the escrows while a secret opens them.
ASSUME MakersAssumption ==
  /\ \A o, p \in Orders : \A a \in Src!Proofs(o), b \in Src!Proofs(p) :
       a.hashed_secret = b.hashed_secret => o = p /\ a.index = b.index
  /\ \A o \in Orders :
       LET tl == Terms[o].timelocks
       IN  /\ tl["SrcWithdrawal"] < tl["SrcCancellation"]
           /\ tl["SrcCancellation"] <= tl["SrcPublicCancellation"]
           /\ tl["SrcCancellation"] <= RESCUE_DELAY

\* Strangers are parties to no swap.
ASSUME StrangersAssumption ==
  /\ Strangers \subseteq Users
  /\ \A k \in SrcKeys : k.taker \notin Strangers
  /\ \A offer \in Offers : offer.recipient \notin Strangers
  /\ \A watcher \in Watchers : watcher[2] \notin Strangers

\* The watchers of the destination chain put up no escrows themselves, and have
\* the lamports for every recipient's token account that is not there yet.
OfferedAtas == {Dst!Ata(offer.recipient, offer.token) : offer \in Offers}
DstWatchers == {u \in Users : <<DstClient, u>> \in Watchers}

ASSUME WatchersAssumption ==
  /\ IsFiniteSet(OfferedAtas)
  /\ \A w \in DstWatchers :
       /\ \A d \in DstKeys : d.creator # w
       /\ DstSol[w] >= RENT_ATA * Cardinality(OfferedAtas \ DstAtas)

srcVars == <<src_order, src_escrow, src_bank, fills, late>>
dstVars == <<dst_escrow, dst_bank>>
whitelistVars == <<authority, resolver_access>>
vars == <<now, revealed, srcVars, dstVars, whitelistVars, paid>>

OnSrc == UNCHANGED <<whitelistVars, dstVars>>
OnDst == UNCHANGED <<whitelistVars, srcVars>>

Out(hashlock) == \E s \in revealed : Keccak[s] = hashlock

-----------------------------------------------------------------------------
\* The source chain.

\* The hashes whose secrets open the fills of an order.
SecretsOf(o) == {proof.hashed_secret : proof \in Src!Proofs(o)}

MakerCreates(o) ==
  /\ OnSrc /\ UNCHANGED paid
  /\ \A h \in SecretsOf(o) :
       ~Out(h) /\ \A k \in SrcKeys : k.hashlock = h => ~src_escrow[k].live
  /\ Src!Create(o)

TakerFills(k) ==
  /\ OnSrc /\ UNCHANGED paid
  /\ ~Src!OrderRescuable(k.order)
  /\ \E proof \in Src!Proofs(k.order) : Src!CreateEscrow(k, proof)

OrderCancelled(o) ==
  /\ OnSrc /\ UNCHANGED paid
  /\ \/ Src!CancelOrder(o)
     \/ \E r \in Users, limit \in RewardLimits : Src!CancelOrderByResolver(o, r, limit)

CountPaid(x) == paid' = [paid EXCEPT ![x] = @ + 1]

TakerWithdraws(k) ==
  /\ OnSrc /\ CountPaid(k)
  /\ \E s \in Secrets : Src!Withdraw(k, s)

TakerIsPaid(k) ==
  /\ OnSrc /\ CountPaid(k)
  /\ \E s \in Secrets, payer \in Users : Src!PublicWithdraw(k, s, payer)

SrcReturned(k) ==
  /\ OnSrc /\ UNCHANGED paid
  /\ Src!CancelEscrow(k) \/ \E payer \in Users : Src!PublicCancelEscrow(k, payer)

OrderRescued(o) ==
  /\ OnSrc /\ UNCHANGED paid
  /\ \E r \in Users, m \in Mints : \E n \in 0..src_bank.ata[Src!Ata(o, m)].amount :
       Src!RescueFundsForOrder(o, r, m, n)

SrcRescued(k) ==
  /\ OnSrc /\ UNCHANGED paid
  /\ \E m \in Mints : \E n \in 0..src_bank.ata[Src!Ata(k, m)].amount :
       Src!RescueFundsForEscrow(k, m, n)

SrcStranger(u) ==
  /\ OnSrc /\ UNCHANGED paid
  /\ \E a \in (Orders \cup SrcKeys) \X Mints : Src!OutsideStep(u, a)

-----------------------------------------------------------------------------
\* The destination chain.

TakerLocks(k, offer) ==
  LET tl == src_escrow[k].timelocks
  IN  /\ OnDst /\ UNCHANGED paid
      /\ src_escrow[k].live /\ ~Out(k.hashlock)
      /\ offer.src_cancellation_timestamp = Src!StageTime(tl, "SrcCancellation")
      /\ Dst!Create(Partner[k], offer)

TakerPaysMaker(d) ==
  /\ OnDst /\ CountPaid(d)
  /\ \E s \in Secrets, with_ata \in BOOLEAN : Dst!Withdraw(d, s, with_ata)

MakerIsPaid(d, payer) ==
  /\ OnDst /\ CountPaid(d)
  /\ \E s \in Secrets, with_ata \in BOOLEAN : Dst!PublicWithdraw(d, s, payer, with_ata)

DstReturned(d) ==
  /\ OnDst /\ UNCHANGED paid
  /\ Dst!Cancel(d)

DstRescued(d) ==
  /\ OnDst /\ UNCHANGED paid
  /\ \E m \in Mints : \E n \in 0..dst_bank.ata[Dst!Ata(d, m)].amount :
       Dst!RescueFundsForEscrow(d, m, n)

DstStranger(u) ==
  /\ OnDst /\ UNCHANGED paid
  /\ \/ \E a \in DstKeys \X Mints : Dst!OutsideStep(u, a)
     \/ \E a \in Users \X Mints : Dst!OutsideOpen(u, a)

-----------------------------------------------------------------------------
\* The makers' secrets, the clock and the whitelist.

\* The partner of a source escrow still pays its price to the right wallet, and
\* there is a resolver that will see to it and has a window to do so.
PartnerPays(k) ==
  LET d == Partner[k]
      e == dst_escrow[d]
  IN  /\ e.live
      /\ WL!ResolversOf(DstClient) \cap DstWatchers # {}
      /\ Dst!StageTime(e.timelocks, "DstPublicWithdrawal")
           < Dst!StageTime(e.timelocks, "DstCancellation")
      /\ e.recipient = Src!Maker(k) /\ e.token = DstToken
      /\ d.amount >= src_escrow[k].dst_amount
      /\ Dst!Before(e.timelocks, "DstCancellation", now)

Opens(s) == {k \in SrcKeys : k.hashlock = Keccak[s] /\ src_escrow[k].live}

MakerDiscloses(s) ==
  /\ UNCHANGED <<srcVars, dstVars, whitelistVars, paid>>
  /\ Opens(s) # {} /\ \A k \in Opens(s) : PartnerPays(k)
  /\ Src!RevealSecret(s) /\ Dst!RevealSecret(s)

\* The last moment at which a disclosed secret is of use to somebody: the window
\* has an end that the program can compute, and it comes next.
LastCallSrc(k) ==
  /\ src_escrow[k].live /\ Out(k.hashlock)
  /\ Src!StageFits(src_escrow[k].timelocks, "SrcCancellation")
  /\ now + 1 = Src!StageTime(src_escrow[k].timelocks, "SrcCancellation")

LastCallDst(d) ==
  /\ dst_escrow[d].live /\ Out(d.hashlock)
  /\ Dst!StageFits(dst_escrow[d].timelocks, "DstCancellation")
  /\ now + 1 = Dst!StageTime(dst_escrow[d].timelocks, "DstCancellation")

Tick ==
  /\ UNCHANGED <<srcVars, dstVars, whitelistVars, paid>>
  /\ \A k \in SrcKeys : ~LastCallSrc(k)
  /\ \A d \in DstKeys : ~LastCallDst(d)
  /\ Src!Tick /\ Dst!Tick

Authority ==
  /\ UNCHANGED <<srcVars, dstVars, now, revealed, paid>>
  /\ \/ \E u \in Authorities : WL!Initialize(u)
     \/ \E r \in Registrations : WL!Register(authority, r[2], r[1])
     \/ \E r \in Registrations \ Watchers : WL!Deregister(authority, r[2], r[1])
     \/ \E u \in Authorities \ {authority} : WL!SetAuthority(authority, u)

-----------------------------------------------------------------------------
\* The specification.

Init ==
  /\ WL!WhitelistInit
  /\ Src!Init
  /\ Dst!Init
  /\ paid = [k \in SrcKeys \cup DstKeys |-> 0]

Next ==
  \/ Tick
  \/ Authority
  \/ \E s \in Secrets : MakerDiscloses(s)
  \/ \E o \in Orders : MakerCreates(o) \/ OrderCancelled(o) \/ OrderRescued(o)
  \/ \E k \in SrcKeys :
       TakerFills(k) \/ TakerWithdraws(k) \/ TakerIsPaid(k) \/ SrcReturned(k) \/ SrcRescued(k)
  \/ \E k \in SrcKeys, offer \in Offers : TakerLocks(k, offer)
  \/ \E d \in DstKeys : TakerPaysMaker(d) \/ DstReturned(d) \/ DstRescued(d)
  \/ \E d \in DstKeys, u \in Users : MakerIsPaid(d, u)
  \/ \E u \in Strangers : SrcStranger(u) \/ DstStranger(u)

Spec == Init /\ [][Next]_vars

-----------------------------------------------------------------------------
\* What a swap must guarantee.

\* A secret that is out still opens the escrow: its window is not over.
SrcPayable(k) ==
  /\ src_escrow[k].live /\ Out(k.hashlock)
  /\ Src!Before(src_escrow[k].timelocks, "SrcCancellation", now)

DstPayable(d) ==
  /\ dst_escrow[d].live /\ Out(d.hashlock)
  /\ Dst!Before(dst_escrow[d].timelocks, "DstCancellation", now)

One(condition) == IF condition THEN 1 ELSE 0

\* Makers lose nothing: each time a taker has been paid on the source chain, the
\* maker has been paid for it on the destination chain or still can be (the
\* index rule keeps one secret from opening two fills).
MakerWhole ==
  \A k \in SrcKeys : paid[k] <= paid[Partner[k]] + One(DstPayable(Partner[k]))

\* Takers lose nothing: each time a maker has been paid on the destination
\* chain, the taker has been paid on the source chain or still can be, however
\* late the secret was disclosed ("create" compares the cancellation times).
TakerWhole ==
  \A k \in SrcKeys : paid[Partner[k]] <= paid[k] + One(SrcPayable(k))

\* The conditions of the two withdrawals that a last call is meant for.
SrcWithdrawable(k) ==
  /\ Src!WithdrawOpen(k, "SrcWithdrawal")
  /\ src_bank.ata[Src!EscrowAta(k)].live /\ src_bank.ata[Src!AtaOf(k.taker, k.order)].live
  /\ Src!WithdrawBank(k, k.taker).ok

DstWithdrawable(d, payer) ==
  /\ payer \in WL!ResolversOf(DstClient)
  /\ Dst!WithdrawOpen(d, "DstPublicWithdrawal")
  /\ dst_bank.ata[Dst!EscrowAta(d)].live
  /\ Dst!WithdrawBank(d, payer, TRUE).ok

\* Whoever profits from a disclosed secret can use it to the last moment: the
\* taker on the source chain, and on the destination chain somebody other than
\* the taker, whatever became of the whitelist in between.
LastCallAnswered ==
  /\ \A k \in SrcKeys : LastCallSrc(k) => SrcWithdrawable(k)
  /\ \A d \in DstKeys : LastCallDst(d) =>
       \E u \in Users \ {d.creator} : DstWithdrawable(d, u)

=============================================================================
