--------------------------- MODULE EscrowDstProofs ---------------------------
(***************************************************************************)
(* Proofs about EscrowDst for every value of its constants.                *)
(*                                                                         *)
(* The inductive invariant is Inv /\ Reserves /\ Vacant: types, the reserve *)
(* behind every open token account and funded escrows (Inv); the rent of   *)
(* every escrow account and what "create" has checked of it (Reserves); and *)
(* that a closed token account has nothing (Vacant).  From it follow, in   *)
(* this order: escrows stay funded, nothing but its party's own token      *)
(* account can stop the end of one, the lamports put into one come back,   *)
(* every step is one of HashTimelock's, and nobody but creators pays.      *)
(***************************************************************************)
EXTENDS EscrowDstProperties, LedgerProofs, FiniteSetTheorems

TypeInv == TypeOK /\ Backed(bank, Owners)

\* What a step does to the bank: no token account outside S changes.
Touches(S) ==
  /\ Sound(bank', Owners) /\ bank'.ok
  /\ \A b \in Atas(Owners) \ S : bank'.ata[b] = bank.ata[b]

-----------------------------------------------------------------------------
\* Addresses and constants.

\* The kinds of owners are disjoint, and an address names its creator.
LEMMA KeyFact ==
  /\ Users \subseteq Owners /\ EscrowKeys \subseteq Owners
  /\ \A k \in EscrowKeys : k \notin Users /\ k.creator \in Users /\ k.amount \in Nat
BY EscrowDstAssumption DEF Owners

\* What "create" is called with.
LEMMA OfferFact ==
  ASSUME NEW offer \in Offers
  PROVE  /\ offer.recipient \in Users /\ offer.token \in Mints
         /\ offer.safety_deposit \in U64 /\ offer.timelocks \in TimelockWords
         /\ offer.asset_is_native \in BOOLEAN
         /\ offer.src_cancellation_timestamp \in U32
BY EscrowDstAssumption DEF OfferSet

\* The contents of an escrow account and the token accounts it stands for.
LEMMA EscrowFact ==
  ASSUME TypeOK, NEW k \in EscrowKeys
  PROVE  /\ escrow[k] \in EscrowState
         /\ escrow[k].recipient \in Users /\ escrow[k].token \in Mints
         /\ escrow[k].asset_is_native \in BOOLEAN /\ escrow[k].safety_deposit \in Nat
         /\ RescueStart(escrow[k].timelocks) \in Nat
         /\ EscrowAta(k) = Ata(k, escrow[k].token) /\ EscrowAta(k) \in Atas(Owners)
         /\ RecipientAta(k) \in Atas(Owners) /\ CreatorAta(k) \in Atas(Owners)
         /\ EscrowAta(k) # RecipientAta(k) /\ EscrowAta(k) # CreatorAta(k)
<1>1. escrow[k] \in EscrowState
  BY DEF TypeOK
<1>2. /\ escrow[k].recipient \in Users /\ escrow[k].token \in Mints
      /\ escrow[k].asset_is_native \in BOOLEAN /\ escrow[k].safety_deposit \in Nat
  BY <1>1, WidthsAssumption DEF EscrowState, U64
<1>3. RescueStart(escrow[k].timelocks) \in Nat
  BY <1>1, WidthsAssumption, TimelocksAssumption
     DEF EscrowState, RescueStart, TimelockWords, U32
<1> QED BY <1>1, <1>2, <1>3, KeyFact DEF EscrowAta, RecipientAta, CreatorAta, Ata, Atas

-----------------------------------------------------------------------------
\* What each action does to the bank.

\* The bank before a step is sound.
LEMMA SoundFact ==
  ASSUME TypeInv
  PROVE  Sound(bank, Owners) /\ bank.ok /\ now \in Nat
BY EscrowDstAssumption, WidthsAssumption DEF TypeInv, TypeOK, Sound, U32

\* The bank that is committed is sound if the chain of calls keeps it so.
LEMMA CommitFact ==
  ASSUME NEW L, NEW S, Sound(L, Owners), Extends(bank, L, S, Owners), Commit(L)
  PROVE  Touches(S)
BY DEF Touches, Commit, Extends

\* The token account a holds an escrow of n in the form "native" says.
Holds(L, a, native, n) ==
  /\ L.ata[a].live
  /\ IF native THEN L.ata[a].lamports >= RENT_ATA + n ELSE L.ata[a].amount >= n

\* The deposit leaves in the escrow's ATA what the escrow owes.
LEMMA DepositEscrowFact ==
  ASSUME NEW k \in EscrowKeys, NEW offer \in Offers,
         NEW a, a = Ata(k, offer.token), NEW b, b = Ata(k.creator, offer.token),
         NEW n, n = k.amount, NEW u, u = k.creator,
         NEW L, Sound(L, Owners), L.ok => L.ata[a].live,
         NEW R, R = DepositEscrow(L, k, offer)
  PROVE  /\ Sound(R, Owners) /\ Extends(L, R, {a, b}, Owners)
         /\ R.ok => Holds(R, a, offer.asset_is_native, n)
<1>1. /\ a \in Atas(Owners) /\ b \in Atas(Owners) /\ a # b
      /\ n \in Nat /\ u \in Owners
  BY KeyFact, OfferFact DEF Ata, Atas
<1>2. L.ata[a] \in AtaState
  BY <1>1 DEF Sound, Bank, Atas
<1>3. CASE offer.asset_is_native
  <2> DEFINE M == UniTransferToAta(L, u, a, n)
  <2>1. /\ Sound(M, Owners) /\ Extends(L, M, {a}, Owners)
        /\ M.ok => /\ L.ata[a].live => M.ata[a].live
                   /\ M.ata[a].lamports = L.ata[a].lamports + n
    BY <1>1, <1>2, UniTransferToAtaFact DEF AtaState
  <2>2. R = M
    BY <1>3 DEF DepositEscrow
  <2> HIDE DEF M
  <2>3. M.ok => L.ok
    BY <2>1 DEF Extends
  <2>4. M.ok => L.ata[a].lamports >= RENT_ATA
    BY <1>1, <1>2, <2>3, LedgerAssumption DEF Sound, Backed, TokenLamports, AtaState
  <2>5. M.ok => M.ata[a].live /\ M.ata[a].lamports >= RENT_ATA + n
    BY <1>1, <1>2, <2>1, <2>3, <2>4, LedgerAssumption DEF AtaState
  <2> QED BY <1>3, <2>1, <2>2, <2>5 DEF Extends, Holds
<1>4. CASE ~offer.asset_is_native
  <2> DEFINE M == UniTransferToken(L, b, a, n)
  <2>1. /\ Sound(M, Owners) /\ Extends(L, M, {b, a}, Owners)
        /\ (M.ok /\ L.ata[a].live) =>
             M.ata[a].live /\ M.ata[a].amount = L.ata[a].amount + n
    BY <1>1, <1>2, UniTransferTokenFact, Z3
  <2>2. R = M
    BY <1>4 DEF DepositEscrow
  <2> HIDE DEF M
  <2>3. M.ok => L.ok
    BY <2>1 DEF Extends
  <2>4. M.ok => M.ata[a].live /\ M.ata[a].amount >= n
    BY <1>1, <1>2, <2>1, <2>3 DEF AtaState
  <2> QED BY <1>4, <2>1, <2>2, <2>4 DEF Extends, Holds
<1> QED BY <1>3, <1>4

\* create leaves in the escrow's ATA what the escrow owes.
LEMMA CreateTouches ==
  ASSUME TypeInv, NEW k \in EscrowKeys, NEW offer \in Offers, Create(k, offer)
  PROVE  /\ Touches({Ata(k, offer.token), Ata(k.creator, offer.token)})
         /\ Holds(bank', Ata(k, offer.token), offer.asset_is_native, k.amount)
<1> DEFINE u == k.creator
           a == Ata(k, offer.token)
           b == Ata(k.creator, offer.token)
           I == InitAccount(bank, u, k, RENT_ESCROW)
           A == InitIfNeededAta(I, u, a)
           D == DepositEscrow(A, k, offer)
<1>1. Commit(D)
  BY DEF Create, CreateAccounts
<1>2. u \in Owners /\ k \in Owners /\ RENT_ESCROW \in Nat /\ a \in Atas(Owners)
  BY KeyFact, OfferFact, EscrowDstAssumption DEF Ata, Atas
<1>3. Sound(I, Owners) /\ Extends(bank, I, {}, Owners)
  BY <1>2, SoundFact, MoveLamportsFact DEF InitAccount
<1> HIDE DEF I
<1>4. Sound(A, Owners) /\ Extends(I, A, {a}, Owners) /\ (A.ok => A.ata[a].live)
  BY <1>2, <1>3, InitIfNeededAtaFact
<1> HIDE DEF A
<1>5. /\ Sound(D, Owners) /\ Extends(A, D, {a, b}, Owners)
      /\ D.ok => Holds(D, a, offer.asset_is_native, k.amount)
  BY <1>4, DepositEscrowFact
<1> HIDE DEF D
<1>6. Extends(bank, D, {a, b}, Owners)
  BY <1>3, <1>4, <1>5 DEF Extends
<1>7. Touches({a, b})
  BY <1>1, <1>5, <1>6, CommitFact
<1> QED BY <1>1, <1>5, <1>7 DEF Commit

\* The banks that a withdrawal goes through: the one after the recipient's token
\* account is there, and the one at its end.
LEMMA WithdrawBankFact ==
  ASSUME TypeInv, NEW k \in EscrowKeys, NEW u \in Users, NEW with_ata \in BOOLEAN,
         NEW a, a = EscrowAta(k), NEW b, b = RecipientAta(k),
         NEW L, L = RecipientAccounts(k, u, with_ata),
         NEW R, R = WithdrawBank(k, u, with_ata)
  PROVE  /\ Sound(L, Owners) /\ Extends(bank, L, {b}, Owners) /\ Tidy(bank, L, Owners)
         /\ Sound(R, Owners) /\ Extends(L, R, {a, b}, Owners) /\ Tidy(L, R, Owners)
<1> DEFINE e == escrow[k]
           P == ProcessPayout(L, k, e.token, e.asset_is_native, k.amount, e.recipient, k.creator)
           D == PaySafetyDeposit(P, k, e.safety_deposit, k.creator, u)
<1>1. R = CloseAccount(D, k, k.creator)
  BY DEF WithdrawBank
<1>2. /\ k \in Owners /\ u \in Owners /\ k.creator \in Owners /\ k.amount \in Nat
      /\ e.recipient \in Owners /\ k # e.recipient /\ e.token \in Mints
      /\ e.asset_is_native \in BOOLEAN /\ e.safety_deposit \in Nat
      /\ a \in Atas(Owners) /\ b \in Atas(Owners)
      /\ a = Ata(k, e.token) /\ b = Ata(e.recipient, e.token)
      /\ k # k.creator /\ k # u
  BY KeyFact, EscrowFact DEF TypeInv, RecipientAta
<1>3. Sound(L, Owners) /\ Extends(bank, L, {b}, Owners) /\ Tidy(bank, L, Owners)
  <2>1. CASE with_ata
    <3>1. L = InitIfNeededAta(bank, u, b)
      BY <2>1 DEF RecipientAccounts
    <3>2. Tidy(bank, L, Owners)
      BY <1>2, <3>1, SoundFact, TidyOpen
    <3> QED BY <1>2, <3>1, <3>2, SoundFact, InitIfNeededAtaFact
  <2>2. CASE ~with_ata
    BY <2>2, SoundFact DEF RecipientAccounts, Extends, Tidy
  <2> QED BY <2>1, <2>2
<1>4. P = ProcessPayout(L, k, e.token, e.asset_is_native, k.amount, e.recipient, k.creator)
  OBVIOUS
<1> HIDE DEF P, e
<1>5. Sound(P, Owners) /\ Extends(L, P, {a, b}, Owners)
  BY <1>2, <1>3, <1>4, ProcessPayoutFact
<1>6. Tidy(L, P, Owners)
  BY <1>2, <1>3, <1>4, TidyPayout
<1>7. D = PaySafetyDeposit(P, k, e.safety_deposit, k.creator, u)
  OBVIOUS
<1> HIDE DEF D
<1>8. Sound(D, Owners) /\ Extends(P, D, {}, Owners)
  BY <1>2, <1>5, <1>7, PaySafetyDepositFact
<1>9. D.ata = P.ata
  BY <1>2, <1>5, <1>7, PaySafetyDepositEffect
<1>10. Sound(R, Owners) /\ Extends(D, R, {}, Owners)
  BY <1>1, <1>2, <1>8, CloseAccountFact
<1>11. R.ata = D.ata
  BY <1>1, <1>2, <1>8, CloseAccountEffect
<1>12. Extends(L, R, {a, b}, Owners)
  BY <1>5, <1>8, <1>10 DEF Extends
<1>13. Tidy(L, R, Owners)
  BY <1>6, <1>9, <1>11 DEF Tidy
<1> QED BY <1>3, <1>10, <1>12, <1>13

\* A withdrawal changes the token accounts of the escrow and of its recipient.
LEMMA WithdrawTouches ==
  ASSUME TypeInv, NEW k \in EscrowKeys, NEW s, NEW u \in Users, NEW with_ata \in BOOLEAN,
         WithdrawBy(k, s, u, with_ata)
  PROVE  Touches({EscrowAta(k), RecipientAta(k)}) /\ Tidy(bank, bank', Owners)
<1> DEFINE a == EscrowAta(k)
           b == RecipientAta(k)
           L == RecipientAccounts(k, u, with_ata)
           R == WithdrawBank(k, u, with_ata)
<1>1. Commit(R)
  BY DEF WithdrawBy
<1>2. /\ a = EscrowAta(k) /\ b = RecipientAta(k)
      /\ L = RecipientAccounts(k, u, with_ata) /\ R = WithdrawBank(k, u, with_ata)
  OBVIOUS
<1> HIDE DEF a, b, L, R
<1>3. /\ Sound(R, Owners) /\ Extends(bank, L, {b}, Owners) /\ Extends(L, R, {a, b}, Owners)
      /\ Tidy(bank, L, Owners) /\ Tidy(L, R, Owners)
  BY <1>2, WithdrawBankFact
<1>4. Extends(bank, R, {a, b}, Owners)
  BY <1>3 DEF Extends
<1>5. Tidy(bank, R, Owners)
  BY <1>3, TidyTransitive
<1> QED BY <1>1, <1>2, <1>3, <1>4, <1>5, CommitFact DEF Commit

\* A cancellation changes the token accounts of the escrow and of its creator.
LEMMA CancelTouches ==
  ASSUME TypeInv, NEW k \in EscrowKeys, Cancel(k)
  PROVE  Touches({EscrowAta(k), CreatorAta(k)}) /\ Tidy(bank, bank', Owners)
<1> DEFINE a == EscrowAta(k)
           b == CreatorAta(k)
           e == escrow[k]
           P == ProcessPayout(bank, k, e.token, e.asset_is_native, k.amount, k.creator, k.creator)
           M == CloseAccount(P, k, k.creator)
<1>1. Commit(M)
  BY DEF Cancel, CancelBank
<1>2. /\ k \in Owners /\ k.creator \in Owners /\ k # k.creator /\ k.amount \in Nat
      /\ e.token \in Mints /\ e.asset_is_native \in BOOLEAN
      /\ a = Ata(k, e.token) /\ b = Ata(k.creator, e.token)
  BY KeyFact, EscrowFact DEF TypeInv, CreatorAta
<1>3. P = ProcessPayout(bank, k, e.token, e.asset_is_native, k.amount, k.creator, k.creator)
  OBVIOUS
<1> HIDE DEF a, b, e, P
<1>4. Sound(P, Owners) /\ Extends(bank, P, {a, b}, Owners)
  BY <1>2, <1>3, SoundFact, ProcessPayoutFact
<1>5. Tidy(bank, P, Owners)
  BY <1>2, <1>3, SoundFact, TidyPayout
<1>6. M = CloseAccount(P, k, k.creator)
  OBVIOUS
<1> HIDE DEF M
<1>7. Sound(M, Owners) /\ Extends(P, M, {}, Owners)
  BY <1>2, <1>4, <1>6, CloseAccountFact
<1>8. M.ata = P.ata
  BY <1>2, <1>4, <1>6, CloseAccountEffect
<1>9. Extends(bank, M, {a, b}, Owners)
  BY <1>4, <1>7 DEF Extends
<1>10. Tidy(bank, M, Owners)
  BY <1>5, <1>8 DEF Tidy
<1> QED BY <1>1, <1>7, <1>9, <1>10, CommitFact DEF Commit, a, b

\* A rescue changes the two token accounts it names.
LEMMA RescueTouches ==
  ASSUME TypeInv, NEW k \in EscrowKeys, NEW m \in Mints,
         NEW n \in 0..bank.ata[Ata(k, m)].amount, RescueFundsForEscrow(k, m, n)
  PROVE  Touches({Ata(k, m), Ata(k.creator, m)})
<1> DEFINE M == RescueFunds(bank, k, k.creator, m, n)
<1>1. Commit(M)
  BY DEF RescueFundsForEscrow
<1>2. k \in Owners /\ k.creator \in Owners /\ k # k.creator
  BY KeyFact
<1>3. n \in Nat
  OBVIOUS
<1>4. Sound(M, Owners) /\ Extends(bank, M, {Ata(k, m), Ata(k.creator, m)}, Owners)
  BY <1>2, <1>3, SoundFact, RescueFundsFact
<1> HIDE DEF M
<1> QED BY <1>1, <1>4, CommitFact

\* What others can do to a program's token account only adds to it.
LEMMA OutsideTouches ==
  ASSUME TypeInv, NEW u \in Outsiders, NEW a \in EscrowKeys \X Mints, OutsideStep(u, a)
  PROVE  /\ Touches({a, Ata(u, a[2])})
         /\ bank.ata[a].live => /\ bank'.ata[a].live
                                /\ bank'.ata[a].amount >= bank.ata[a].amount
                                /\ bank'.ata[a].lamports >= bank.ata[a].lamports
<1> DEFINE b == Ata(u, a[2])
<1>1. /\ u \in Owners /\ a \in Atas(Owners) /\ b \in Atas(Owners) /\ a # b
  BY KeyFact, EscrowDstAssumption DEF Atas, Ata
<1>2. Sound(bank, Owners) /\ bank.ata[a] \in AtaState /\ bank.ata[b] \in AtaState
  BY <1>1, SoundFact DEF Sound, Bank, Atas
<1> HIDE DEF b
<1>3. CASE OutsideOpen(u, a)
  <2> DEFINE M == OpenAta(bank, u, a)
  <2>1. Commit(M)
    BY <1>3 DEF OutsideOpen
  <2>2. /\ Sound(M, Owners) /\ Extends(bank, M, {a}, Owners)
        /\ M.ok => ~bank.ata[a].live
    BY <1>1, <1>2, OpenAtaFact
  <2> HIDE DEF M
  <2>3. Extends(bank, M, {a, b}, Owners) /\ ~bank.ata[a].live
    BY <2>1, <2>2 DEF Extends, Commit
  <2> QED BY <2>1, <2>2, <2>3, CommitFact DEF b
<1>4. CASE \E n \in 1..bank.ata[b].amount : OutsideDeposit(u, a, n)
  <2>1. PICK n \in 1..bank.ata[b].amount : OutsideDeposit(u, a, n)
    BY <1>4
  <2> DEFINE M == TransferTokens(bank, b, a, n)
  <2>2. Commit(M) /\ n \in Nat
    BY <2>1 DEF OutsideDeposit, b
  <2>3. /\ Sound(M, Owners) /\ Extends(bank, M, {b, a}, Owners)
        /\ M.ok => /\ bank.ata[b].live /\ M.ata[b].live
                   /\ bank.ata[a].live /\ M.ata[a].live
                   /\ M.ata[b].amount = bank.ata[b].amount - n
                   /\ M.ata[a].amount = bank.ata[a].amount + n
                   /\ M.ata[a].lamports >= bank.ata[a].lamports
    BY <1>1, <1>2, <2>2, TransferTokensFact
  <2> HIDE DEF M
  <2>4. Extends(bank, M, {a, b}, Owners)
    BY <2>3 DEF Extends
  <2>5. M.ok /\ bank' = M
    BY <2>2 DEF Commit
  <2>6. /\ bank'.ata[a].live /\ bank'.ata[a].amount >= bank.ata[a].amount
        /\ bank'.ata[a].lamports >= bank.ata[a].lamports
    BY <1>2, <2>2, <2>3, <2>5 DEF AtaState
  <2> QED BY <2>2, <2>3, <2>4, <2>6, CommitFact DEF b
<1>5. CASE \E n \in 1..bank.sol[u] : OutsideLamports(u, a, n)
  <2>1. PICK n \in 1..bank.sol[u] : OutsideLamports(u, a, n)
    BY <1>5
  <2> DEFINE M == FundAta(bank, u, a, n)
  <2>2. Commit(M) /\ n \in Nat
    BY <2>1 DEF OutsideLamports
  <2>3. /\ Sound(M, Owners) /\ Extends(bank, M, {a}, Owners)
        /\ M.ok => M.ata[a] = [bank.ata[a] EXCEPT !.lamports = @ + n]
    BY <1>1, <1>2, <2>2, FundAtaFact
  <2> HIDE DEF M
  <2>4. Extends(bank, M, {a, b}, Owners)
    BY <2>3 DEF Extends
  <2>5. M.ok /\ bank' = M
    BY <2>2 DEF Commit
  <2>6. bank.ata[a].live => /\ bank'.ata[a].live
                            /\ bank'.ata[a].amount >= bank.ata[a].amount
                            /\ bank'.ata[a].lamports >= bank.ata[a].lamports
    BY <1>2, <2>2, <2>3, <2>5 DEF AtaState
  <2> QED BY <2>2, <2>3, <2>4, <2>6, CommitFact DEF b
<1>6. CASE OutsideSync(a)
  <2> DEFINE M == SyncNative(bank, a)
  <2>1. Commit(M)
    BY <1>6 DEF OutsideSync
  <2>2. /\ Sound(M, Owners) /\ Extends(bank, M, {a}, Owners)
        /\ M.ok => /\ M.ata[a].live /\ M.ata[a].amount >= bank.ata[a].amount
                   /\ M.ata[a].lamports = bank.ata[a].lamports
    BY <1>1, <1>2, SyncNativeFact
  <2> HIDE DEF M
  <2>3. Extends(bank, M, {a, b}, Owners)
    BY <2>2 DEF Extends
  <2>4. /\ bank'.ata[a].live /\ bank'.ata[a].amount >= bank.ata[a].amount
        /\ bank'.ata[a].lamports >= bank.ata[a].lamports
    BY <1>2, <2>1, <2>2 DEF AtaState, Commit
  <2> QED BY <2>1, <2>2, <2>3, <2>4, CommitFact DEF b
<1> QED BY <1>3, <1>4, <1>5, <1>6 DEF OutsideStep, b

\* Nothing else happens when somebody opens a user's token account.
LEMMA OpenTouches ==
  ASSUME TypeInv, NEW u \in Outsiders, NEW a \in Users \X Mints, OutsideOpen(u, a)
  PROVE  Touches({a})
<1> DEFINE M == OpenAta(bank, u, a)
<1>1. Commit(M)
  BY DEF OutsideOpen
<1>2. u \in Owners /\ a \in Atas(Owners)
  BY KeyFact, EscrowDstAssumption DEF Atas
<1>3. Sound(M, Owners) /\ Extends(bank, M, {a}, Owners)
  BY <1>2, SoundFact, OpenAtaFact
<1> HIDE DEF M
<1> QED BY <1>1, <1>3, CommitFact

\* Nor when somebody closes a token account of its own.
LEMMA CloseOwnTouches ==
  ASSUME TypeInv, NEW a \in Closers \X Mints, CloseOwnAta(a)
  PROVE  Touches({a})
<1> DEFINE M == CloseAta(bank, a, a[1])
<1>1. Commit(M)
  BY DEF CloseOwnAta
<1>2. a[1] \in Owners /\ a \in Atas(Owners)
  BY KeyFact, EscrowDstAssumption DEF Atas
<1>3. Sound(M, Owners) /\ Extends(bank, M, {a}, Owners)
  BY <1>2, SoundFact, CloseAtaFact
<1> HIDE DEF M
<1> QED BY <1>1, <1>3, CommitFact

-----------------------------------------------------------------------------
\* Types.

\* The content of a closed account has the type too.
LEMMA NoEscrowFact ==
  ASSUME NEW k \in EscrowKeys
  PROVE  NoEscrow(k) \in EscrowState
BY KeyFact, LedgerAssumption, WidthsAssumption
   DEF NoEscrow, EscrowState, NoTimelocks, TimelockWords, U32, U64

\* The initial state has the types.
LEMMA InitTypes == Init => TypeInv
<1> SUFFICES ASSUME Init PROVE TypeInv
  OBVIOUS
<1> DEFINE Start(a) == IF a \in InitAtas
                       THEN [live     |-> TRUE,
                             amount   |-> InitTokens[a],
                             lamports |-> RENT_ATA + TokenLamports(a, InitTokens[a])]
                       ELSE NoAta
           ata == [a \in Owners \X Mints |-> Start(a)]
           sol == [x \in Owners |-> IF x \in Users THEN InitSol[x] ELSE 0]
<1>1. \A a \in Owners \X Mints :
        /\ Start(a) \in AtaState
        /\ Start(a).live => Start(a).lamports >= RENT_ATA + TokenLamports(a, Start(a).amount)
  <2> SUFFICES ASSUME NEW a \in Owners \X Mints
               PROVE  /\ Start(a) \in AtaState
                      /\ Start(a).live =>
                           Start(a).lamports >= RENT_ATA + TokenLamports(a, Start(a).amount)
    OBVIOUS
  <2>1. CASE a \in InitAtas
    <3>1. InitTokens[a] \in Nat
      BY <2>1, EscrowDstAssumption
    <3>2. TokenLamports(a, InitTokens[a]) \in Nat
      BY <3>1 DEF TokenLamports
    <3> QED BY <2>1, <3>1, <3>2, LedgerAssumption DEF AtaState
  <2>2. CASE a \notin InitAtas
    BY <2>2 DEF NoAta, AtaState
  <2> QED BY <2>1, <2>2
<1>2. sol \in [Owners -> Nat]
  BY EscrowDstAssumption
<1>3. bank = [sol |-> sol, ata |-> ata, ok |-> TRUE]
  BY DEF Init
<1> HIDE DEF Start, sol
<1>4. bank \in Bank(Owners) /\ bank.ok /\ bank.ata = ata
  BY <1>1, <1>2, <1>3 DEF Bank
<1>5. Backed(bank, Owners)
  BY <1>1, <1>4 DEF Backed, Atas
<1>6. escrow \in [EscrowKeys -> EscrowState]
  BY NoEscrowFact DEF Init
<1>7. now \in 0..MaxTime
  BY EscrowDstAssumption, WidthsAssumption DEF Init, U32
<1> QED BY <1>4, <1>5, <1>6, <1>7, EscrowDstAssumption DEF Init, TypeInv, TypeOK

\* create keeps the types.
LEMMA CreateTypes ==
  ASSUME TypeInv, NEW k \in EscrowKeys, NEW offer \in Offers, Create(k, offer)
  PROVE  TypeInv'
<1>1. Sound(bank', Owners) /\ bank'.ok
  BY CreateTouches DEF Touches
<1>2. SetDeployedAt(offer.timelocks, now) \in TimelockWords
  <2>1. now \in U32 /\ offer.timelocks \in TimelockWords
    BY OfferFact, EscrowDstAssumption, WidthsAssumption DEF TypeInv, TypeOK, U32
  <2> QED BY <2>1 DEF SetDeployedAt, TimelockWords
<1>3. escrow' \in [EscrowKeys -> EscrowState]
  BY <1>2, OfferFact DEF Create, EscrowState, TypeInv, TypeOK
<1> QED BY <1>1, <1>3 DEF Create, TypeInv, TypeOK, Sound

\* A step that ends an escrow keeps the types.
LEMMA EndEscrowTypes ==
  ASSUME TypeInv, NEW k \in EscrowKeys, NEW S, Touches(S), CloseEscrow(k),
         UNCHANGED <<now, resolver_access, revealed>>
  PROVE  TypeInv'
<1>1. escrow' \in [EscrowKeys -> EscrowState]
  BY NoEscrowFact DEF CloseEscrow, TypeInv, TypeOK
<1> QED BY <1>1 DEF Touches, Sound, TypeInv, TypeOK

\* A step that changes nothing but the bank keeps the types.
LEMMA BankOnlyTypes ==
  ASSUME TypeInv, NEW S, Touches(S), BankOnly
  PROVE  TypeInv'
BY DEF BankOnly, Touches, Sound, TypeInv, TypeOK

\* Every step keeps the types.
LEMMA NextTypes ==
  ASSUME TypeInv, [Next]_vars
  PROVE  TypeInv'
<1>1. CASE Tick
  BY <1>1, EscrowDstAssumption, WidthsAssumption DEF Tick, TypeInv, TypeOK, Backed, U32
<1>2. CASE \E s \in Secrets : RevealSecret(s)
  BY <1>2 DEF RevealSecret, TypeInv, TypeOK, Backed
<1>3. CASE \E u \in Resolvers : Register(u) \/ Deregister(u)
  BY <1>3, EscrowDstAssumption DEF Register, Deregister, TypeInv, TypeOK, Backed
<1>4. ASSUME NEW k \in EscrowKeys, EscrowStep(k) PROVE TypeInv'
  <2>1. CASE \E offer \in Offers : Create(k, offer)
    BY <2>1, CreateTypes
  <2>2. ASSUME NEW s, NEW u \in Users, NEW with_ata \in BOOLEAN, WithdrawBy(k, s, u, with_ata)
        PROVE  TypeInv'
    <3>1. Touches({EscrowAta(k), RecipientAta(k)})
      BY <2>2, WithdrawTouches
    <3> QED BY <2>2, <3>1, EndEscrowTypes DEF WithdrawBy
  <2>3. CASE \E s \in Secrets, with_ata \in BOOLEAN : Withdraw(k, s, with_ata)
    BY <2>2, <2>3, KeyFact DEF Withdraw
  <2>4. CASE \E s \in Secrets, payer \in Users, with_ata \in BOOLEAN :
               PublicWithdraw(k, s, payer, with_ata)
    BY <2>2, <2>4 DEF PublicWithdraw
  <2>5. CASE Cancel(k)
    <3>1. Touches({EscrowAta(k), CreatorAta(k)})
      BY <2>5, CancelTouches
    <3> QED BY <2>5, <3>1, EndEscrowTypes DEF Cancel
  <2>6. ASSUME NEW m \in Mints, NEW n \in 0..bank.ata[Ata(k, m)].amount,
               RescueFundsForEscrow(k, m, n)
        PROVE  TypeInv'
    <3>1. Touches({Ata(k, m), Ata(k.creator, m)})
      BY <2>6, RescueTouches
    <3> QED BY <2>6, <3>1, BankOnlyTypes DEF RescueFundsForEscrow, BankOnly
  <2> QED BY <1>4, <2>1, <2>3, <2>4, <2>5, <2>6 DEF EscrowStep
<1>5. ASSUME NEW u \in Outsiders, NEW a \in EscrowKeys \X Mints, OutsideStep(u, a)
      PROVE  TypeInv'
  <2>1. BankOnly
    BY <1>5 DEF OutsideStep, OutsideOpen, OutsideDeposit, OutsideLamports, OutsideSync
  <2>2. Touches({a, Ata(u, a[2])})
    BY <1>5, OutsideTouches
  <2> QED BY <2>1, <2>2, BankOnlyTypes
<1>6. ASSUME NEW u \in Outsiders, NEW a \in Users \X Mints, OutsideOpen(u, a)
      PROVE  TypeInv'
  BY <1>6, OpenTouches, BankOnlyTypes DEF OutsideOpen
<1>7. ASSUME NEW a \in Closers \X Mints, CloseOwnAta(a) PROVE TypeInv'
  BY <1>7, CloseOwnTouches, BankOnlyTypes DEF CloseOwnAta
<1>8. CASE UNCHANGED vars
  BY <1>8 DEF vars, TypeInv, TypeOK, Backed
<1> QED BY <1>1, <1>2, <1>3, <1>4, <1>5, <1>6, <1>7, <1>8 DEF Next

\* Every variable keeps its type, no reverted transaction is committed, and no
\* open token account loses its reserve or the lamports behind wrapped SOL.
THEOREM TypesInvariant == Spec => []TypeInv
<1>1. Init => TypeInv
  BY InitTypes
<1>2. TypeInv /\ [Next]_vars => TypeInv'
  BY NextTypes
<1> QED BY <1>1, <1>2, PTL DEF Spec

\* TypeOK is an invariant of the destination-chain program.
THEOREM TypeCorrect == Spec => []TypeOK
<1>1. TypeInv => TypeOK
  BY DEF TypeInv
<1> QED BY <1>1, TypesInvariant, PTL

-----------------------------------------------------------------------------
\* Funds.

\* EscrowFunded for one account.
FundedAt(k) ==
  (escrow[k].live /\ ~EscrowRescuable(k)) =>
    Holds(bank, EscrowAta(k), escrow[k].asset_is_native, k.amount)

\* EscrowFunded is that of every account.
LEMMA FundedFact ==
  /\ EscrowFunded => \A k \in EscrowKeys : FundedAt(k)
  /\ (\A k \in EscrowKeys : FundedAt(k)') => EscrowFunded'
BY DEF EscrowFunded, FundedAt, Holds

\* The inductive invariant.
Inv == TypeInv /\ EscrowFunded

\* An escrow stays funded if its account is not written, its ATA loses neither
\* tokens nor lamports, and time does not go back.
LEMMA Kept ==
  ASSUME Inv, TypeInv', NEW k \in EscrowKeys, escrow'[k] = escrow[k], now' >= now,
         bank.ata[EscrowAta(k)].live =>
           /\ bank'.ata[EscrowAta(k)].live
           /\ bank'.ata[EscrowAta(k)].amount >= bank.ata[EscrowAta(k)].amount
           /\ bank'.ata[EscrowAta(k)].lamports >= bank.ata[EscrowAta(k)].lamports
  PROVE  FundedAt(k)'
<1>1. now \in Nat /\ now' \in Nat
  BY EscrowDstAssumption, WidthsAssumption DEF Inv, TypeInv, TypeOK, U32
<1>2. /\ RescueStart(escrow[k].timelocks) \in Nat /\ k.amount \in Nat
      /\ EscrowAta(k) \in Atas(Owners) /\ EscrowAta(k)' = EscrowAta(k)
  BY EscrowFact, KeyFact DEF Inv, TypeInv, EscrowAta
<1> DEFINE a == EscrowAta(k)
<1>3. bank.ata[a] \in AtaState /\ bank'.ata[a] \in AtaState
  BY <1>2 DEF Inv, TypeInv, TypeOK, Bank, Atas
<1>4. EscrowRescuable(k) => EscrowRescuable(k)'
  BY <1>1, <1>2 DEF EscrowRescuable
<1>5. FundedAt(k)
  BY FundedFact DEF Inv
<1>6. Holds(bank, a, escrow[k].asset_is_native, k.amount) =>
        Holds(bank', a, escrow[k].asset_is_native, k.amount)
  BY <1>2, <1>3, LedgerAssumption DEF Holds, AtaState
<1>7. FundedAt(k)' = ((escrow'[k].live /\ ~EscrowRescuable(k)') =>
                        Holds(bank', EscrowAta(k)', escrow'[k].asset_is_native, k.amount))
  BY DEF FundedAt, Holds
<1> HIDE DEF a
<1> QED BY <1>2, <1>4, <1>5, <1>6, <1>7 DEF FundedAt, a

\* So does one whose ATA the step does not touch at all.
LEMMA Untouched ==
  ASSUME Inv, TypeInv', now' = now, NEW S, Touches(S), NEW k \in EscrowKeys,
         escrow'[k] = escrow[k], EscrowAta(k) \notin S
  PROVE  FundedAt(k)'
<1>1. now' >= now
  BY SoundFact DEF Inv
<1>2. EscrowAta(k) \in Atas(Owners)
  BY EscrowFact DEF Inv, TypeInv
<1>3. bank'.ata[EscrowAta(k)] = bank.ata[EscrowAta(k)]
  BY <1>2 DEF Touches
<1>4. bank.ata[EscrowAta(k)] \in AtaState
  BY <1>2 DEF Inv, TypeInv, TypeOK, Bank, Atas
<1> QED BY <1>1, <1>3, <1>4, Kept DEF AtaState

\* The escrows' token accounts differ from each other and from the users'.
LEMMA AtasDiffer ==
  ASSUME NEW k \in EscrowKeys, NEW j \in EscrowKeys, j # k, NEW u \in Users,
         NEW m, NEW n
  PROVE  EscrowAta(j) \notin {Ata(k, m), Ata(u, n)}
BY KeyFact DEF EscrowAta, Ata

\* A step that writes at most the escrow k, and touches at most token accounts
\* of k and of a user, leaves every other escrow funded.
LEMMA OthersFunded ==
  ASSUME Inv, TypeInv', now' = now, NEW k \in EscrowKeys, NEW u \in Users, NEW m, NEW n,
         Touches({Ata(k, m), Ata(u, n)}),
         \A j \in EscrowKeys \ {k} : escrow'[j] = escrow[j]
  PROVE  \A j \in EscrowKeys \ {k} : FundedAt(j)'
BY AtasDiffer, Untouched

\* create funds its escrow, in tokens or in lamports.
LEMMA CreateFunds ==
  ASSUME Inv, TypeInv', NEW k \in EscrowKeys, NEW offer \in Offers, Create(k, offer)
  PROVE  EscrowFunded'
<1>1. /\ Touches({Ata(k, offer.token), Ata(k.creator, offer.token)})
      /\ Holds(bank', Ata(k, offer.token), offer.asset_is_native, k.amount)
  BY CreateTouches DEF Inv
<1>2. /\ now' = now
      /\ escrow'[k].token = offer.token
      /\ escrow'[k].asset_is_native = offer.asset_is_native
      /\ \A j \in EscrowKeys \ {k} : escrow'[j] = escrow[j]
  BY DEF Create, Inv, TypeInv, TypeOK
<1>3. FundedAt(k)'
  BY <1>1, <1>2 DEF FundedAt, Holds, EscrowAta
<1>4. \A j \in EscrowKeys \ {k} : FundedAt(j)'
  BY <1>1, <1>2, KeyFact, OthersFunded
<1> QED BY <1>3, <1>4, FundedFact

\* The end of an escrow leaves nothing to fund there.
LEMMA EndEscrowFunded ==
  ASSUME Inv, TypeInv', NEW k \in EscrowKeys, NEW u \in Users, NEW m, NEW n,
         Touches({Ata(k, m), Ata(u, n)}), CloseEscrow(k), now' = now
  PROVE  EscrowFunded'
<1>1. /\ ~escrow'[k].live
      /\ \A j \in EscrowKeys \ {k} : escrow'[j] = escrow[j]
  BY DEF CloseEscrow, NoEscrow, Inv, TypeInv, TypeOK
<1>2. FundedAt(k)'
  BY <1>1 DEF FundedAt
<1>3. \A j \in EscrowKeys \ {k} : FundedAt(j)'
  BY <1>1, OthersFunded
<1> QED BY <1>2, <1>3, FundedFact

\* rescue_funds takes nothing from a live escrow before its rescue start.
LEMMA RescueFunded ==
  ASSUME Inv, TypeInv', NEW k \in EscrowKeys, NEW m \in Mints,
         NEW n \in 0..bank.ata[Ata(k, m)].amount, RescueFundsForEscrow(k, m, n)
  PROVE  EscrowFunded'
<1>1. Touches({Ata(k, m), Ata(k.creator, m)})
  BY RescueTouches DEF Inv
<1>2. /\ RescueOpen(escrow[k].live, escrow[k].timelocks, now)
      /\ now' = now /\ escrow' = escrow
  BY DEF RescueFundsForEscrow
<1>3. FundedAt(k)'
  BY <1>2 DEF FundedAt, EscrowRescuable, RescueOpen, RescueReached
<1>4. \A j \in EscrowKeys \ {k} : FundedAt(j)'
  BY <1>1, <1>2, KeyFact, OthersFunded
<1> QED BY <1>3, <1>4, FundedFact

\* A step that writes no escrow and only adds to the escrows' token accounts.
LEMMA QuietFunded ==
  ASSUME Inv, TypeInv', escrow' = escrow, now' >= now,
         \A b \in EscrowKeys \X Mints : bank.ata[b].live =>
           /\ bank'.ata[b].live
           /\ bank'.ata[b].amount >= bank.ata[b].amount
           /\ bank'.ata[b].lamports >= bank.ata[b].lamports
  PROVE  EscrowFunded'
<1>1. ASSUME NEW k \in EscrowKeys PROVE FundedAt(k)'
  <2>1. EscrowAta(k) \in EscrowKeys \X Mints
    BY EscrowFact DEF Inv, TypeInv, Ata
  <2> QED BY <2>1, Kept
<1> QED BY <1>1, FundedFact

\* A step that leaves the bank and the escrows alone.
LEMMA IdleFunded ==
  ASSUME Inv, TypeInv', escrow' = escrow, bank' = bank, now' >= now
  PROVE  EscrowFunded'
<1>1. \A b \in EscrowKeys \X Mints : bank.ata[b] \in AtaState
  BY KeyFact DEF Inv, TypeInv, TypeOK, Bank
<1>2. \A b \in EscrowKeys \X Mints :
        bank'.ata[b].amount >= bank.ata[b].amount /\ bank'.ata[b].lamports >= bank.ata[b].lamports
  BY <1>1 DEF AtaState
<1> QED BY <1>2, QuietFunded

\* Outside transfers only add to the escrows' token accounts.
LEMMA OutsideFunded ==
  ASSUME Inv, TypeInv', NEW u \in Outsiders, NEW a \in EscrowKeys \X Mints, OutsideStep(u, a)
  PROVE  EscrowFunded'
<1>1. UNCHANGED <<now, escrow>>
  BY DEF OutsideStep, OutsideOpen, OutsideDeposit, OutsideLamports, OutsideSync, BankOnly
<1>2. /\ Touches({a, Ata(u, a[2])})
      /\ bank.ata[a].live => /\ bank'.ata[a].live
                             /\ bank'.ata[a].amount >= bank.ata[a].amount
                             /\ bank'.ata[a].lamports >= bank.ata[a].lamports
  BY OutsideTouches DEF Inv
<1>3. ASSUME NEW b \in EscrowKeys \X Mints, bank.ata[b].live
      PROVE  /\ bank'.ata[b].live
             /\ bank'.ata[b].amount >= bank.ata[b].amount
             /\ bank'.ata[b].lamports >= bank.ata[b].lamports
  <2>1. b \in Atas(Owners) /\ b # Ata(u, a[2])
    BY KeyFact, EscrowDstAssumption DEF Atas, Ata
  <2>2. bank.ata[b].amount \in Nat /\ bank.ata[b].lamports \in Nat
    BY <2>1 DEF Inv, TypeInv, TypeOK, Bank, Atas, AtaState
  <2>3. CASE b = a
    BY <1>2, <1>3, <2>3
  <2>4. CASE b # a
    BY <1>2, <1>3, <2>1, <2>2, <2>4 DEF Touches
  <2> QED BY <2>3, <2>4
<1>4. now' >= now
  BY <1>1, SoundFact DEF Inv
<1> QED BY <1>1, <1>3, <1>4, QuietFunded

\* Opening or closing a user's token account touches none of the escrows'.
LEMMA UserAtaFunded ==
  ASSUME Inv, TypeInv', NEW a \in Users \X Mints, Touches({a}), BankOnly
  PROVE  EscrowFunded'
<1>1. Touches({a}) /\ now' = now /\ escrow' = escrow
  BY DEF BankOnly
<1>2. \A k \in EscrowKeys : EscrowAta(k) \notin {a}
  BY KeyFact DEF EscrowAta, Ata
<1>3. \A k \in EscrowKeys : FundedAt(k)'
  BY <1>1, <1>2, Untouched
<1> QED BY <1>3, FundedFact

\* Every step keeps the escrows funded.
LEMMA NextFunded ==
  ASSUME Inv, [Next]_vars
  PROVE  EscrowFunded'
<1>0. TypeInv /\ TypeInv' /\ now \in Nat
  BY NextTypes, SoundFact DEF Inv
<1>1. CASE Tick
  <2>1. bank' = bank /\ now' >= now /\ escrow' = escrow
    BY <1>0, <1>1 DEF Tick
  <2> QED BY <1>0, <2>1, IdleFunded
<1>2. CASE \/ \E s \in Secrets : RevealSecret(s)
           \/ \E u \in Resolvers : Register(u) \/ Deregister(u)
           \/ UNCHANGED vars
  <2>1. bank' = bank /\ now' = now /\ escrow' = escrow
    BY <1>2 DEF RevealSecret, Register, Deregister, vars
  <2>2. now' >= now
    BY <1>0, <2>1
  <2> QED BY <1>0, <2>1, <2>2, IdleFunded
<1>3. ASSUME NEW k \in EscrowKeys, EscrowStep(k) PROVE EscrowFunded'
  <2>1. CASE \E offer \in Offers : Create(k, offer)
    BY <1>0, <2>1, CreateFunds
  <2>2. ASSUME NEW s, NEW u \in Users, NEW with_ata \in BOOLEAN, WithdrawBy(k, s, u, with_ata)
        PROVE  EscrowFunded'
    <3>1. Touches({EscrowAta(k), RecipientAta(k)})
      BY <1>0, <2>2, WithdrawTouches
    <3>2. escrow[k].recipient \in Users
      BY <1>0, EscrowFact DEF TypeInv
    <3> QED BY <1>0, <2>2, <3>1, <3>2, EndEscrowFunded DEF WithdrawBy, EscrowAta, RecipientAta
  <2>3. CASE \E s \in Secrets, with_ata \in BOOLEAN : Withdraw(k, s, with_ata)
    BY <2>2, <2>3, KeyFact DEF Withdraw
  <2>4. CASE \E s \in Secrets, payer \in Users, with_ata \in BOOLEAN :
               PublicWithdraw(k, s, payer, with_ata)
    BY <2>2, <2>4 DEF PublicWithdraw
  <2>5. CASE Cancel(k)
    <3>1. Touches({EscrowAta(k), CreatorAta(k)})
      BY <1>0, <2>5, CancelTouches
    <3> QED BY <1>0, <2>5, <3>1, KeyFact, EndEscrowFunded DEF Cancel, EscrowAta, CreatorAta
  <2>6. ASSUME NEW m \in Mints, NEW n \in 0..bank.ata[Ata(k, m)].amount,
               RescueFundsForEscrow(k, m, n)
        PROVE  EscrowFunded'
    BY <1>0, <2>6, RescueFunded
  <2> QED BY <1>3, <2>1, <2>3, <2>4, <2>5, <2>6 DEF EscrowStep
<1>4. ASSUME NEW u \in Outsiders, NEW a \in EscrowKeys \X Mints, OutsideStep(u, a)
      PROVE  EscrowFunded'
  BY <1>0, <1>4, OutsideFunded
<1>5. ASSUME NEW u \in Outsiders, NEW a \in Users \X Mints, OutsideOpen(u, a)
      PROVE  EscrowFunded'
  BY <1>0, <1>5, OpenTouches, UserAtaFunded DEF OutsideOpen
<1>6. ASSUME NEW a \in Closers \X Mints, CloseOwnAta(a) PROVE EscrowFunded'
  <2>1. a \in Users \X Mints
    BY <1>6, EscrowDstAssumption
  <2> QED BY <1>0, <1>6, <2>1, CloseOwnTouches, UserAtaFunded DEF CloseOwnAta
<1> QED BY <1>1, <1>2, <1>3, <1>4, <1>5, <1>6 DEF Next

\* Until its rescue start, the ATA of a live escrow holds what withdraw and
\* cancel pay, as tokens or as lamports beyond the rent, whoever sends to it,
\* syncs it or rescues other tokens from it (create, rescue_funds).
THEOREM EscrowsStayFunded == Spec => []EscrowFunded
<1>1. Init => Inv
  <2>1. Init => \A k \in EscrowKeys : ~escrow[k].live
    BY DEF Init, NoEscrow
  <2> QED BY <2>1, InitTypes DEF Inv, EscrowFunded
<1>2. Inv /\ [Next]_vars => Inv'
  BY NextTypes, NextFunded DEF Inv
<1>3. Inv => EscrowFunded
  BY DEF Inv
<1> QED BY <1>1, <1>2, <1>3, PTL DEF Spec

-----------------------------------------------------------------------------
\* When a withdrawal and a cancellation succeed, and what they then pay.

\* The recipient's token account costs whoever ends the escrow its reserve.
LEMMA RecipientAccountsEffect ==
  ASSUME TypeInv, NEW k \in EscrowKeys, NEW u \in Users, NEW with_ata \in BOOLEAN,
         NEW b, b = RecipientAta(k),
         NEW cost, cost = IF with_ata /\ ~bank.ata[b].live THEN RENT_ATA ELSE 0,
         NEW L, L = RecipientAccounts(k, u, with_ata)
  PROVE  /\ L.ok <=> cost <= bank.sol[u]
         /\ L.ok => /\ L.sol[u] = bank.sol[u] - cost
                    /\ \A z \in Owners \ {u} : L.sol[z] = bank.sol[z]
                    /\ with_ata => L.ata[b].live
                    /\ bank.ata[b].live => L.ata[b] = bank.ata[b]
                    /\ (with_ata /\ ~bank.ata[b].live) => L.ata[b].amount = 0
         /\ ~with_ata => L = bank
<1>1. b \in Atas(Owners) /\ u \in Owners /\ Sound(bank, Owners) /\ bank.ok
  BY KeyFact, EscrowFact, SoundFact DEF TypeInv
<1>2. bank.sol[u] \in Nat /\ RENT_ATA \in Nat
  BY <1>1, BankParts, LedgerAssumption
<1>3. CASE with_ata
  <2>1. L = InitIfNeededAta(bank, u, b)
    BY <1>3 DEF RecipientAccounts
  <2>2. /\ L.ok <=> bank.ok /\ (bank.ata[b].live \/ RENT_ATA <= bank.sol[u])
        /\ L.ok => /\ L.ata[b].live
                   /\ L.sol[u] = bank.sol[u] - (IF bank.ata[b].live THEN 0 ELSE RENT_ATA)
                   /\ \A z \in Owners \ {u} : L.sol[z] = bank.sol[z]
    BY <1>1, <2>1, InitIfNeededAtaEffect
  <2>3. /\ Sound(L, Owners) /\ Extends(bank, L, {b}, Owners)
        /\ L.ok => L.ata[b].live
        /\ (L.ok /\ bank.ata[b].live) => L.ata[b] = bank.ata[b]
        /\ (L.ok /\ ~bank.ata[b].live) => L.ata[b].amount = 0
    BY <1>1, <2>1, InitIfNeededAtaFact
  <2>4. CASE bank.ata[b].live
    <3>1. cost = 0 /\ cost <= bank.sol[u] /\ bank.sol[u] - cost = bank.sol[u] - 0
      BY <1>2, <1>3, <2>4
    <3> QED BY <1>1, <1>3, <2>2, <2>3, <2>4, <3>1
  <2>5. CASE ~bank.ata[b].live
    <3>1. cost = RENT_ATA
      BY <1>3, <2>5
    <3> QED BY <1>1, <1>3, <2>2, <2>3, <2>5, <3>1
  <2> QED BY <2>4, <2>5
<1>4. CASE ~with_ata
  <2>1. L = bank /\ cost = 0
    BY <1>4 DEF RecipientAccounts
  <2> QED BY <1>1, <1>2, <1>4, <2>1
<1> QED BY <1>3, <1>4

\* What a withdrawal of a native asset pays, once the recipient's account is there.
LEMMA WithdrawNativeEffect ==
  ASSUME TypeInv, NEW k \in EscrowKeys, NEW u \in Users, NEW with_ata \in BOOLEAN,
         escrow[k].asset_is_native, escrow[k].token = NATIVE_MINT,
         NEW a, a = EscrowAta(k), NEW b, b = RecipientAta(k),
         NEW r, r = escrow[k].recipient, NEW t, t = k.creator,
         NEW d, d = k.amount, NEW n, n = escrow[k].safety_deposit,
         NEW L, L = RecipientAccounts(k, u, with_ata),
         NEW rest, rest = bank.sol[k] + bank.ata[a].lamports - d,
         NEW R, R = WithdrawBank(k, u, with_ata)
  PROVE  /\ (L.ok /\ bank.ata[a].live /\ rest >= n) => R.ok
         /\ R.ok => /\ L.ok
                    /\ R.sol[k] = 0
                    /\ R.sol[r] >= L.sol[r] + d
                    /\ u = t => R.sol[t] >= L.sol[t] + rest
                    /\ u # t => /\ R.sol[u] >= L.sol[u] + n
                                /\ R.sol[t] >= L.sol[t] + rest - n
                    /\ \A z \in EscrowKeys \ {k} : R.sol[z] = bank.sol[z]
                    /\ \A c \in Atas(Owners) \ {a} : R.ata[c] = L.ata[c]
<1>1. /\ k \in Owners /\ r \in Owners /\ t \in Owners /\ u \in Owners
      /\ k # r /\ k # t /\ k # u /\ d \in Nat /\ n \in Nat /\ a \in Atas(Owners)
      /\ a = Ata(k, escrow[k].token) /\ a # b /\ a[2] = NATIVE_MINT
      /\ \A z \in EscrowKeys : z # r /\ z # t /\ z # u
      /\ \A z \in EscrowKeys : z \in Owners \ {u}
  BY KeyFact, EscrowFact DEF TypeInv, Ata
<1>2. Sound(L, Owners) /\ Extends(L, R, {a, b}, Owners) /\ L.ata[a] = bank.ata[a]
  <2>1. /\ Sound(L, Owners) /\ Extends(bank, L, {b}, Owners)
        /\ Sound(R, Owners) /\ Extends(L, R, {a, b}, Owners)
    BY <1>1, WithdrawBankFact
  <2> QED BY <1>1, <2>1 DEF Extends
<1>3. L.ok => \A z \in EscrowKeys : L.sol[z] = bank.sol[z]
  BY <1>1, RecipientAccountsEffect
<1>4. R = CloseAccount(PaySafetyDeposit(MoveLamports(CloseAta(L, a, k), k, r, d), k, n, t, u), k, t)
  BY <1>1 DEF WithdrawBank, ProcessPayout
<1> DEFINE rest1 == L.sol[k] + L.ata[a].lamports - d
<1>5. rest1 = L.sol[k] + L.ata[a].lamports - d
  OBVIOUS
<1>6. L.ok => rest1 = rest
  BY <1>2, <1>3
<1> HIDE DEF rest1
<1>7. /\ k \in Owners /\ r \in Owners /\ t \in Owners /\ u \in Owners
      /\ k # r /\ k # t /\ k # u /\ d \in Nat /\ n \in Nat /\ a \in Atas(Owners)
      /\ Sound(L, Owners)
  BY <1>1, <1>2
<1>8. (/\ L.ok /\ L.ata[a].live /\ (L.ata[a].amount = 0 \/ a[2] = NATIVE_MINT)
        /\ rest1 >= n) => R.ok
  BY ONLY <1>4, <1>5, <1>7, UnwrapAndCloseEffect
<1>9. R.ok => /\ R.ata[a] = NoAta
              /\ \A c \in Atas(Owners) \ {a} : R.ata[c] = L.ata[c]
              /\ R.sol[k] = 0
              /\ R.sol[r] >= L.sol[r] + d
              /\ u = t => R.sol[t] >= L.sol[t] + rest1
              /\ u # t => /\ R.sol[u] >= L.sol[u] + n
                          /\ R.sol[t] >= L.sol[t] + rest1 - n
              /\ \A z \in Owners \ {k, t, u, r} : R.sol[z] = L.sol[z]
  BY ONLY <1>4, <1>5, <1>7, UnwrapAndCloseEffect, SMTT(20)
<1>10. R.ok => L.ok
  BY <1>2 DEF Extends
<1>11. R.ok => \A z \in EscrowKeys \ {k} : R.sol[z] = bank.sol[z]
  BY <1>1, <1>3, <1>9, <1>10
<1> QED BY <1>1, <1>2, <1>6, <1>8, <1>9, <1>10, <1>11

\* What a withdrawal of tokens pays, once the recipient's account is there.
LEMMA WithdrawTokensEffect ==
  ASSUME TypeInv, NEW k \in EscrowKeys, NEW u \in Users, NEW with_ata \in BOOLEAN,
         ~escrow[k].asset_is_native,
         NEW a, a = EscrowAta(k), NEW b, b = RecipientAta(k), NEW t, t = k.creator,
         NEW n, n = escrow[k].safety_deposit,
         NEW L, L = RecipientAccounts(k, u, with_ata),
         NEW rest, rest = bank.sol[k] + (bank.ata[a].lamports - TokenLamports(a, bank.ata[a].amount)),
         NEW R, R = WithdrawBank(k, u, with_ata)
  PROVE  /\ (L.ok /\ bank.ata[a].live /\ L.ata[b].live /\ n <= bank.sol[k]) => R.ok
         /\ R.ok => /\ L.ok
                    /\ R.sol[k] = 0
                    /\ R.ata[b].live = L.ata[b].live
                    /\ R.ata[b].amount = L.ata[b].amount + bank.ata[a].amount
                    /\ u = t => R.sol[t] = L.sol[t] + rest
                    /\ u # t => /\ R.sol[u] = L.sol[u] + n
                                /\ R.sol[t] = L.sol[t] + rest - n
                    /\ \A z \in EscrowKeys \ {k} : R.sol[z] = bank.sol[z]
<1>1. /\ k \in Owners /\ t \in Owners /\ u \in Owners
      /\ k # t /\ k # u /\ n \in Nat /\ a \in Atas(Owners) /\ b \in Atas(Owners)
      /\ a = Ata(k, escrow[k].token) /\ b = Ata(escrow[k].recipient, escrow[k].token)
      /\ a # b /\ a[2] = b[2]
      /\ \A z \in EscrowKeys : z # t /\ z # u
      /\ \A z \in EscrowKeys : z \in Owners \ {u}
  BY KeyFact, EscrowFact DEF TypeInv, Ata, RecipientAta
<1>2. Sound(L, Owners) /\ Extends(L, R, {a, b}, Owners) /\ L.ata[a] = bank.ata[a]
  <2>1. /\ Sound(L, Owners) /\ Extends(bank, L, {b}, Owners)
        /\ Sound(R, Owners) /\ Extends(L, R, {a, b}, Owners)
    BY <1>1, WithdrawBankFact
  <2> QED BY <1>1, <2>1 DEF Extends
<1>3. L.ok => \A z \in EscrowKeys : L.sol[z] = bank.sol[z]
  BY <1>1, RecipientAccountsEffect
<1>4. R = CloseAccount(PaySafetyDeposit(WithdrawAndCloseTokenAta(L, a, b, t), k, n, t, u), k, t)
  BY <1>1 DEF WithdrawBank, ProcessPayout
<1> DEFINE rest1 == L.sol[k] + (L.ata[a].lamports - TokenLamports(a, L.ata[a].amount))
<1>5. rest1 = L.sol[k] + (L.ata[a].lamports - TokenLamports(a, L.ata[a].amount))
  OBVIOUS
<1>6. L.ok => rest1 = rest
  BY <1>2, <1>3
<1> HIDE DEF rest1
<1>7. /\ a \in Atas(Owners) /\ b \in Atas(Owners) /\ a # b /\ a[2] = b[2]
      /\ k \in Owners /\ t \in Owners /\ u \in Owners /\ k # t /\ k # u /\ n \in Nat
      /\ Sound(L, Owners)
  BY <1>1, <1>2
<1>8. /\ (L.ok /\ L.ata[a].live /\ L.ata[b].live /\ n <= L.sol[k]) => R.ok
      /\ R.ok => /\ R.ata[a] = NoAta
                 /\ R.ata[b].live = L.ata[b].live
                 /\ R.ata[b].amount = L.ata[b].amount + L.ata[a].amount
                 /\ \A c \in Atas(Owners) \ {a, b} : R.ata[c] = L.ata[c]
                 /\ R.sol[k] = 0
                 /\ u = t => R.sol[t] = L.sol[t] + rest1
                 /\ u # t => /\ R.sol[u] = L.sol[u] + n
                             /\ R.sol[t] = L.sol[t] + rest1 - n
                 /\ \A z \in Owners \ {k, t, u} : R.sol[z] = L.sol[z]
  BY ONLY <1>4, <1>5, <1>7, TransferAndCloseEffect, SMTT(20)
<1>9. R.ok => L.ok
  BY <1>2 DEF Extends
<1>10. R.ok => \A z \in EscrowKeys \ {k} : R.sol[z] = bank.sol[z]
  BY <1>1, <1>3, <1>8, <1>9
<1>11. R.ok => R.ata[b].amount = L.ata[b].amount + bank.ata[a].amount
  BY <1>2, <1>8
<1> QED BY <1>2, <1>3, <1>6, <1>8, <1>9, <1>10, <1>11

\* A cancellation pays everything to the creator.
LEMMA CancelBankEffect ==
  ASSUME TypeInv, NEW k \in EscrowKeys, NEW e, e = escrow[k],
         e.asset_is_native => e.token = NATIVE_MINT,
         NEW a, a = EscrowAta(k), NEW b, b = CreatorAta(k), NEW t, t = k.creator,
         NEW d, d = k.amount,
         NEW extra, extra = bank.ata[a].lamports - TokenLamports(a, bank.ata[a].amount),
         NEW R, R = CancelBank(k)
  PROVE  /\ (/\ bank.ata[a].live
             /\ IF e.asset_is_native THEN d <= bank.sol[k] + bank.ata[a].lamports
                ELSE bank.ata[b].live) => R.ok
         /\ R.ok => /\ R.sol[k] = 0
                    /\ e.asset_is_native =>
                         /\ R.sol[t] >= bank.sol[t] + bank.sol[k] + bank.ata[a].lamports
                         /\ \A c \in Atas(Owners) \ {a} : R.ata[c] = bank.ata[c]
                    /\ ~e.asset_is_native =>
                         /\ R.sol[t] = bank.sol[t] + bank.sol[k] + extra
                         /\ R.ata[b].amount = bank.ata[b].amount + bank.ata[a].amount
                    /\ \A z \in EscrowKeys \ {k} : R.sol[z] = bank.sol[z]
<1> DEFINE P == ProcessPayout(bank, k, e.token, e.asset_is_native, d, t, t)
<1>1. /\ k \in Owners /\ t \in Owners /\ k # t /\ d \in Nat
      /\ a \in Atas(Owners) /\ b \in Atas(Owners)
      /\ a = Ata(k, e.token) /\ b = Ata(t, e.token)
      /\ a # b /\ a[2] = b[2] /\ a[2] = e.token
      /\ e.token \in Mints /\ e.asset_is_native \in BOOLEAN
      /\ \A z \in EscrowKeys : z \in Owners /\ z # t
  BY KeyFact, EscrowFact DEF TypeInv, Ata, CreatorAta
<1>2. Sound(bank, Owners) /\ bank.ok
  BY SoundFact
<1>3. P = ProcessPayout(bank, k, e.token, e.asset_is_native, d, t, t) /\ R = CloseAccount(P, k, t)
  BY DEF CancelBank
<1> HIDE DEF P
<1>4. Sound(P, Owners)
  BY <1>1, <1>2, <1>3, ProcessPayoutFact
<1>5. /\ R.ok <=> P.ok
      /\ R.ata = P.ata
      /\ R.ok => /\ R.sol[k] = 0 /\ R.sol[t] = P.sol[t] + P.sol[k]
                 /\ \A z \in Owners \ {k, t} : R.sol[z] = P.sol[z]
  BY ONLY <1>1, <1>3, <1>4, CloseAccountEffect
<1>6. /\ bank.sol[k] \in Nat /\ bank.sol[t] \in Nat /\ bank.ata[a].lamports \in Nat
      /\ bank.ata[a].amount \in Nat
      /\ TokenLamports(a, bank.ata[a].amount) \in Nat
  BY <1>1, <1>2, BankParts DEF TokenLamports
<1>7. CASE e.asset_is_native
  <2>1. P = MoveLamports(CloseAta(bank, a, k), k, t, d)
    BY <1>1, <1>3, <1>7 DEF ProcessPayout
  <2>2. /\ P.ok <=> /\ bank.ok /\ bank.ata[a].live
                    /\ (bank.ata[a].amount = 0 \/ a[2] = NATIVE_MINT)
                    /\ d <= bank.sol[k] + bank.ata[a].lamports
        /\ Extends(bank, P, {a}, Owners)
        /\ P.ok => /\ P.ata[a] = NoAta
                   /\ P.sol[k] = bank.sol[k] + bank.ata[a].lamports - d
                   /\ P.sol[t] = bank.sol[t] + d
                   /\ \A z \in Owners \ {k, t} : P.sol[z] = bank.sol[z]
    BY ONLY <1>1, <1>2, <2>1, NativePayoutEffect
  <2>3. R.ok => R.sol[t] = bank.sol[t] + bank.sol[k] + bank.ata[a].lamports
    <3>1. R.ok => /\ R.sol[t] = P.sol[t] + P.sol[k]
                  /\ P.sol[k] = bank.sol[k] + bank.ata[a].lamports - d
                  /\ P.sol[t] = bank.sol[t] + d
      BY <1>5, <2>2
    <3>2. d \in Nat
      BY <1>1
    <3> QED BY ONLY <1>6, <3>1, <3>2
  <2>4. R.ok => R.sol[t] >= bank.sol[t] + bank.sol[k] + bank.ata[a].lamports
    BY <1>6, <2>3
  <2>5. R.ok => \A c \in Atas(Owners) \ {a} : R.ata[c] = bank.ata[c]
    BY <1>5, <2>2 DEF Extends
  <2>6. R.ok => \A z \in EscrowKeys \ {k} : R.sol[z] = bank.sol[z]
    BY <1>1, <1>5, <2>2
  <2>7. (bank.ata[a].live /\ d <= bank.sol[k] + bank.ata[a].lamports) => R.ok
    BY <1>1, <1>2, <1>5, <1>7, <2>2
  <2> QED BY <1>5, <1>7, <2>4, <2>5, <2>6, <2>7
<1>8. CASE ~e.asset_is_native
  <2>1. P = WithdrawAndCloseTokenAta(bank, a, b, t)
    BY <1>1, <1>3, <1>8 DEF ProcessPayout
  <2>2. /\ (bank.ok /\ bank.ata[a].live /\ bank.ata[b].live) => P.ok
        /\ P.ok => /\ bank.ata[a].live /\ P.ata[a] = NoAta
                   /\ P.ata[b].live = bank.ata[b].live
                   /\ P.ata[b].amount = bank.ata[b].amount + bank.ata[a].amount
                   /\ P.sol[t] = bank.sol[t] + bank.ata[a].lamports
                                   - TokenLamports(a, bank.ata[a].amount)
                   /\ \A z \in Owners \ {t} : P.sol[z] = bank.sol[z]
    <3>1. /\ Sound(bank, Owners) /\ a \in Atas(Owners) /\ b \in Atas(Owners) /\ a # b
          /\ a[2] = b[2] /\ t \in Owners
      BY <1>1, <1>2
    <3> QED BY ONLY <2>1, <3>1, WithdrawAndCloseEffect
  <2>3. R.ok => R.sol[t] = bank.sol[t] + bank.sol[k] + extra
    <3>1. R.ok => /\ R.sol[t] = P.sol[t] + P.sol[k]
                  /\ P.sol[t] = bank.sol[t] + bank.ata[a].lamports
                                  - TokenLamports(a, bank.ata[a].amount)
                  /\ P.sol[k] = bank.sol[k]
      BY <1>1, <1>5, <2>2
    <3>2. extra = bank.ata[a].lamports - TokenLamports(a, bank.ata[a].amount)
      OBVIOUS
    <3> QED BY ONLY <1>6, <3>1, <3>2
  <2>4. R.ok => \A z \in EscrowKeys \ {k} : R.sol[z] = bank.sol[z]
    BY <1>1, <1>5, <2>2
  <2> QED BY <1>2, <1>5, <1>8, <2>2, <2>3, <2>4
<1> QED BY <1>1, <1>7, <1>8

-----------------------------------------------------------------------------
\* What a step does to the lamports of the escrow accounts.

\* "create" puts the rent into its account and takes from no other.
LEMMA CreateEffect ==
  ASSUME TypeInv, NEW k \in EscrowKeys, NEW offer \in Offers, Create(k, offer)
  PROVE  /\ bank'.sol[k] >= RENT_ESCROW
         /\ \A z \in EscrowKeys \ {k} : bank'.sol[z] = bank.sol[z]
         /\ Tidy(bank, bank', Owners)
<1> DEFINE u == k.creator
           a == Ata(k, offer.token)
           b == Ata(k.creator, offer.token)
           n == k.amount
           I == InitAccount(bank, u, k, RENT_ESCROW)
           A == InitIfNeededAta(I, u, a)
           D == DepositEscrow(A, k, offer)
<1>1. D.ok /\ bank' = D
  BY DEF Create, CreateAccounts, Commit
<1>2. /\ u \in Owners /\ k \in Owners /\ u # k /\ RENT_ESCROW \in Nat /\ n \in Nat
      /\ a \in Atas(Owners) /\ b \in Atas(Owners) /\ a # b
      /\ \A z \in EscrowKeys : z \in Owners /\ z # u
  BY KeyFact, OfferFact, EscrowDstAssumption DEF Ata, Atas
<1>3. /\ Sound(bank, Owners) /\ bank.sol[k] \in Nat
  BY <1>2, SoundFact, BankParts
<1>4. /\ I = MoveLamports(bank, u, k, RENT_ESCROW)
      /\ A = InitIfNeededAta(I, u, a)
      /\ D = IF offer.asset_is_native THEN UniTransferToAta(A, u, a, n)
             ELSE UniTransferToken(A, b, a, n)
  BY DEF InitAccount, DepositEscrow
<1> HIDE DEF u, a, b, n, I, A, D
<1>5. Sound(I, Owners)
  BY <1>2, <1>3, <1>4, MoveLamportsFact
<1>6. /\ I.ok <=> bank.ok /\ RENT_ESCROW <= bank.sol[u]
      /\ I.ata = bank.ata
      /\ (I.ok /\ u # k) => I.sol[u] = bank.sol[u] - RENT_ESCROW /\ I.sol[k] = bank.sol[k] + RENT_ESCROW
      /\ (I.ok /\ u = k) => I.sol[u] = bank.sol[u]
      /\ I.ok => \A z \in Owners \ {u, k} : I.sol[z] = bank.sol[z]
  BY <1>2, <1>3, <1>4, MoveLamportsEffect
<1>7. Sound(A, Owners) /\ Extends(I, A, {a}, Owners)
  BY <1>2, <1>4, <1>5, InitIfNeededAtaFact
<1>8. A.ok => \A z \in Owners \ {u} : A.sol[z] = I.sol[z]
  BY <1>2, <1>4, <1>5, InitIfNeededAtaEffect
<1>9. Tidy(I, A, Owners)
  BY <1>2, <1>4, <1>5, TidyOpen
<1>10. CASE offer.asset_is_native
  <2>1. D = UniTransferToAta(A, u, a, n)
    BY <1>4, <1>10
  <2>2. D.ok => \A z \in Owners \ {u} : D.sol[z] = A.sol[z]
    BY <1>2, <1>7, <2>1, UniTransferToAtaEffect
  <2>3. Extends(A, D, {a}, Owners)
    BY <1>2, <1>7, <2>1, UniTransferToAtaFact
  <2>4. Tidy(A, D, Owners)
    BY <1>2, <1>7, <2>1, TidyFund
  <2> QED BY <1>1, <1>2, <1>3, <1>6, <1>7, <1>8, <1>9, <2>2, <2>3, <2>4 DEF Extends, Tidy
<1>11. CASE ~offer.asset_is_native
  <2>1. D = UniTransferToken(A, b, a, n)
    BY <1>4, <1>11
  <2>2. D.sol = A.sol
    BY <1>2, <1>7, <2>1, UniTransferTokenEffect
  <2>3. Extends(A, D, {b, a}, Owners)
    BY <1>2, <1>7, <2>1, UniTransferTokenFact
  <2>4. Tidy(A, D, Owners)
    BY <1>2, <1>7, <2>1, TidyTransfer
  <2> QED BY <1>1, <1>2, <1>3, <1>6, <1>7, <1>8, <1>9, <2>2, <2>3, <2>4 DEF Extends, Tidy
<1> QED BY <1>10, <1>11

\* A step that writes no escrow account and takes no lamports from one.
Quiet ==
  /\ escrow' = escrow /\ now' >= now /\ revealed \subseteq revealed'
  /\ \A z \in EscrowKeys : bank'.sol[z] = bank.sol[z]
  /\ Tidy(bank, bank', Owners)

\* Such a step of the bank only.
LEMMA BankQuiet ==
  ASSUME TypeInv, BankOnly, NEW L, Commit(L), Tidy(bank, L, Owners),
         L.ok => \A z \in EscrowKeys : L.sol[z] = bank.sol[z]
  PROVE  Quiet
<1>1. now \in Nat
  BY SoundFact
<1> QED BY <1>1 DEF BankOnly, Commit, Quiet

\* The transfers of others are quiet.
LEMMA OutsideQuiet ==
  ASSUME TypeInv, NEW u \in Outsiders, NEW a \in EscrowKeys \X Mints, OutsideStep(u, a)
  PROVE  Quiet
<1> DEFINE b == Ata(u, a[2])
<1>1. /\ u \in Owners /\ a \in Atas(Owners) /\ b \in Atas(Owners) /\ a # b
      /\ \A z \in EscrowKeys : z \in Owners \ {u}
  BY KeyFact, EscrowDstAssumption DEF Atas, Ata
<1>2. Sound(bank, Owners)
  BY SoundFact
<1> HIDE DEF b
<1>3. CASE OutsideOpen(u, a)
  <2> DEFINE M == OpenAta(bank, u, a)
  <2>1. Commit(M) /\ BankOnly /\ M = OpenAta(bank, u, a)
    BY <1>3 DEF OutsideOpen
  <2> HIDE DEF M
  <2>2. Tidy(bank, M, Owners)
    BY <1>1, <1>2, <2>1, TidyOpen
  <2>3. M.ok => \A z \in EscrowKeys : M.sol[z] = bank.sol[z]
    BY <1>1, <1>2, <2>1, OpenAtaEffect
  <2> QED BY <2>1, <2>2, <2>3, BankQuiet
<1>4. CASE \E n \in 1..bank.ata[b].amount : OutsideDeposit(u, a, n)
  <2>1. PICK n \in 1..bank.ata[b].amount : OutsideDeposit(u, a, n)
    BY <1>4
  <2> DEFINE M == TransferTokens(bank, b, a, n)
  <2>2. Commit(M) /\ BankOnly /\ M = TransferTokens(bank, b, a, n) /\ n \in Nat
    BY <2>1 DEF OutsideDeposit, b
  <2> HIDE DEF M
  <2>3. Tidy(bank, M, Owners)
    BY <1>1, <1>2, <2>2, TidyTransfer
  <2>4. M.sol = bank.sol
    <3>1. /\ Sound(bank, Owners) /\ a \in Atas(Owners) /\ b \in Atas(Owners)
          /\ b # a /\ n \in Nat
      BY <1>1, <1>2, <2>2
    <3>2. M = TransferTokens(bank, b, a, n)
      BY <2>2
    <3>3. /\ M.ok <=> bank.ok /\ bank.ata[b].live /\ bank.ata[a].live /\ n <= bank.ata[b].amount
          /\ M.sol = bank.sol
          /\ M.ok => /\ M.ata[b] = [live |-> TRUE, amount |-> bank.ata[b].amount - n,
                                    lamports |-> bank.ata[b].lamports - TokenLamports(b, n)]
                     /\ M.ata[a] = [live |-> TRUE, amount |-> bank.ata[a].amount + n,
                                    lamports |-> bank.ata[a].lamports + TokenLamports(a, n)]
      BY ONLY <3>1, <3>2, TransferTokensEffect
    <3> QED BY <3>3
  <2> QED BY <2>2, <2>3, <2>4, BankQuiet
<1>5. CASE \E n \in 1..bank.sol[u] : OutsideLamports(u, a, n)
  <2>1. PICK n \in 1..bank.sol[u] : OutsideLamports(u, a, n)
    BY <1>5
  <2> DEFINE M == FundAta(bank, u, a, n)
  <2>2. Commit(M) /\ BankOnly /\ M = FundAta(bank, u, a, n) /\ n \in Nat
    BY <2>1 DEF OutsideLamports
  <2> HIDE DEF M
  <2>3. Tidy(bank, M, Owners)
    BY <1>1, <1>2, <2>2, TidyFund
  <2>4. M.ok => \A z \in EscrowKeys : M.sol[z] = bank.sol[z]
    BY <1>1, <1>2, <2>2, FundAtaEffect
  <2> QED BY <2>2, <2>3, <2>4, BankQuiet
<1>6. CASE OutsideSync(a)
  <2> DEFINE M == SyncNative(bank, a)
  <2>1. Commit(M) /\ BankOnly /\ M = SyncNative(bank, a) /\ 0 \in Nat
    BY <1>6 DEF OutsideSync
  <2> HIDE DEF M
  <2>2. Tidy(bank, M, Owners)
    BY <1>1, <1>2, <2>1, TidyFund
  <2>3. M.sol = bank.sol
    BY <1>1, <1>2, <2>1, SyncNativeEffect
  <2> QED BY <2>1, <2>2, <2>3, BankQuiet
<1> QED BY <1>3, <1>4, <1>5, <1>6 DEF OutsideStep, b

\* So is what users do with token accounts of users,
LEMMA UserAtaQuiet ==
  ASSUME TypeInv
  PROVE  /\ \A u \in Outsiders : \A a \in Users \X Mints : OutsideOpen(u, a) => Quiet
         /\ \A a \in Closers \X Mints : CloseOwnAta(a) => Quiet
<1>1. Sound(bank, Owners)
  BY SoundFact
<1>2. ASSUME NEW u \in Outsiders, NEW a \in Users \X Mints, OutsideOpen(u, a) PROVE Quiet
  <2> DEFINE M == OpenAta(bank, u, a)
  <2>1. Commit(M) /\ BankOnly /\ M = OpenAta(bank, u, a)
    BY <1>2 DEF OutsideOpen
  <2> HIDE DEF M
  <2>2. /\ u \in Owners /\ a \in Atas(Owners)
        /\ \A z \in EscrowKeys : z \in Owners \ {u}
    BY KeyFact, EscrowDstAssumption DEF Atas
  <2>3. Tidy(bank, M, Owners)
    BY <1>1, <2>1, <2>2, TidyOpen
  <2>4. M.ok => \A z \in EscrowKeys : M.sol[z] = bank.sol[z]
    BY <1>1, <2>1, <2>2, OpenAtaEffect
  <2> QED BY <2>1, <2>3, <2>4, BankQuiet
<1>3. ASSUME NEW a \in Closers \X Mints, CloseOwnAta(a) PROVE Quiet
  <2> DEFINE M == CloseAta(bank, a, a[1])
  <2>1. Commit(M) /\ BankOnly /\ M = CloseAta(bank, a, a[1])
    BY <1>3 DEF CloseOwnAta
  <2> HIDE DEF M
  <2>2. /\ a[1] \in Owners /\ a \in Atas(Owners)
        /\ \A z \in EscrowKeys : z \in Owners \ {a[1]}
    BY KeyFact, EscrowDstAssumption DEF Atas
  <2>3. Tidy(bank, M, Owners)
    BY <1>1, <2>1, <2>2, TidyClose
  <2>4. M.ok => \A z \in EscrowKeys : M.sol[z] = bank.sol[z]
    BY <1>1, <2>1, <2>2, CloseAtaEffect
  <2> QED BY <2>1, <2>3, <2>4, BankQuiet
<1> QED BY <1>2, <1>3

\* and a rescue.
LEMMA RescueQuiet ==
  ASSUME TypeInv, NEW k \in EscrowKeys, NEW m \in Mints,
         NEW n \in 0..bank.ata[Ata(k, m)].amount, RescueFundsForEscrow(k, m, n)
  PROVE  Quiet
<1> DEFINE u == k.creator
           M == RescueFunds(bank, k, u, m, n)
<1>1. Commit(M) /\ BankOnly /\ M = RescueFunds(bank, k, u, m, n)
  BY DEF RescueFundsForEscrow, BankOnly
<1>2. /\ k \in Owners /\ u \in Owners /\ k # u /\ n \in Nat
      /\ \A z \in EscrowKeys : z \in Owners \ {u}
  BY KeyFact
<1> HIDE DEF u, M
<1>3. Tidy(bank, M, Owners)
  BY <1>1, <1>2, SoundFact, TidyRescue
<1>4. M.ok => \A z \in EscrowKeys : M.sol[z] = bank.sol[z]
  BY <1>1, <1>2, SoundFact, RescueFundsEffect
<1> QED BY <1>1, <1>3, <1>4, BankQuiet

\* A withdrawal that the program accepts.
Withdrawn(k, s, u, with_ata) ==
  /\ WithdrawBy(k, s, u, with_ata)
  /\ Before(escrow[k].timelocks, "DstCancellation", now)
  /\ u = k.creator \/ u \in resolver_access

\* Every step makes an escrow, ends one, or is quiet.
LEMMA Steps ==
  ASSUME TypeInv, [Next]_vars
  PROVE  \/ \E k \in EscrowKeys : \E offer \in Offers : Create(k, offer)
         \/ \E k \in EscrowKeys : \E s \in Secrets : \E u \in Users : \E with_ata \in BOOLEAN :
              Withdrawn(k, s, u, with_ata)
         \/ \E k \in EscrowKeys : Cancel(k)
         \/ Quiet
<1>1. now \in Nat
  BY SoundFact
<1>2. Tidy(bank, bank, Owners)
  BY DEF Tidy
<1>3. CASE \/ Tick
           \/ \E s \in Secrets : RevealSecret(s)
           \/ \E u \in Resolvers : Register(u) \/ Deregister(u)
           \/ UNCHANGED vars
  BY <1>1, <1>2, <1>3 DEF Tick, RevealSecret, Register, Deregister, vars, Quiet
<1>4. ASSUME NEW k \in EscrowKeys, NEW s \in Secrets, NEW with_ata \in BOOLEAN,
             Withdraw(k, s, with_ata)
      PROVE  Withdrawn(k, s, k.creator, with_ata) /\ k.creator \in Users
  BY <1>4, KeyFact DEF Withdraw, WithdrawOpen, Withdrawn
<1>5. ASSUME NEW k \in EscrowKeys, NEW s \in Secrets, NEW u \in Users, NEW with_ata \in BOOLEAN,
             PublicWithdraw(k, s, u, with_ata)
      PROVE  Withdrawn(k, s, u, with_ata)
  BY <1>5 DEF PublicWithdraw, WithdrawOpen, Withdrawn
<1>6. ASSUME NEW k \in EscrowKeys, EscrowStep(k)
      PROVE  \/ \E offer \in Offers : Create(k, offer)
             \/ \E s \in Secrets : \E u \in Users : \E with_ata \in BOOLEAN :
                  Withdrawn(k, s, u, with_ata)
             \/ Cancel(k)
             \/ Quiet
  BY <1>4, <1>5, <1>6, RescueQuiet DEF EscrowStep
<1> QED BY <1>3, <1>6, OutsideQuiet, UserAtaQuiet DEF Next

-----------------------------------------------------------------------------
\* The reserves.

\* What the program has checked of a live escrow, and the rent that its account
\* still has for the safety deposit.
Reserved(k) ==
  escrow[k].live =>
    /\ bank.sol[k] >= RENT_ESCROW
    /\ escrow[k].safety_deposit <= RENT_ESCROW
    /\ escrow[k].asset_is_native => escrow[k].token = NATIVE_MINT

Reserves == \A k \in EscrowKeys : Reserved(k)

\* A closed token account has nothing.
Vacant == \A a \in Atas(Owners) : ~bank.ata[a].live => bank.ata[a] = NoAta

\* A step that leaves an account and its lamports alone, or ends it.
LEMMA ReservedKept ==
  ASSUME NEW k \in EscrowKeys, Reserved(k),
         ~escrow'[k].live \/ (escrow'[k] = escrow[k] /\ bank'.sol[k] = bank.sol[k])
  PROVE  Reserved(k)'
BY DEF Reserved

\* The lamports that the end of an escrow pays are its own.
LEMMA EndSol ==
  ASSUME TypeInv, Reserves, NEW k \in EscrowKeys,
         \/ \E s : \E u \in Users, with_ata \in BOOLEAN : WithdrawBy(k, s, u, with_ata)
         \/ Cancel(k)
  PROVE  /\ CloseEscrow(k) /\ escrow[k].live
         /\ \A z \in EscrowKeys \ {k} : bank'.sol[z] = bank.sol[z]
         /\ Tidy(bank, bank', Owners)
<1>1. escrow[k].asset_is_native \in BOOLEAN
  BY EscrowFact DEF TypeInv
<1>2. CASE Cancel(k)
  <2> DEFINE R == CancelBank(k)
  <2>1. R.ok /\ bank' = R /\ CloseEscrow(k) /\ escrow[k].live /\ R = CancelBank(k)
    BY <1>2 DEF Cancel, Commit
  <2>2. escrow[k].asset_is_native => escrow[k].token = NATIVE_MINT
    BY <2>1 DEF Reserves, Reserved
  <2> HIDE DEF R
  <2>3. R.ok => \A z \in EscrowKeys \ {k} : R.sol[z] = bank.sol[z]
    BY <2>1, <2>2, CancelBankEffect
  <2> QED BY <1>2, <2>1, <2>3, CancelTouches
<1>3. ASSUME NEW s, NEW u \in Users, NEW with_ata \in BOOLEAN, WithdrawBy(k, s, u, with_ata)
      PROVE  /\ CloseEscrow(k) /\ escrow[k].live
             /\ \A z \in EscrowKeys \ {k} : bank'.sol[z] = bank.sol[z]
             /\ Tidy(bank, bank', Owners)
  <2> DEFINE R == WithdrawBank(k, u, with_ata)
  <2>1. /\ R.ok /\ bank' = R /\ CloseEscrow(k) /\ escrow[k].live
        /\ R = WithdrawBank(k, u, with_ata)
    BY <1>3 DEF WithdrawBy, Commit
  <2>2. escrow[k].asset_is_native => escrow[k].token = NATIVE_MINT
    BY <2>1 DEF Reserves, Reserved
  <2> HIDE DEF R
  <2>3. R.ok => \A z \in EscrowKeys \ {k} : R.sol[z] = bank.sol[z]
    BY <1>1, <2>1, <2>2, WithdrawNativeEffect, WithdrawTokensEffect
  <2> QED BY <1>3, <2>1, <2>3, WithdrawTouches
<1> QED BY <1>2, <1>3

\* Every step keeps the reserves, and closed token accounts empty.
LEMMA NextReserves ==
  ASSUME TypeInv, Reserves, Vacant, [Next]_vars
  PROVE  Reserves' /\ Vacant'
<1>1. ASSUME Tidy(bank, bank', Owners) PROVE Vacant'
  BY <1>1 DEF Tidy, Vacant
<1>2. ASSUME NEW k \in EscrowKeys, CloseEscrow(k), Tidy(bank, bank', Owners),
             \A z \in EscrowKeys \ {k} : bank'.sol[z] = bank.sol[z]
      PROVE  Reserves' /\ Vacant'
  <2>1. /\ ~escrow'[k].live
        /\ \A z \in EscrowKeys \ {k} : escrow'[z] = escrow[z]
    BY <1>2 DEF CloseEscrow, NoEscrow, TypeInv, TypeOK
  <2>2. \A z \in EscrowKeys : Reserved(z)'
    BY <1>2, <2>1, ReservedKept DEF Reserves
  <2> QED BY <1>1, <1>2, <2>2 DEF Reserves
<1>3. ASSUME NEW k \in EscrowKeys, NEW s, NEW u \in Users, NEW with_ata \in BOOLEAN,
             WithdrawBy(k, s, u, with_ata)
      PROVE  Reserves' /\ Vacant'
  BY <1>2, <1>3, EndSol
<1>4. ASSUME NEW k \in EscrowKeys, Cancel(k) PROVE Reserves' /\ Vacant'
  BY <1>2, <1>4, EndSol
<1>5. ASSUME NEW k \in EscrowKeys, NEW offer \in Offers, Create(k, offer)
      PROVE  Reserves' /\ Vacant'
  <2>1. /\ bank'.sol[k] >= RENT_ESCROW
        /\ \A z \in EscrowKeys \ {k} : bank'.sol[z] = bank.sol[z]
        /\ Tidy(bank, bank', Owners)
    BY <1>5, CreateEffect
  <2>2. /\ escrow'[k].safety_deposit = offer.safety_deposit
        /\ escrow'[k].asset_is_native = offer.asset_is_native
        /\ escrow'[k].token = offer.token
        /\ \A z \in EscrowKeys \ {k} : escrow'[z] = escrow[z]
        /\ CreateAllowed(k, offer)
    BY <1>5 DEF Create, TypeInv, TypeOK
  <2>3. Reserved(k)'
    BY <2>1, <2>2 DEF Reserved, CreateAllowed
  <2>4. \A z \in EscrowKeys \ {k} : Reserved(z)'
    BY <2>1, <2>2, ReservedKept DEF Reserves
  <2> QED BY <1>1, <2>1, <2>3, <2>4 DEF Reserves
<1>6. CASE Quiet
  <2>1. \A z \in EscrowKeys : Reserved(z)'
    BY <1>6, ReservedKept DEF Quiet, Reserves
  <2> QED BY <1>1, <1>6, <2>1 DEF Quiet, Reserves
<1> QED BY <1>3, <1>4, <1>5, <1>6, Steps DEF Withdrawn

\* The invariant that the theorems below rest on: the account of a live escrow has
\* its rent, the safety deposit is no more than that, a native asset is wrapped SOL
\* (create), and what closes a token account empties it (close_account).
THEOREM ReservesInvariant == Spec => [](Inv /\ Reserves /\ Vacant)
<1>1. Init => Inv /\ Reserves /\ Vacant
  <2>1. Init => \A k \in EscrowKeys : ~escrow[k].live
    BY DEF Init, NoEscrow
  <2>2. ASSUME Init PROVE Vacant
    <3>1. \A a \in Owners \X Mints :
            bank.ata[a] = IF a \in InitAtas
                          THEN [live     |-> TRUE,
                                amount   |-> InitTokens[a],
                                lamports |-> RENT_ATA + TokenLamports(a, InitTokens[a])]
                          ELSE NoAta
      BY <2>2 DEF Init
    <3>2. ASSUME NEW a \in Owners \X Mints, ~bank.ata[a].live PROVE bank.ata[a] = NoAta
      <4>1. CASE a \in InitAtas
        <5>1. bank.ata[a] = [live     |-> TRUE,
                             amount   |-> InitTokens[a],
                             lamports |-> RENT_ATA + TokenLamports(a, InitTokens[a])]
          BY <3>1, <4>1
        <5>2. bank.ata[a].live
          BY <5>1
        <5> QED BY <3>2, <5>2
      <4>2. CASE a \notin InitAtas
        BY <3>1, <4>2
      <4> QED BY <4>1, <4>2
    <3> QED BY <3>2 DEF Vacant, Atas
  <2> QED BY <2>1, <2>2, InitTypes DEF Inv, EscrowFunded, Reserves, Reserved
<1>2. (Inv /\ Reserves /\ Vacant) /\ [Next]_vars => (Inv /\ Reserves /\ Vacant)'
  BY NextTypes, NextFunded, NextReserves DEF Inv
<1> QED BY <1>1, <1>2, PTL DEF Spec

\* What there is behind a live escrow that cannot be rescued yet.
LEMMA EscrowHolds ==
  ASSUME Inv, Reserves, NEW k \in EscrowKeys, escrow[k].live, ~EscrowRescuable(k),
         NEW e, e = escrow[k], NEW a, a = EscrowAta(k)
  PROVE  /\ bank.ata[a].live
         /\ bank.ata[a].amount \in Nat /\ bank.ata[a].lamports \in Nat
         /\ TokenLamports(a, bank.ata[a].amount) \in Nat
         /\ bank.ata[a].lamports >= RENT_ATA + TokenLamports(a, bank.ata[a].amount)
         /\ k.amount \in Nat /\ bank.sol[k] \in Nat /\ bank.sol[k] >= RENT_ESCROW
         /\ e.safety_deposit \in Nat /\ e.safety_deposit <= RENT_ESCROW
         /\ e.asset_is_native =>
              e.token = NATIVE_MINT /\ bank.ata[a].lamports >= RENT_ATA + k.amount
         /\ ~e.asset_is_native => bank.ata[a].amount >= k.amount
<1>1. /\ a \in Atas(Owners) /\ e.safety_deposit \in Nat /\ k.amount \in Nat /\ k \in Owners
  BY EscrowFact, KeyFact DEF Inv, TypeInv
<1>2. Sound(bank, Owners)
  BY SoundFact DEF Inv
<1>3. /\ bank.sol[k] \in Nat /\ bank.ata[a].amount \in Nat /\ bank.ata[a].lamports \in Nat
      /\ bank.ata[a].live => bank.ata[a].lamports >= RENT_ATA + TokenLamports(a, bank.ata[a].amount)
  BY <1>1, <1>2, BankParts
<1>4. TokenLamports(a, bank.ata[a].amount) \in Nat
  BY <1>3 DEF TokenLamports
<1>5. Holds(bank, a, e.asset_is_native, k.amount)
  BY FundedFact DEF Inv, FundedAt
<1>6. Reserved(k)
  BY DEF Reserves
<1> QED BY <1>1, <1>3, <1>4, <1>5, <1>6 DEF Holds, Reserved

\* A cancellation succeeds if the creator can be paid,
LEMMA CancelSucceeds ==
  ASSUME Inv, Reserves, NEW k \in EscrowKeys, escrow[k].live, ~EscrowRescuable(k),
         escrow[k].asset_is_native \/ bank.ata[CreatorAta(k)].live
  PROVE  CancelBank(k).ok
<1> DEFINE a == EscrowAta(k)
           b == CreatorAta(k)
           R == CancelBank(k)
<1>1. a = EscrowAta(k) /\ b = CreatorAta(k) /\ R = CancelBank(k)
  OBVIOUS
<1>2. /\ bank.ata[a].live
      /\ bank.ata[a].lamports \in Nat /\ k.amount \in Nat /\ bank.sol[k] \in Nat
      /\ escrow[k].asset_is_native =>
           escrow[k].token = NATIVE_MINT /\ bank.ata[a].lamports >= RENT_ATA + k.amount
  BY EscrowHolds
<1>3. escrow[k].asset_is_native \/ bank.ata[b].live
  OBVIOUS
<1> HIDE DEF a, b, R
<1>4. IF escrow[k].asset_is_native THEN k.amount <= bank.sol[k] + bank.ata[a].lamports
      ELSE bank.ata[b].live
  BY <1>2, <1>3, LedgerAssumption
<1>5. R.ok
  BY <1>1, <1>2, <1>4, CancelBankEffect DEF Inv
<1> QED BY <1>1, <1>5

\* and a withdrawal if there is an account, or for lamports only a wallet, to pay to.
LEMMA WithdrawSucceeds ==
  ASSUME Inv, Reserves, NEW k \in EscrowKeys, escrow[k].live, ~EscrowRescuable(k),
         NEW u \in Users, NEW with_ata \in BOOLEAN,
         with_ata \/ escrow[k].asset_is_native,
         with_ata => bank.ata[RecipientAta(k)].live \/ bank.sol[u] >= RENT_ATA
  PROVE  WithdrawBank(k, u, with_ata).ok
<1> DEFINE a == EscrowAta(k)
           b == RecipientAta(k)
           n == escrow[k].safety_deposit
           cost == IF with_ata /\ ~bank.ata[b].live THEN RENT_ATA ELSE 0
           L == RecipientAccounts(k, u, with_ata)
           R == WithdrawBank(k, u, with_ata)
           rest == bank.sol[k] + bank.ata[a].lamports - k.amount
<1>1. /\ a = EscrowAta(k) /\ b = RecipientAta(k) /\ n = escrow[k].safety_deposit
      /\ cost = IF with_ata /\ ~bank.ata[b].live THEN RENT_ATA ELSE 0
      /\ L = RecipientAccounts(k, u, with_ata) /\ R = WithdrawBank(k, u, with_ata)
      /\ rest = bank.sol[k] + bank.ata[a].lamports - k.amount
  OBVIOUS
<1>2. /\ bank.ata[a].live
      /\ bank.ata[a].lamports \in Nat /\ k.amount \in Nat /\ bank.sol[k] \in Nat
      /\ n \in Nat /\ n <= RENT_ESCROW /\ bank.sol[k] >= RENT_ESCROW
      /\ escrow[k].asset_is_native =>
           escrow[k].token = NATIVE_MINT /\ bank.ata[a].lamports >= RENT_ATA + k.amount
  BY EscrowHolds
<1>3. with_ata => bank.ata[b].live \/ bank.sol[u] >= RENT_ATA
  OBVIOUS
<1> HIDE DEF a, b, n, cost, L, R, rest
<1>4. bank.sol[u] \in Nat /\ RENT_ATA \in Nat /\ RENT_ESCROW \in Nat
  BY KeyFact, SoundFact, BankParts, LedgerAssumption, EscrowDstAssumption DEF Inv
<1>5. cost <= bank.sol[u]
  BY <1>1, <1>3, <1>4
<1>6. L.ok /\ (with_ata => L.ata[b].live)
  <2>1. TypeInv /\ b = RecipientAta(k) /\ L = RecipientAccounts(k, u, with_ata)
        /\ cost = IF with_ata /\ ~bank.ata[b].live THEN RENT_ATA ELSE 0
    BY <1>1 DEF Inv
  <2>2. /\ L.ok <=> cost <= bank.sol[u]
        /\ L.ok => /\ L.sol[u] = bank.sol[u] - cost
                   /\ \A z \in Owners \ {u} : L.sol[z] = bank.sol[z]
                   /\ with_ata => L.ata[b].live
                   /\ bank.ata[b].live => L.ata[b] = bank.ata[b]
                   /\ (with_ata /\ ~bank.ata[b].live) => L.ata[b].amount = 0
        /\ ~with_ata => L = bank
    BY ONLY <2>1, k \in EscrowKeys, u \in Users, with_ata \in BOOLEAN,
            RecipientAccountsEffect
  <2>3. L.ok
    BY ONLY <1>5, <2>2
  <2> QED BY ONLY <2>2, <2>3
<1>7. n <= bank.sol[k] /\ (escrow[k].asset_is_native => rest >= n)
  BY <1>1, <1>2, <1>4
<1>8. CASE escrow[k].asset_is_native
  <2>1. R.ok
    BY <1>1, <1>2, <1>6, <1>7, <1>8, WithdrawNativeEffect DEF Inv
  <2> QED BY <1>1, <2>1
<1>9. CASE ~escrow[k].asset_is_native
  <2> DEFINE tokens == bank.sol[k] + (bank.ata[a].lamports - TokenLamports(a, bank.ata[a].amount))
  <2>1. R.ok
    BY <1>1, <1>2, <1>6, <1>7, <1>9, WithdrawTokensEffect DEF Inv
  <2> QED BY <1>1, <2>1
<1> QED BY <1>8, <1>9

\* Until its rescue start, nothing but its party's own token account can stop the
\* end of an escrow: whatever is sent to the escrow's accounts or synced there, the
\* calls of cancel, withdraw and public_withdraw succeed.
THEOREM NeverStuckInvariant == Spec => []NeverStuck
<1>1. Inv /\ Reserves => NeverStuck
  BY CancelSucceeds, WithdrawSucceeds DEF NeverStuck
<1> QED BY <1>1, ReservesInvariant, PTL

-----------------------------------------------------------------------------
\* The safety deposit.

\* DepositToResolver for one escrow.
DepositPaid(k, u) ==
  LET deposit == escrow[k].safety_deposit
      cost == OpeningCost(RecipientAta(k))
  IN  IF u = k.creator THEN SolGain(u) >= RENT_ESCROW + RENT_ATA - cost
      ELSE /\ SolGain(u) >= deposit - cost
           /\ SolGain(k.creator) >= RENT_ESCROW + RENT_ATA - deposit

\* What is left after a withdrawal covers both reserves, and is shared as it says.
LEMMA WithdrawnDeposit ==
  ASSUME Inv, Reserves, TypeInv', NEW k \in EscrowKeys, escrow[k].live, ~EscrowRescuable(k),
         NEW s \in Secrets, NEW u \in Users, NEW with_ata \in BOOLEAN,
         Withdrawn(k, s, u, with_ata)
  PROVE  DepositPaid(k, u)
<1> DEFINE a == EscrowAta(k)
           b == RecipientAta(k)
           t == k.creator
           n == escrow[k].safety_deposit
           cost == IF with_ata /\ ~bank.ata[b].live THEN RENT_ATA ELSE 0
           L == RecipientAccounts(k, u, with_ata)
           R == WithdrawBank(k, u, with_ata)
           native == bank.sol[k] + bank.ata[a].lamports - k.amount
           tokens == bank.sol[k] + (bank.ata[a].lamports - TokenLamports(a, bank.ata[a].amount))
<1>1. /\ a = EscrowAta(k) /\ b = RecipientAta(k) /\ n = escrow[k].safety_deposit
      /\ t = k.creator
      /\ cost = IF with_ata /\ ~bank.ata[b].live THEN RENT_ATA ELSE 0
      /\ L = RecipientAccounts(k, u, with_ata) /\ R = WithdrawBank(k, u, with_ata)
      /\ native = bank.sol[k] + bank.ata[a].lamports - k.amount
      /\ tokens = bank.sol[k] + (bank.ata[a].lamports - TokenLamports(a, bank.ata[a].amount))
  OBVIOUS
<1>2. bank' = R /\ R.ok /\ (u = t \/ u \in resolver_access)
  BY DEF Withdrawn, WithdrawBy, Commit
<1> HIDE DEF a, b, t, n, cost, L, R, native, tokens
<1>3. /\ bank.ata[a].lamports \in Nat /\ k.amount \in Nat /\ bank.sol[k] \in Nat
      /\ TokenLamports(a, bank.ata[a].amount) \in Nat
      /\ bank.ata[a].lamports >= RENT_ATA + TokenLamports(a, bank.ata[a].amount)
      /\ n \in Nat /\ n <= RENT_ESCROW /\ bank.sol[k] >= RENT_ESCROW
      /\ escrow[k].asset_is_native =>
           escrow[k].token = NATIVE_MINT /\ bank.ata[a].lamports >= RENT_ATA + k.amount
  BY <1>1, EscrowHolds
<1>4. /\ t \in Owners /\ u \in Owners /\ b \in Atas(Owners) /\ a # b
      /\ RENT_ESCROW \in Nat /\ RENT_ATA \in Nat
  BY <1>1, KeyFact, EscrowFact, EscrowDstAssumption, LedgerAssumption DEF Inv, TypeInv
<1>5. /\ bank.sol[t] \in Nat /\ bank.sol[u] \in Nat
      /\ bank'.sol[t] \in Nat /\ bank'.sol[u] \in Nat
  BY <1>4 DEF Inv, TypeInv, TypeOK, Bank
<1>6. L.ok => /\ L.sol[u] = bank.sol[u] - cost
              /\ \A z \in Owners \ {u} : L.sol[z] = bank.sol[z]
              /\ with_ata => L.ata[b].live
  BY <1>1, RecipientAccountsEffect DEF Inv
<1> DEFINE rest == IF escrow[k].asset_is_native THEN native ELSE tokens
<1>7. /\ L.ok
      /\ u = t => R.sol[t] >= L.sol[t] + rest
      /\ u # t => R.sol[u] >= L.sol[u] + n /\ R.sol[t] >= L.sol[t] + rest - n
      /\ R.ata[b].live = L.ata[b].live
  <2>1. CASE escrow[k].asset_is_native
    <3>1. /\ L.ok
          /\ u = t => R.sol[t] >= L.sol[t] + native
          /\ u # t => R.sol[u] >= L.sol[u] + n /\ R.sol[t] >= L.sol[t] + native - n
          /\ \A c \in Atas(Owners) \ {a} : R.ata[c] = L.ata[c]
      BY <1>1, <1>2, <1>3, <2>1, WithdrawNativeEffect DEF Inv
    <3> QED BY <1>4, <2>1, <3>1
  <2>2. CASE ~escrow[k].asset_is_native
    <3>1. /\ L.ok
          /\ u = t => R.sol[t] = L.sol[t] + tokens
          /\ u # t => R.sol[u] = L.sol[u] + n /\ R.sol[t] = L.sol[t] + tokens - n
          /\ R.ata[b].live = L.ata[b].live
      BY <1>1, <1>2, <2>2, WithdrawTokensEffect DEF Inv
    <3>2. tokens \in Int
      BY <1>1, <1>3
    <3>3. cost \in Nat
      BY <1>1, <1>4
    <3>4. L.sol[t] \in Int /\ L.sol[u] \in Int
      BY <1>4, <1>5, <1>6, <3>1, <3>3
    <3> QED BY <1>3, <2>2, <3>1, <3>2, <3>4
  <2> QED BY <2>1, <2>2
<1>8. rest \in Int /\ rest >= RENT_ESCROW + RENT_ATA
  BY <1>1, <1>3, <1>4
<1> HIDE DEF rest
<1>9. cost = OpeningCost(b)
  <2>1. bank'.ata[b].live = L.ata[b].live
    BY <1>2, <1>7
  <2>2. CASE with_ata
    BY <1>1, <1>6, <1>7, <2>1, <2>2 DEF OpeningCost
  <2>3. CASE ~with_ata
    <3>1. L = bank
      BY <1>1, <2>3 DEF RecipientAccounts
    <3> QED BY <1>1, <2>1, <2>3, <3>1 DEF OpeningCost
  <2> QED BY <2>2, <2>3
<1>10. cost \in Nat
  BY <1>1, <1>4
<1>11. CASE u = t
  <2>1. SolGain(t) >= RENT_ESCROW + RENT_ATA - cost
    BY <1>2, <1>4, <1>5, <1>6, <1>7, <1>8, <1>10, <1>11 DEF SolGain
  <2> QED BY <1>1, <1>9, <1>11, <2>1 DEF DepositPaid
<1>12. CASE u # t
  <2>1. SolGain(u) >= n - cost
    BY <1>2, <1>3, <1>4, <1>5, <1>6, <1>7, <1>10, <1>12 DEF SolGain
  <2>2. L.sol[t] = bank.sol[t]
    BY <1>4, <1>6, <1>7, <1>12
  <2>3. SolGain(t) >= RENT_ESCROW + RENT_ATA - n
    BY <1>2, <1>3, <1>4, <1>5, <1>7, <1>8, <1>12, <2>2 DEF SolGain
  <2> QED BY <1>1, <1>2, <1>9, <1>12, <2>1, <2>3 DEF DepositPaid
<1> QED BY <1>11, <1>12

\* A cancellation leaves all of it to the creator.
LEMMA CancelledDeposit ==
  ASSUME Inv, Reserves, TypeInv', NEW k \in EscrowKeys, escrow[k].live, ~EscrowRescuable(k),
         Cancel(k)
  PROVE  DepositPaid(k, k.creator)
<1> DEFINE a == EscrowAta(k)
           b == CreatorAta(k)
           t == k.creator
           extra == bank.ata[a].lamports - TokenLamports(a, bank.ata[a].amount)
           cost == OpeningCost(RecipientAta(k))
           R == CancelBank(k)
<1>1. /\ a = EscrowAta(k) /\ b = CreatorAta(k) /\ t = k.creator /\ R = CancelBank(k)
      /\ extra = bank.ata[a].lamports - TokenLamports(a, bank.ata[a].amount)
      /\ cost = OpeningCost(RecipientAta(k))
  OBVIOUS
<1>2. bank' = R /\ R.ok
  BY DEF Cancel, Commit
<1> HIDE DEF a, b, t, extra, cost, R
<1>3. /\ bank.ata[a].lamports \in Nat /\ k.amount \in Nat /\ bank.sol[k] \in Nat
      /\ TokenLamports(a, bank.ata[a].amount) \in Nat
      /\ bank.ata[a].lamports >= RENT_ATA + TokenLamports(a, bank.ata[a].amount)
      /\ bank.sol[k] >= RENT_ESCROW
      /\ escrow[k].asset_is_native =>
           escrow[k].token = NATIVE_MINT /\ bank.ata[a].lamports >= RENT_ATA + k.amount
  BY <1>1, EscrowHolds
<1>4. t \in Owners /\ RENT_ESCROW \in Nat /\ RENT_ATA \in Nat
  BY <1>1, KeyFact, EscrowDstAssumption, LedgerAssumption
<1>5. bank.sol[t] \in Nat /\ bank'.sol[t] \in Nat
  BY <1>4 DEF Inv, TypeInv, TypeOK, Bank
<1>6. /\ escrow[k].asset_is_native =>
           R.sol[t] >= bank.sol[t] + bank.sol[k] + bank.ata[a].lamports
      /\ ~escrow[k].asset_is_native => R.sol[t] = bank.sol[t] + bank.sol[k] + extra
  BY <1>1, <1>2, <1>3, CancelBankEffect DEF Inv
<1>7. SolGain(t) >= RENT_ESCROW + RENT_ATA
  <2>1. CASE escrow[k].asset_is_native
    BY <1>2, <1>3, <1>4, <1>5, <1>6, <2>1 DEF SolGain
  <2>2. CASE ~escrow[k].asset_is_native
    BY <1>1, <1>2, <1>3, <1>4, <1>5, <1>6, <2>2 DEF SolGain
  <2> QED BY <2>1, <2>2
<1>8. cost \in Nat
  BY <1>1, <1>4 DEF OpeningCost
<1>9. SolGain(t) >= RENT_ESCROW + RENT_ATA - cost
  BY <1>4, <1>5, <1>7, <1>8 DEF SolGain
<1> QED BY <1>1, <1>9 DEF DepositPaid

\* Whoever ends an escrow.
LEMMA EscrowEndsBy ==
  ASSUME TypeInv, [Next]_vars, NEW k \in EscrowKeys, escrow[k].live, ~escrow'[k].live
  PROVE  \/ \E s \in Secrets : \E u \in Users : \E with_ata \in BOOLEAN :
              Withdrawn(k, s, u, with_ata)
         \/ Cancel(k)
<1>1. ASSUME NEW j \in EscrowKeys, j # k PROVE ~CloseEscrow(j)
  BY <1>1 DEF CloseEscrow, TypeInv, TypeOK
<1>2. ASSUME NEW j \in EscrowKeys, NEW offer \in Offers PROVE ~Create(j, offer)
  BY <1>2 DEF Create, TypeInv, TypeOK
<1>3. ~Quiet
  BY DEF Quiet
<1> QED BY <1>1, <1>2, <1>3, Steps DEF Withdrawn, WithdrawBy, Cancel

\* An escrow that u's signature ends.
LEMMA EndedBySigner ==
  ASSUME NEW k \in EscrowKeys, NEW u \in Users, EndedBy(k, u)
  PROVE  \/ \E s \in Secrets : \E with_ata \in BOOLEAN : Withdrawn(k, s, u, with_ata)
         \/ u = k.creator /\ Cancel(k)
<1>1. ASSUME NEW s \in Secrets, NEW with_ata \in BOOLEAN, u = k.creator,
             Withdraw(k, s, with_ata)
      PROVE  Withdrawn(k, s, u, with_ata)
  BY <1>1 DEF Withdraw, WithdrawOpen, Withdrawn
<1>2. ASSUME NEW s \in Secrets, NEW with_ata \in BOOLEAN, PublicWithdraw(k, s, u, with_ata)
      PROVE  Withdrawn(k, s, u, with_ata)
  BY <1>2 DEF PublicWithdraw, WithdrawOpen, Withdrawn
<1> QED BY <1>1, <1>2 DEF EndedBy

\* The lamports put into an escrow come back when it ends: all to the creator if
\* the creator signs; if another resolver does, the safety deposit to that resolver
\* and the rest to the creator; and the signer pays for the recipient's token
\* account (the tail of utils::withdraw, cancel).
THEOREM DepositsComeBack == Spec => DepositToResolver
<1>1. ASSUME Inv, Reserves, Next, NEW k \in EscrowKeys, NEW u \in Users,
             EndedBy(k, u), ~EscrowRescuable(k)
      PROVE  DepositPaid(k, u)
  <2>1. TypeInv' /\ escrow[k].live
    BY <1>1, NextTypes DEF Inv, EndedBy
  <2> QED BY <1>1, <2>1, EndedBySigner, WithdrawnDeposit, CancelledDeposit
<1>2. Inv /\ Reserves /\ Vacant /\ [Next]_vars =>
        [\A k \in EscrowKeys, u \in Users :
           (EndedBy(k, u) /\ ~EscrowRescuable(k)) =>
             LET deposit == escrow[k].safety_deposit
                 cost == OpeningCost(RecipientAta(k))
             IN  IF u = k.creator THEN SolGain(u) >= RENT_ESCROW + RENT_ATA - cost
                 ELSE /\ SolGain(u) >= deposit - cost
                      /\ SolGain(k.creator) >= RENT_ESCROW + RENT_ATA - deposit]_vars
  BY <1>1 DEF DepositPaid
<1> QED BY <1>2, ReservesInvariant, PTL DEF Spec, DepositToResolver

-----------------------------------------------------------------------------
\* Whom the end of an escrow pays, as the refinement counts it.

\* A token account that is opened adds its reserve.
LEMMA ReserveAdded ==
  ASSUME NEW S, S \subseteq Mints, NEW m \in Mints, NEW T, T = S \cup {m}
  PROVE  /\ RENT_ATA * Cardinality(S) \in Nat
         /\ RENT_ATA * Cardinality(T) =
              RENT_ATA * Cardinality(S) + (IF m \in S THEN 0 ELSE RENT_ATA)
<1>1. RENT_ATA \in Nat
  BY LedgerAssumption
<1>2. IsFiniteSet(S)
  BY WealthAssumption, FS_Subset
<1>3. Cardinality(S) \in Nat
  BY <1>2, FS_CardinalityType
<1>4. \A r, c \in Nat : r * c \in Nat /\ r * (c + 1) = r * c + r
  OBVIOUS
<1>5. Cardinality(T) = IF m \in S THEN Cardinality(S) ELSE Cardinality(S) + 1
  BY <1>2, FS_AddElement
<1>6. RENT_ATA * Cardinality(S) \in Nat
  BY <1>1, <1>3, <1>4
<1>7. CASE m \in S
  <2>1. T = S
    BY <1>7
  <2> QED BY <1>6, <1>7, <2>1
<1>8. CASE m \notin S
  BY <1>1, <1>3, <1>4, <1>5, <1>6, <1>8
<1> QED BY <1>7, <1>8

\* The accounts of wealth.
LEMMA WealthParts ==
  ASSUME NEW u \in Users, NEW m \in Mints
  PROVE  /\ Wealth[<<u, m>>] = bank.ata[Ata(u, m)].amount
         /\ Wealth'[<<u, m>>] = bank'.ata[Ata(u, m)].amount
         /\ Wealth[<<u, "lamports">>] = Lamports(u)
         /\ Wealth'[<<u, "lamports">>] = Lamports(u)'
<1>1. m # "lamports"
  BY WealthAssumption
<1>2. <<u, m>> \in Users \X (Mints \cup {"lamports"})
      /\ <<u, "lamports">> \in Users \X (Mints \cup {"lamports"})
  OBVIOUS
<1> QED BY <1>1, <1>2 DEF Wealth, Ata

\* Who gains lamports in its wallet, less what a token account of its own costs,
\* gains them.
LEMMA LamportsGained ==
  ASSUME TypeInv, TypeInv', NEW u \in Users, NEW m \in Mints, NEW n \in Nat,
         bank'.sol[u] + OpeningCost(Ata(u, m)) >= bank.sol[u] + n,
         bank.ata[Ata(u, m)].live => bank'.ata[Ata(u, m)].live,
         \A p \in Mints \ {m} : bank'.ata[Ata(u, p)].live = bank.ata[Ata(u, p)].live
  PROVE  Wealth'[<<u, "lamports">>] >= Wealth[<<u, "lamports">>] + n
<1> DEFINE S == {p \in Mints : bank.ata[Ata(u, p)].live}
           T == {p \in Mints : bank'.ata[Ata(u, p)].live}
           cost == OpeningCost(Ata(u, m))
<1>1. T = IF bank'.ata[Ata(u, m)].live THEN S \cup {m} ELSE S
  OBVIOUS
<1>2. cost = IF bank'.ata[Ata(u, m)].live /\ m \notin S THEN RENT_ATA ELSE 0
  BY DEF OpeningCost
<1>3. Lamports(u) = bank.sol[u] + RENT_ATA * Cardinality(S)
      /\ Lamports(u)' = bank'.sol[u] + RENT_ATA * Cardinality(T)
  BY DEF Lamports
<1>4. S \subseteq Mints
  OBVIOUS
<1>5. bank'.sol[u] + cost >= bank.sol[u] + n
  OBVIOUS
<1> HIDE DEF S, T, cost
<1>6. /\ RENT_ATA * Cardinality(S) \in Nat
      /\ RENT_ATA * Cardinality(T) = RENT_ATA * Cardinality(S) + cost
  <2>1. CASE bank'.ata[Ata(u, m)].live
    <3>1. T = S \cup {m}
      BY <1>1, <2>1
    <3>2. /\ RENT_ATA * Cardinality(S) \in Nat
          /\ RENT_ATA * Cardinality(T) =
               RENT_ATA * Cardinality(S) + (IF m \in S THEN 0 ELSE RENT_ATA)
      BY <1>4, <3>1, ReserveAdded
    <3>3. cost = IF m \in S THEN 0 ELSE RENT_ATA
      BY <1>2, <2>1
    <3> QED BY <3>2, <3>3
  <2>2. CASE ~bank'.ata[Ata(u, m)].live
    <3>1. T = S /\ cost = 0
      BY <1>1, <1>2, <2>2
    <3>2. RENT_ATA * Cardinality(S) \in Nat
      BY <1>4, ReserveAdded
    <3> QED BY <3>1, <3>2
  <2> QED BY <2>1, <2>2
<1>7. cost \in Nat
  BY <1>2, LedgerAssumption
<1>8. bank.sol[u] \in Nat /\ bank'.sol[u] \in Nat
  BY KeyFact DEF TypeInv, TypeOK, Bank
<1>9. Lamports(u)' >= Lamports(u) + n
  <2> DEFINE x == RENT_ATA * Cardinality(S)
             y == RENT_ATA * Cardinality(T)
  <2>1. x \in Nat /\ y = x + cost
    BY <1>6
  <2>2. Lamports(u) = bank.sol[u] + x /\ Lamports(u)' = bank'.sol[u] + y
    BY <1>3
  <2> HIDE DEF x, y
  <2> QED BY <1>5, <1>7, <1>8, <2>1, <2>2
<1>10. /\ Wealth[<<u, "lamports">>] = Lamports(u)
       /\ Wealth'[<<u, "lamports">>] = Lamports(u)'
  BY LedgerAssumption, WealthParts
<1> QED BY <1>9, <1>10

\* A withdrawal pays the recipient what was locked,
LEMMA WithdrawnPays ==
  ASSUME Inv, Reserves, Vacant, TypeInv', NEW k \in EscrowKeys,
         escrow[k].live, ~EscrowRescuable(k),
         NEW s \in Secrets, NEW u \in Users, NEW with_ata \in BOOLEAN,
         Withdrawn(k, s, u, with_ata)
  PROVE  LET payee == AssetAccount(k, escrow[k].recipient)
         IN  Wealth'[payee] >= Wealth[payee] + k.amount
<1> DEFINE a == EscrowAta(k)
           r == escrow[k].recipient
           m == escrow[k].token
           b == RecipientAta(k)
           cost == IF with_ata /\ ~bank.ata[b].live THEN RENT_ATA ELSE 0
           d == k.amount
           L == RecipientAccounts(k, u, with_ata)
           R == WithdrawBank(k, u, with_ata)
<1>1. /\ a = EscrowAta(k) /\ b = RecipientAta(k) /\ b = Ata(r, m)
      /\ r = escrow[k].recipient /\ m = escrow[k].token /\ d = k.amount
      /\ cost = IF with_ata /\ ~bank.ata[b].live THEN RENT_ATA ELSE 0
      /\ L = RecipientAccounts(k, u, with_ata) /\ R = WithdrawBank(k, u, with_ata)
  BY DEF RecipientAta
<1>2. bank' = R /\ R.ok /\ (with_ata \/ escrow[k].asset_is_native)
  BY DEF Withdrawn, WithdrawBy, Commit
<1> HIDE DEF a, b, r, m, d, cost, L, R
<1>3. /\ bank.ata[a].amount \in Nat /\ d \in Nat
      /\ escrow[k].asset_is_native => escrow[k].token = NATIVE_MINT
      /\ ~escrow[k].asset_is_native => bank.ata[a].amount >= d
  BY <1>1, EscrowHolds
<1>4. /\ r \in Users /\ r \in Owners /\ m \in Mints /\ a \in Atas(Owners) /\ b \in Atas(Owners)
      /\ a = Ata(k, m) /\ k # r /\ u \in Owners /\ RENT_ATA \in Nat
      /\ k.creator \in Owners
  BY <1>1, KeyFact, EscrowFact, LedgerAssumption DEF Inv, TypeInv
<1>5. /\ bank.sol[r] \in Nat /\ bank'.sol[r] \in Nat /\ bank.ata[b].amount \in Nat
  BY <1>4 DEF Inv, TypeInv, TypeOK, Bank, AtaState, Atas
<1>6. /\ L.ok <=> cost <= bank.sol[u]
      /\ L.ok => /\ L.sol[u] = bank.sol[u] - cost
                 /\ \A z \in Owners \ {u} : L.sol[z] = bank.sol[z]
                 /\ with_ata => L.ata[b].live
                 /\ bank.ata[b].live => L.ata[b] = bank.ata[b]
                 /\ (with_ata /\ ~bank.ata[b].live) => L.ata[b].amount = 0
      /\ ~with_ata => L = bank
  <2>1. /\ TypeInv /\ b = RecipientAta(k) /\ L = RecipientAccounts(k, u, with_ata)
        /\ cost = IF with_ata /\ ~bank.ata[b].live THEN RENT_ATA ELSE 0
    BY <1>1 DEF Inv
  <2> QED BY ONLY <2>1, k \in EscrowKeys, u \in Users, with_ata \in BOOLEAN,
              RecipientAccountsEffect
<1>7. CASE escrow[k].asset_is_native
  <2>1. /\ L.ok
        /\ R.sol[r] >= L.sol[r] + d
        /\ \A c \in Atas(Owners) \ {a} : R.ata[c] = L.ata[c]
    BY <1>1, <1>2, <1>3, <1>7, WithdrawNativeEffect DEF Inv
  <2>2. \A c \in Atas(Owners) \ {b} : L.ata[c] = bank.ata[c]
    <3>1. Extends(bank, L, {b}, Owners)
      BY <1>1, WithdrawBankFact DEF Inv
    <3> QED BY <2>1, <3>1 DEF Extends
  <2>3. \A p \in Mints : Ata(r, p) \in Atas(Owners) \ {a} /\ (p # m => Ata(r, p) # b)
    BY <1>1, <1>4 DEF Ata, Atas
  <2>4. \A p \in Mints \ {m} : bank'.ata[Ata(r, p)].live = bank.ata[Ata(r, p)].live
    BY <1>2, <2>1, <2>2, <2>3
  <2>5. bank'.ata[b] = L.ata[b]
    BY <1>1, <1>2, <1>4, <2>1, <2>3
  <2>6. bank.ata[b].live => bank'.ata[b].live
    BY <1>6, <2>1, <2>5
  <2>7. cost = OpeningCost(b) /\ cost \in Nat
    <3>1. CASE with_ata
      BY <1>1, <1>4, <1>6, <2>1, <2>5, <3>1 DEF OpeningCost
    <3>2. CASE ~with_ata
      BY <1>1, <1>4, <1>6, <2>5, <3>2 DEF OpeningCost
    <3> QED BY <3>1, <3>2
  <2>8. L.sol[r] >= bank.sol[r] - cost /\ L.sol[r] \in Int
    BY <1>4, <1>5, <1>6, <2>1, <2>7
  <2>9. bank'.sol[r] + cost >= bank.sol[r] + d
    BY <1>2, <1>3, <1>5, <2>1, <2>7, <2>8
  <2>10. Wealth'[<<r, "lamports">>] >= Wealth[<<r, "lamports">>] + d
    <3>1. bank'.sol[r] + OpeningCost(Ata(r, m)) >= bank.sol[r] + d
      BY <1>1, <2>7, <2>9
    <3>2. bank.ata[Ata(r, m)].live => bank'.ata[Ata(r, m)].live
      BY <1>1, <2>6
    <3> QED BY <1>3, <1>4, <2>4, <3>1, <3>2, LamportsGained DEF Inv
  <2>11. AssetAccount(k, r) = <<r, "lamports">>
    BY <1>7 DEF AssetAccount
  <2> QED BY <1>1, <2>10, <2>11
<1>8. CASE ~escrow[k].asset_is_native
  <2>1. /\ L.ok
        /\ R.ata[b].amount = L.ata[b].amount + bank.ata[a].amount
    <3> DEFINE t == k.creator
               n == escrow[k].safety_deposit
               rest == bank.sol[k] + (bank.ata[a].lamports - TokenLamports(a, bank.ata[a].amount))
    <3>1. /\ TypeInv /\ ~escrow[k].asset_is_native
          /\ a = EscrowAta(k) /\ b = RecipientAta(k)
          /\ t = k.creator /\ n = escrow[k].safety_deposit
          /\ L = RecipientAccounts(k, u, with_ata) /\ R = WithdrawBank(k, u, with_ata)
          /\ rest = bank.sol[k]
                    + (bank.ata[a].lamports - TokenLamports(a, bank.ata[a].amount))
      BY <1>1, <1>8 DEF Inv
    <3> HIDE DEF t, n, rest
    <3>2. /\ (L.ok /\ bank.ata[a].live /\ L.ata[b].live /\ n <= bank.sol[k]) => R.ok
          /\ R.ok => /\ L.ok
                     /\ R.sol[k] = 0
                     /\ R.ata[b].live = L.ata[b].live
                     /\ R.ata[b].amount = L.ata[b].amount + bank.ata[a].amount
                     /\ u = t => R.sol[t] = L.sol[t] + rest
                     /\ u # t => /\ R.sol[u] = L.sol[u] + n
                                 /\ R.sol[t] = L.sol[t] + rest - n
                     /\ \A z \in EscrowKeys \ {k} : R.sol[z] = bank.sol[z]
      BY ONLY <3>1, k \in EscrowKeys, u \in Users, with_ata \in BOOLEAN,
              WithdrawTokensEffect
    <3> QED BY <1>2, <3>2
  <2>2. L.ata[b].amount = bank.ata[b].amount
    <3>1. CASE bank.ata[b].live
      BY <1>6, <2>1, <3>1
    <3>2. CASE ~bank.ata[b].live
      BY <1>2, <1>4, <1>6, <1>8, <2>1, <3>2 DEF Vacant, NoAta
    <3> QED BY <3>1, <3>2
  <2>3. bank'.ata[b].amount >= bank.ata[b].amount + d
    BY <1>2, <1>3, <1>5, <1>8, <2>1, <2>2
  <2>4. Wealth[<<r, m>>] = bank.ata[b].amount /\ Wealth'[<<r, m>>] = bank'.ata[b].amount
    <3>1. r \in Users /\ m \in Mints /\ b = Ata(r, m)
      BY <1>1, <1>4
    <3> QED BY ONLY <3>1, WealthParts
  <2>5. AssetAccount(k, r) = <<r, m>>
    BY <1>1, <1>8 DEF AssetAccount
  <2> QED BY <1>1, <2>3, <2>4, <2>5
<1> QED BY <1>7, <1>8

\* and a cancellation its creator.
LEMMA CancelledPays ==
  ASSUME Inv, Reserves, TypeInv', NEW k \in EscrowKeys,
         escrow[k].live, ~EscrowRescuable(k), Cancel(k)
  PROVE  LET payer == AssetAccount(k, k.creator)
         IN  Wealth'[payer] >= Wealth[payer] + k.amount
<1> DEFINE e == escrow[k]
           a == EscrowAta(k)
           m == escrow[k].token
           b == CreatorAta(k)
           t == k.creator
           d == k.amount
           extra == bank.ata[a].lamports - TokenLamports(a, bank.ata[a].amount)
           R == CancelBank(k)
<1>1. /\ e = escrow[k] /\ a = EscrowAta(k) /\ b = CreatorAta(k) /\ b = Ata(t, m)
      /\ t = k.creator /\ m = escrow[k].token /\ d = k.amount /\ R = CancelBank(k)
      /\ extra = bank.ata[a].lamports - TokenLamports(a, bank.ata[a].amount)
  BY DEF CreatorAta
<1>2. bank' = R /\ R.ok
  BY DEF Cancel, Commit
<1> HIDE DEF e, a, b, t, m, d, extra, R
<1>3. /\ bank.ata[a].amount \in Nat /\ bank.ata[a].lamports \in Nat /\ d \in Nat
      /\ bank.sol[k] \in Nat /\ RENT_ATA \in Nat
      /\ e.asset_is_native => e.token = NATIVE_MINT /\ bank.ata[a].lamports >= RENT_ATA + d
      /\ ~e.asset_is_native => bank.ata[a].amount >= d
  BY <1>1, EscrowHolds, LedgerAssumption
<1>4. /\ t \in Users /\ t \in Owners /\ m \in Mints /\ a \in Atas(Owners) /\ b \in Atas(Owners)
      /\ a = Ata(k, m) /\ k # t
  BY <1>1, KeyFact, EscrowFact DEF Inv, TypeInv
<1>5. /\ bank.sol[t] \in Nat /\ bank'.sol[t] \in Nat /\ bank.ata[b].amount \in Nat
  BY <1>4 DEF Inv, TypeInv, TypeOK, Bank, AtaState, Atas
<1>6. /\ e.asset_is_native =>
           /\ R.sol[t] >= bank.sol[t] + bank.sol[k] + bank.ata[a].lamports
           /\ \A c \in Atas(Owners) \ {a} : R.ata[c] = bank.ata[c]
      /\ ~e.asset_is_native => R.ata[b].amount = bank.ata[b].amount + bank.ata[a].amount
  <2>1. /\ TypeInv /\ e = escrow[k] /\ (e.asset_is_native => e.token = NATIVE_MINT)
        /\ a = EscrowAta(k) /\ b = CreatorAta(k) /\ t = k.creator /\ d = k.amount
        /\ extra = bank.ata[a].lamports - TokenLamports(a, bank.ata[a].amount)
        /\ R = CancelBank(k)
    BY <1>1, <1>3 DEF Inv
  <2>2. /\ (/\ bank.ata[a].live
            /\ IF e.asset_is_native THEN d <= bank.sol[k] + bank.ata[a].lamports
               ELSE bank.ata[b].live) => R.ok
        /\ R.ok => /\ R.sol[k] = 0
                   /\ e.asset_is_native =>
                        /\ R.sol[t] >= bank.sol[t] + bank.sol[k] + bank.ata[a].lamports
                        /\ \A c \in Atas(Owners) \ {a} : R.ata[c] = bank.ata[c]
                   /\ ~e.asset_is_native =>
                        /\ R.sol[t] = bank.sol[t] + bank.sol[k] + extra
                        /\ R.ata[b].amount = bank.ata[b].amount + bank.ata[a].amount
                   /\ \A z \in EscrowKeys \ {k} : R.sol[z] = bank.sol[z]
    BY ONLY <2>1, k \in EscrowKeys, CancelBankEffect
  <2> QED BY <1>2, <2>2
<1>7. CASE e.asset_is_native
  <2>1. \A p \in Mints : Ata(t, p) \in Atas(Owners) \ {a}
    BY <1>4 DEF Ata, Atas
  <2>2. \A p \in Mints : bank'.ata[Ata(t, p)] = bank.ata[Ata(t, p)]
    BY <1>2, <1>6, <1>7, <2>1
  <2>3. OpeningCost(Ata(t, m)) = 0
    BY <1>4, <2>2 DEF OpeningCost
  <2>4. bank'.sol[t] >= bank.sol[t] + d
    BY <1>2, <1>3, <1>5, <1>6, <1>7
  <2>5. bank'.sol[t] + OpeningCost(Ata(t, m)) >= bank.sol[t] + d
    BY <1>5, <2>3, <2>4
  <2>6. Wealth'[<<t, "lamports">>] >= Wealth[<<t, "lamports">>] + d
    BY <1>3, <1>4, <2>2, <2>5, LamportsGained DEF Inv
  <2>7. AssetAccount(k, t) = <<t, "lamports">>
    BY <1>1, <1>7 DEF AssetAccount
  <2> QED BY <1>1, <2>6, <2>7
<1>8. CASE ~e.asset_is_native
  <2>1. bank'.ata[b].amount >= bank.ata[b].amount + d
    BY <1>2, <1>3, <1>5, <1>6, <1>8
  <2>2. Wealth[<<t, m>>] = bank.ata[b].amount /\ Wealth'[<<t, m>>] = bank'.ata[b].amount
    BY <1>1, <1>4, WealthParts
  <2>3. AssetAccount(k, t) = <<t, m>>
    BY <1>1, <1>8 DEF AssetAccount
  <2> QED BY <1>1, <2>1, <2>2, <2>3
<1> QED BY <1>7, <1>8

-----------------------------------------------------------------------------
\* The refinement.

\* An escrow whose funds its lock promises.
Promised(k) == escrow[k].live /\ ~EscrowRescuable(k)

\* The states that the two modules name are the same.
LEMMA LockStatesFact ==
  Lock!Free = Free /\ Lock!Expired = Expired /\ Free.status # "locked"
BY DEF Lock!Free, Lock!Expired, Free, Expired

\* The three states of a lock.
LEMMA LockParts ==
  ASSUME NEW k \in EscrowKeys
  PROVE  /\ ~escrow[k].live => LockOf(k) = Free
         /\ escrow[k].live /\ ~Promised(k) => LockOf(k) = Expired
         /\ Promised(k) =>
              /\ LockOf(k).status = "locked"
              /\ LockOf(k).deadline = StageTime(escrow[k].timelocks, "DstCancellation")
              /\ LockOf(k).expiry = RescueStart(escrow[k].timelocks)
              /\ LockOf(k).payee = AssetAccount(k, escrow[k].recipient)
              /\ LockOf(k).payer = AssetAccount(k, k.creator)
         /\ LockOf(k).status = "locked" => Promised(k)
BY DEF LockOf, Promised, Free, Expired, Locked

\* They are those of the step's end, too.
LEMMA LockPartsNext ==
  ASSUME NEW k \in EscrowKeys
  PROVE  /\ ~escrow'[k].live => LockOf(k)' = Free
         /\ escrow'[k].live /\ ~Promised(k)' => LockOf(k)' = Expired
         /\ Promised(k)' => LockOf(k)'.status = "locked"
         /\ LockOf(k)'.status = "locked" => Promised(k)'
BY DEF LockOf, Promised, Free, Expired, Locked

\* An escrow that a step leaves as it is stays in its lock, or its lock expires.
LEMMA KeptLock ==
  ASSUME TypeInv, now' >= now, now' \in Nat, NEW k \in EscrowKeys, escrow'[k] = escrow[k]
  PROVE  Lock!Stay(k) \/ Lock!Expire(k)
<1>1. now \in Nat /\ RescueStart(escrow[k].timelocks) \in Nat
  BY SoundFact, EscrowFact DEF TypeInv
<1>2. EscrowRescuable(k)' <=> now' >= RescueStart(escrow[k].timelocks)
  BY DEF EscrowRescuable
<1>3. EscrowRescuable(k) => EscrowRescuable(k)'
  BY <1>1, <1>2 DEF EscrowRescuable
<1>4. CASE Promised(k) /\ ~Promised(k)'
  <2>1. now' >= RescueStart(escrow[k].timelocks) /\ escrow'[k].live
    BY <1>2, <1>4 DEF Promised
  <2>2. /\ LockOf(k).status = "locked" /\ LockOf(k)' = Expired
        /\ LockOf(k).expiry = RescueStart(escrow[k].timelocks)
    BY <1>4, <2>1, LockParts, LockPartsNext
  <2> QED BY <2>1, <2>2, LockStatesFact DEF Lock!Expire, Lock!IsLocked
<1>5. CASE Promised(k)' <=> Promised(k)
  <2>1. LockOf(k)' = LockOf(k)
    BY <1>5 DEF LockOf, Promised, AssetAccount
  <2> QED BY <2>1 DEF Lock!Stay
<1>6. Promised(k)' => Promised(k)
  BY <1>3 DEF Promised
<1> QED BY <1>4, <1>5, <1>6

\* An escrow that a step makes is locked, or has expired before it was made.
LEMMA MadeLock ==
  ASSUME NEW k \in EscrowKeys, ~escrow[k].live, escrow'[k].live
  PROVE  Lock!Secure(k) \/ Lock!Void(k)
<1>1. LockOf(k) = Free
  BY LockParts
<1>2. CASE Promised(k)'
  <2>1. LockOf(k)'.status = "locked"
    BY <1>2, LockPartsNext
  <2> QED BY <1>1, <2>1, LockStatesFact DEF Lock!Secure
<1>3. CASE ~Promised(k)'
  <2>1. LockOf(k)' = Expired
    BY <1>3, LockPartsNext
  <2> QED BY <1>1, <2>1, LockStatesFact DEF Lock!Void
<1> QED BY <1>2, <1>3

\* What a step may do to one lock.
LockStep(k) ==
  \/ Lock!Stay(k) \/ Lock!Secure(k) \/ Lock!Redeem(k) \/ Lock!Refund(k) \/ Lock!Expire(k)
  \/ Lock!Void(k)

\* Whatever ends an escrow, its lock is redeemed or refunded, unless it has expired.
LEMMA EndedLock ==
  ASSUME Inv, Reserves, Vacant, TypeInv', [Next]_vars, NEW k \in EscrowKeys,
         escrow[k].live, ~escrow'[k].live
  PROVE  LockStep(k)
<1>1. CASE ~Promised(k)
  <2>1. LockOf(k) = Expired /\ LockOf(k)' = Free
    BY <1>1, LockParts, LockPartsNext
  <2> QED BY <2>1, LockStatesFact DEF Lock!Void, LockStep
<1>2. CASE Promised(k)
  <2>1. /\ ~EscrowRescuable(k)
        /\ LockOf(k).status = "locked" /\ LockOf(k)' = Free
        /\ LockOf(k).deadline = StageTime(escrow[k].timelocks, "DstCancellation")
        /\ LockOf(k).payee = AssetAccount(k, escrow[k].recipient)
        /\ LockOf(k).payer = AssetAccount(k, k.creator)
    BY <1>2, LockParts, LockPartsNext DEF Promised
  <2>2. ASSUME NEW s \in Secrets, NEW u \in Users, NEW with_ata \in BOOLEAN,
               Withdrawn(k, s, u, with_ata)
        PROVE  Lock!Redeem(k)
    <3>1. k.hashlock \in {Keccak[z] : z \in revealed}
      BY <2>2 DEF Withdrawn, WithdrawBy, HashlockOpened
    <3>2. now < StageTime(escrow[k].timelocks, "DstCancellation")
      BY <2>2 DEF Withdrawn, Before
    <3>3. LET payee == AssetAccount(k, escrow[k].recipient)
          IN  Wealth'[payee] >= Wealth[payee] + k.amount
      BY <2>1, <2>2, WithdrawnPays
    <3> QED BY <2>1, <3>1, <3>2, <3>3, LockStatesFact DEF Lock!Redeem, Lock!IsLocked, Lock!Gains
  <2>3. ASSUME Cancel(k)
        PROVE  Lock!Refund(k)
    <3>1. now >= StageTime(escrow[k].timelocks, "DstCancellation")
      BY <2>3 DEF Cancel, Reached
    <3>2. LET payer == AssetAccount(k, k.creator)
          IN  Wealth'[payer] >= Wealth[payer] + k.amount
      BY <2>1, <2>3, CancelledPays
    <3> QED BY <2>1, <3>1, <3>2, LockStatesFact DEF Lock!Refund, Lock!IsLocked, Lock!Gains
  <2> QED BY <2>2, <2>3, EscrowEndsBy DEF Inv, LockStep
<1> QED BY <1>1, <1>2

\* What a step does to one escrow, and that time and secrets only go forward.
LEMMA EscrowChanges ==
  ASSUME TypeInv, [Next]_vars
  PROVE  /\ now' >= now /\ revealed \subseteq revealed'
         /\ \A k \in EscrowKeys :
              \/ escrow'[k] = escrow[k]
              \/ ~escrow[k].live /\ escrow'[k].live
              \/ escrow[k].live /\ ~escrow'[k].live
<1> DEFINE Moves(k) == \/ escrow'[k] = escrow[k]
                       \/ ~escrow[k].live /\ escrow'[k].live
                       \/ escrow[k].live /\ ~escrow'[k].live
<1>1. now \in Nat
  BY SoundFact
<1>2. ASSUME NEW k \in EscrowKeys, escrow[k].live, CloseEscrow(k),
             UNCHANGED <<now, resolver_access, revealed>>
      PROVE  now' >= now /\ revealed \subseteq revealed' /\ \A z \in EscrowKeys : Moves(z)
  BY <1>1, <1>2 DEF CloseEscrow, NoEscrow, TypeInv, TypeOK
<1>3. ASSUME NEW k \in EscrowKeys, NEW offer \in Offers, Create(k, offer)
      PROVE  now' >= now /\ revealed \subseteq revealed' /\ \A z \in EscrowKeys : Moves(z)
  <2>1. /\ ~escrow[k].live /\ escrow'[k].live /\ UNCHANGED <<now, resolver_access, revealed>>
        /\ \A z \in EscrowKeys \ {k} : escrow'[z] = escrow[z]
    BY <1>3 DEF Create, TypeInv, TypeOK
  <2> QED BY <1>1, <2>1
<1>4. ASSUME Quiet
      PROVE  now' >= now /\ revealed \subseteq revealed' /\ \A z \in EscrowKeys : Moves(z)
  BY <1>4 DEF Quiet
<1> HIDE DEF Moves
<1>5. ASSUME NEW k \in EscrowKeys, NEW s, NEW u, NEW with_ata, Withdrawn(k, s, u, with_ata)
      PROVE  now' >= now /\ revealed \subseteq revealed' /\ \A z \in EscrowKeys : Moves(z)
  <2>1. escrow[k].live /\ CloseEscrow(k) /\ UNCHANGED <<now, resolver_access, revealed>>
    BY <1>5 DEF Withdrawn, WithdrawBy
  <2> QED BY <1>2, <2>1
<1>6. ASSUME NEW k \in EscrowKeys, Cancel(k)
      PROVE  now' >= now /\ revealed \subseteq revealed' /\ \A z \in EscrowKeys : Moves(z)
  <2>1. escrow[k].live /\ CloseEscrow(k) /\ UNCHANGED <<now, resolver_access, revealed>>
    BY <1>6 DEF Cancel
  <2> QED BY <1>2, <2>1
<1>7. now' >= now /\ revealed \subseteq revealed' /\ \A k \in EscrowKeys : Moves(k)
  BY <1>3, <1>4, <1>5, <1>6, Steps
<1> QED BY <1>7 DEF Moves

\* What is behind a lock.
LEMMA LockHeld ==
  ASSUME TypeInv', EscrowFunded', NEW k \in EscrowKeys, Promised(k)'
  PROVE  HeldFor(k)' >= k.amount
<1> DEFINE a == bank'.ata[EscrowAta(k)']
<1>1. IF escrow'[k].asset_is_native THEN a.lamports >= RENT_ATA + k.amount
      ELSE a.amount >= k.amount
  BY DEF EscrowFunded, Promised
<1>2. HeldFor(k)' = IF escrow'[k].asset_is_native THEN a.lamports - RENT_ATA ELSE a.amount
  BY DEF HeldFor
<1>3. k.amount \in Nat /\ RENT_ATA \in Nat
  BY KeyFact, LedgerAssumption
<1>4. a.lamports \in Nat
  <2>1. EscrowAta(k)' \in Owners \X Mints
    <3>1. escrow'[k].token \in Mints
      BY DEF TypeInv, TypeOK, EscrowState
    <3> QED BY <3>1, KeyFact DEF EscrowAta, Ata
  <2> QED BY <2>1 DEF TypeInv, TypeOK, Bank, AtaState
<1> HIDE DEF a
<1> QED BY <1>1, <1>2, <1>3, <1>4

\* Every step is one of the hash time lock.
LEMMA LockNext ==
  ASSUME Inv, Reserves, Vacant, [Next]_vars
  PROVE  Lock!Next
<1>1. TypeInv' /\ EscrowFunded'
  BY NextTypes, NextFunded DEF Inv
<1>2. now' >= now /\ revealed \subseteq revealed'
  BY EscrowChanges DEF Inv
<1>3. now' \in Nat
  BY <1>1, EscrowDstAssumption, WidthsAssumption DEF TypeInv, TypeOK, U32
<1>4. ASSUME NEW k \in EscrowKeys PROVE LockStep(k)
  <2>1. CASE escrow'[k] = escrow[k]
    BY <1>2, <1>3, <2>1, KeptLock DEF Inv, LockStep
  <2>2. CASE ~escrow[k].live /\ escrow'[k].live
    BY <2>2, MadeLock DEF LockStep
  <2>3. CASE escrow[k].live /\ ~escrow'[k].live
    BY <1>1, <2>3, EndedLock
  <2> QED BY <2>1, <2>2, <2>3, EscrowChanges DEF Inv
<1>5. ASSUME NEW k \in EscrowKeys, LockOf(k)'.status = "locked"
      PROVE  HeldFor(k)' >= k.amount
  <2>1. Promised(k)'
    BY <1>5, LockPartsNext
  <2> QED BY <1>1, <2>1, LockHeld
<1>6. {Keccak[s] : s \in revealed} \subseteq {Keccak[s] : s \in revealed'}
  BY <1>2
<1> QED BY <1>2, <1>4, <1>5, <1>6 DEF Lock!Next, LockStep

\* The destination-chain program implements the hash time lock: every step of
\* every escrow is one of its steps, whatever form its asset has, whoever ends it
\* and whatever becomes of rescues and outside transfers (create, withdraw,
\* public_withdraw, cancel).
THEOREM EscrowsAreHashTimelocks == Spec => ImplementsHashTimelock
<1>1. Init => Lock!Init
  <2>1. Init => \A k \in EscrowKeys : ~escrow[k].live
    BY DEF Init, NoEscrow
  <2>2. Init => \A k \in EscrowKeys : LockOf(k) = Free
    BY <2>1, LockParts
  <2> QED BY <2>2, LockStatesFact DEF Lock!Init
<1>2. (Inv /\ Reserves /\ Vacant) /\ [Next]_vars => [Lock!Next]_(Lock!vars)
  BY LockNext
<1> QED BY <1>1, <1>2, ReservesInvariant, PTL DEF Spec, ImplementsHashTimelock, Lock!Spec

-----------------------------------------------------------------------------
\* Who pays.  Each lemma says whom the chain of calls of an instruction spares.

\* What a chain of calls spares a user, its commit leaves the user.
LEMMA SparedUser ==
  ASSUME TypeInv, NEW L, Sound(L, Owners), Commit(L),
         NEW U \in SUBSET Users, NEW V \in SUBSET Users, Spares(bank, L, U, V)
  PROVE  (\A u \in U : SolGain(u) >= 0) /\ (\A u \in V : KeepsTokens(u))
<1>1. bank' = L /\ \A u \in Users : bank.sol[u] \in Nat /\ L.sol[u] \in Nat
  BY SoundFact, KeyFact, BankParts DEF Commit
<1>2. \A u \in U : SolGain(u) >= 0
  BY <1>1 DEF Spares, Commit, SolGain
<1>3. \A u \in V : \A m \in Mints : Ata(u, m) \in Atas(V)
  BY DEF Ata, Atas
<1>4. \A u \in V : KeepsTokens(u)
  BY <1>1, <1>3 DEF Spares, Commit, KeepsTokens
<1> QED BY <1>2, <1>4

\* create takes from the creator, whose token account stays open.
LEMMA CreateSpares ==
  ASSUME TypeInv, NEW k \in EscrowKeys, NEW offer \in Offers, Create(k, offer)
  PROVE  /\ \A u \in Users \ {k.creator} : SolGain(u) >= 0 /\ KeepsTokens(u)
         /\ KeepsAtas(k.creator)
<1> DEFINE u == k.creator
           W == Users \ {u}
           a == Ata(k, offer.token)
           b == Ata(u, offer.token)
           n == k.amount
           I == InitAccount(bank, u, k, RENT_ESCROW)
           A == InitIfNeededAta(I, u, a)
           D == DepositEscrow(A, k, offer)
<1>1. Commit(D)
  BY DEF Create, CreateAccounts
<1>2. /\ u \in Owners /\ u \notin W /\ W \in SUBSET Owners /\ W \in SUBSET Users
      /\ k \in Owners /\ n \in Nat
      /\ a \in Atas(Owners) /\ b \in Atas(Owners) /\ a # b /\ b \notin Atas(W)
      /\ RENT_ESCROW \in Nat
  BY OfferFact, KeyFact, EscrowDstAssumption DEF Ata, Atas
<1>3. /\ I = InitAccount(bank, u, k, RENT_ESCROW) /\ A = InitIfNeededAta(I, u, a)
      /\ D = IF offer.asset_is_native THEN UniTransferToAta(A, u, a, n)
             ELSE UniTransferToken(A, b, a, n)
  BY DEF DepositEscrow
<1>4. \A m \in Mints : Ata(u, m) \in Atas(Owners) /\ Ata(u, m) # a
  BY KeyFact DEF Ata, Atas
<1> HIDE DEF u, W, a, b, n, I, A, D
<1>5. Sound(I, Owners) /\ Extends(bank, I, {}, Owners) /\ Spares(bank, I, W, W)
  BY <1>2, <1>3, SoundFact, MoveLamportsFact, SparesMove DEF InitAccount
<1>6. Sound(A, Owners) /\ Extends(I, A, {a}, Owners) /\ Spares(I, A, W, W)
  BY <1>2, <1>3, <1>5, InitIfNeededAtaFact, SparesOpen
<1>7. Extends(bank, A, {a}, Owners) /\ Spares(bank, A, W, W)
  BY <1>2, <1>5, <1>6, SoundFact, SparesTransitive DEF Extends
<1>8. /\ Sound(D, Owners) /\ Spares(A, D, W, W)
      /\ D.ok => \A m \in Mints : A.ata[Ata(u, m)].live => D.ata[Ata(u, m)].live
  <2>1. CASE offer.asset_is_native
    <3>1. D = UniTransferToAta(A, u, a, n)
      BY <1>3, <2>1
    <3>2. Sound(D, Owners) /\ Extends(A, D, {a}, Owners) /\ Spares(A, D, W, W)
      BY <1>2, <1>6, <3>1, UniTransferToAtaFact, SparesFund
    <3> QED BY <1>4, <3>2 DEF Extends
  <2>2. CASE ~offer.asset_is_native
    <3>1. D = UniTransferToken(A, b, a, n)
      BY <1>3, <2>2
    <3>2. /\ Sound(D, Owners) /\ Extends(A, D, {b, a}, Owners)
          /\ (D.ok /\ A.ata[b].live) => D.ata[b].live /\ D.ata[b].amount = A.ata[b].amount - n
      BY <1>2, <1>6, <3>1, UniTransferTokenFact
    <3>3. Spares(A, D, W, W)
      BY <1>2, <1>6, <3>1, SparesTransfer
    <3> QED BY <1>4, <3>2, <3>3 DEF Extends
  <2> QED BY <2>1, <2>2
<1>9. Spares(bank, D, W, W)
  BY <1>2, <1>6, <1>7, <1>8, SoundFact, SparesTransitive
<1>10. KeepsAtas(u)
  BY <1>1, <1>4, <1>7, <1>8 DEF KeepsAtas, Commit, Extends
<1>11. \A z \in W : SolGain(z) >= 0 /\ KeepsTokens(z)
  BY <1>1, <1>2, <1>8, <1>9, SparedUser
<1> QED BY <1>10, <1>11 DEF u, W

\* The recipient's token account costs nobody but the one that withdraws.
LEMMA RecipientAccountsSpares ==
  ASSUME TypeInv, NEW k \in EscrowKeys, NEW u \in Users, NEW with_ata \in BOOLEAN,
         NEW b, b = RecipientAta(k),
         NEW cost, cost = IF with_ata /\ ~bank.ata[b].live THEN RENT_ATA ELSE 0,
         NEW L, L = RecipientAccounts(k, u, with_ata)
  PROVE  /\ Sound(L, Owners) /\ Spares(bank, L, Users \ {u}, Users)
         /\ L.ok => L.sol[u] = bank.sol[u] - cost
         /\ (L.ok /\ with_ata) => L.ata[b].live
<1> DEFINE W == Users \ {u}
<1>1. /\ b \in Atas(Owners) /\ u \in Owners /\ Sound(bank, Owners)
      /\ Users \in SUBSET Owners /\ W \in SUBSET Owners /\ u \notin W
  BY KeyFact, EscrowFact, SoundFact DEF TypeInv
<1>2. /\ L.ok => L.sol[u] = bank.sol[u] - cost
      /\ (L.ok /\ with_ata) => L.ata[b].live
  BY RecipientAccountsEffect
<1>3. CASE with_ata
  <2>1. L = InitIfNeededAta(bank, u, b)
    BY <1>3 DEF RecipientAccounts
  <2> HIDE DEF W
  <2>2. Sound(L, Owners) /\ Spares(bank, L, W, Users)
    BY <1>1, <2>1, InitIfNeededAtaFact, SparesOpen
  <2> QED BY <1>2, <2>2 DEF W
<1>4. CASE ~with_ata
  <2>1. L = bank /\ Extends(bank, bank, {}, Owners) /\ \A z \in W : bank.sol[z] \in Nat
    BY <1>1, <1>4, BankParts DEF RecipientAccounts, Extends
  <2> HIDE DEF W
  <2>2. Spares(bank, L, W, Users)
    BY <1>1, <2>1, SparesBy
  <2> QED BY <1>1, <1>2, <2>1, <2>2 DEF W
<1> QED BY <1>3, <1>4

\* A withdrawal costs the one that makes it the recipient's token account, and
\* takes from nobody else.
LEMMA WithdrawSpares ==
  ASSUME TypeInv, NEW k \in EscrowKeys, escrow[k].live, NEW s \in Secrets, NEW u \in Users,
         NEW with_ata \in BOOLEAN, Withdrawn(k, s, u, with_ata)
  PROVE  /\ WithdrawalCosts(k, u)
         /\ \A z \in Users \ {u} : SolGain(z) >= 0
         /\ \A z \in Users : KeepsTokens(z)
<1> DEFINE e == escrow[k]
           W == Users \ {u}
           t == k.creator
           b == RecipientAta(k)
           n == e.safety_deposit
           cost == IF with_ata /\ ~bank.ata[b].live THEN RENT_ATA ELSE 0
           L == RecipientAccounts(k, u, with_ata)
           P == ProcessPayout(L, k, e.token, e.asset_is_native, k.amount, e.recipient, t)
           D == PaySafetyDeposit(P, k, n, t, u)
           R == CloseAccount(D, k, t)
<1>1. Commit(R) /\ CloseEscrow(k)
  BY DEF Withdrawn, WithdrawBy, WithdrawBank
<1>2. /\ Users \in SUBSET Users /\ Users \in SUBSET Owners /\ W \in SUBSET Users
      /\ W \in SUBSET Owners /\ u \notin W /\ u \in Owners
      /\ k \in Owners /\ k \notin Users /\ t \in Owners /\ k # t /\ k # u
      /\ k.amount \in Nat /\ n \in Nat
      /\ e.token \in Mints /\ e.asset_is_native \in BOOLEAN /\ e.recipient \in Owners
      /\ k # e.recipient /\ b \in Atas(Owners) /\ b \in Atas(Users)
      /\ cost \in Nat
  BY KeyFact, EscrowFact, LedgerAssumption DEF TypeInv, RecipientAta, Ata, Atas
<1>3. Sound(bank, Owners) /\ bank.ok /\ bank.sol[u] \in Nat
  BY <1>2, SoundFact, BankParts
<1>4. /\ L = RecipientAccounts(k, u, with_ata)
      /\ P = ProcessPayout(L, k, e.token, e.asset_is_native, k.amount, e.recipient, t)
      /\ D = PaySafetyDeposit(P, k, n, t, u) /\ R = CloseAccount(D, k, t)
      /\ b = RecipientAta(k) /\ n = escrow[k].safety_deposit /\ t = k.creator
      /\ cost = IF with_ata /\ ~bank.ata[b].live THEN RENT_ATA ELSE 0
      /\ L = IF with_ata THEN InitIfNeededAta(bank, u, b) ELSE bank
      /\ W = Users \ {u}
  BY DEF RecipientAccounts
<1> HIDE DEF e, W, t, b, n, cost, L, P, D, R
<1>5. /\ Sound(L, Owners)
      /\ L.ok => L.sol[u] = bank.sol[u] - cost
      /\ (L.ok /\ with_ata) => L.ata[b].live
  <2>1. /\ b = RecipientAta(k) /\ L = RecipientAccounts(k, u, with_ata)
        /\ cost = IF with_ata /\ ~bank.ata[b].live THEN RENT_ATA ELSE 0
    BY <1>4
  <2>2. /\ Sound(L, Owners) /\ Spares(bank, L, Users \ {u}, Users)
        /\ L.ok => L.sol[u] = bank.sol[u] - cost
        /\ (L.ok /\ with_ata) => L.ata[b].live
    BY <2>1, RecipientAccountsSpares
  <2> QED BY <2>2
<1>6. Spares(bank, L, W, Users)
  <2>1. Spares(bank, L, Users \ {u}, Users)
    BY <1>4, RecipientAccountsSpares
  <2> QED BY <1>4, <2>1
<1>7. Sound(P, Owners) /\ Spares(L, P, Users, Users)
  BY <1>2, <1>4, <1>5, ProcessPayoutFact, SparesPayout
<1>8. Sound(D, Owners) /\ Spares(P, D, Users, Users)
  BY <1>2, <1>4, <1>7, PaySafetyDepositFact, SparesDeposit
<1>9. Sound(R, Owners) /\ Spares(D, R, Users, Users)
  BY <1>2, <1>4, <1>8, CloseAccountFact, SparesCloseAccount
<1>10. Spares(L, D, Users, Users)
  BY <1>2, <1>5, <1>7, <1>8, SparesTransitive
<1>11. Spares(L, R, Users, Users)
  BY <1>2, <1>5, <1>8, <1>9, <1>10, SparesTransitive
<1>12. Spares(bank, R, W, Users)
  <2>1. Spares(L, R, W, Users)
    BY <1>4, <1>11 DEF Spares
  <2> QED BY <1>2, <1>3, <1>5, <1>6, <1>9, <2>1, SparesTransitive
<1>13. (\A z \in W : SolGain(z) >= 0) /\ (\A z \in Users : KeepsTokens(z))
  BY <1>1, <1>2, <1>9, <1>12, SparedUser
<1>14. WithdrawalCosts(k, u)
  <2> DEFINE deposit == IF u = t THEN 0 ELSE n
  <2>1. R.ok /\ D.ok /\ P.ok /\ L.ok /\ bank' = R
    BY <1>1, <1>7, <1>8, <1>9 DEF Commit, Spares
  <2>2. /\ L.sol[u] \in Nat /\ P.sol[u] \in Nat /\ D.sol[u] \in Nat /\ R.sol[u] \in Nat
    BY <1>2, <1>5, <1>7, <1>8, <1>9, BankParts
  <2>3. P.sol[u] >= L.sol[u] /\ R.sol[u] >= D.sol[u]
    BY <1>7, <1>9, <2>1 DEF Spares
  <2>4. D.sol[u] = P.sol[u] + deposit
    <3>1. (u = t => D = P) /\ (u # t => D.sol[u] = P.sol[u] + n)
      BY <1>2, <1>4, <1>7, <2>1, PaySafetyDepositEffect
    <3> QED BY <2>2, <3>1
  <2>5. cost <= OpeningCost(b) /\ OpeningCost(b) \in Nat
    <3>1. with_ata => R.ata[b].live
      BY <1>2, <1>5, <1>11, <2>1 DEF Spares
    <3>2. OpeningCost(b) = IF R.ata[b].live /\ ~bank.ata[b].live THEN RENT_ATA ELSE 0
      BY <2>1 DEF OpeningCost
    <3>3. CASE with_ata /\ ~bank.ata[b].live
      <4>1. cost = RENT_ATA
        BY <1>4, <3>3
      <4>2. OpeningCost(b) = RENT_ATA
        BY <3>1, <3>2, <3>3
      <4> QED BY <4>1, <4>2, LedgerAssumption
    <3>4. CASE ~(with_ata /\ ~bank.ata[b].live)
      <4>1. cost = 0
        BY <1>4, <3>4
      <4> QED BY <3>2, <4>1, LedgerAssumption
    <3> QED BY <3>3, <3>4
  <2>6. SolGain(u) >= deposit - OpeningCost(b)
    <3>1. L.sol[u] = bank.sol[u] - cost
      BY <1>5, <2>1
    <3>2. deposit \in Nat
      BY <1>2
    <3> HIDE DEF deposit
    <3> QED BY <1>2, <1>3, <2>1, <2>2, <2>3, <2>4, <2>5, <3>1, <3>2 DEF SolGain
  <2>7. ~escrow'[k].live
    BY <1>1 DEF CloseEscrow, NoEscrow, TypeInv, TypeOK
  <2>8. Before(escrow[k].timelocks, "DstCancellation", now) /\ u \in resolver_access \cup {k.creator}
    BY DEF Withdrawn
  <2> QED BY <1>4, <2>6, <2>7, <2>8 DEF WithdrawalCosts
<1> QED BY <1>4, <1>13, <1>14

\* cancel and rescue_funds take from no user.
LEMMA CancelSpares ==
  ASSUME TypeInv, NEW k \in EscrowKeys, Cancel(k)
  PROVE  \A z \in Users : SolGain(z) >= 0 /\ KeepsTokens(z)
<1> DEFINE e == escrow[k]
           t == k.creator
           P == ProcessPayout(bank, k, e.token, e.asset_is_native, k.amount, t, t)
           M == CloseAccount(P, k, t)
<1>1. Commit(M)
  BY DEF Cancel, CancelBank
<1>2. /\ Users \in SUBSET Users /\ Users \in SUBSET Owners /\ k \in Owners /\ k \notin Users
      /\ t \in Owners /\ k # t /\ k.amount \in Nat
      /\ e.token \in Mints /\ e.asset_is_native \in BOOLEAN
  BY KeyFact, EscrowFact DEF TypeInv
<1>3. /\ P = ProcessPayout(bank, k, e.token, e.asset_is_native, k.amount, t, t)
      /\ M = CloseAccount(P, k, t)
  OBVIOUS
<1> HIDE DEF e, t, P, M
<1>4. Sound(P, Owners) /\ Spares(bank, P, Users, Users)
  BY <1>2, <1>3, SoundFact, ProcessPayoutFact, SparesPayout
<1>5. Sound(M, Owners) /\ Spares(P, M, Users, Users)
  BY <1>2, <1>3, <1>4, CloseAccountFact, SparesCloseAccount
<1>6. Spares(bank, M, Users, Users)
  BY <1>2, <1>4, <1>5, SoundFact, SparesTransitive
<1> QED BY <1>1, <1>2, <1>5, <1>6, SparedUser

\* A rescue takes nothing from a user.
LEMMA RescueSpares ==
  ASSUME TypeInv, NEW k \in EscrowKeys, NEW m \in Mints,
         NEW n \in 0..bank.ata[Ata(k, m)].amount, RescueFundsForEscrow(k, m, n)
  PROVE  \A z \in Users : SolGain(z) >= 0 /\ KeepsTokens(z)
<1> DEFINE M == RescueFunds(bank, k, k.creator, m, n)
<1>1. Commit(M)
  BY DEF RescueFundsForEscrow
<1>2. /\ k \in Owners /\ k.creator \in Owners /\ k # k.creator /\ k \notin Users /\ n \in Nat
      /\ Users \in SUBSET Users /\ Users \in SUBSET Owners
  BY KeyFact
<1>3. Sound(M, Owners) /\ Spares(bank, M, Users, Users)
  BY <1>2, SoundFact, RescueFundsFact, SparesRescue
<1> HIDE DEF M
<1> QED BY <1>1, <1>2, <1>3, SparedUser

\* An outsider transfers what is its own.
LEMMA OutsideSpares ==
  ASSUME TypeInv, NEW u \in Outsiders, NEW a \in Atas(Owners),
         OutsideOpen(u, a) \/ (a[1] # u /\ OutsideStep(u, a))
  PROVE  \A z \in Users \ {u} : SolGain(z) >= 0 /\ KeepsTokens(z)
<1> DEFINE b == Ata(u, a[2])
           W == Users \ {u}
<1>1. /\ u \in Owners /\ u \notin W /\ b \in Atas(Owners) /\ b \notin Atas(W)
      /\ a[1] # u => a # b
      /\ W \in SUBSET Users /\ W \in SUBSET Owners
  BY KeyFact, EscrowDstAssumption DEF Atas, Ata
<1>2. Sound(bank, Owners)
  BY SoundFact
<1> HIDE DEF b, W
<1>3. ASSUME NEW M, Sound(M, Owners), Spares(bank, M, W, W), Commit(M)
      PROVE  \A z \in W : SolGain(z) >= 0 /\ KeepsTokens(z)
  BY <1>1, <1>3, SparedUser
<1>4. CASE OutsideOpen(u, a)
  <2> DEFINE M == OpenAta(bank, u, a)
  <2>1. Commit(M)
    BY <1>4 DEF OutsideOpen
  <2>2. Sound(M, Owners) /\ Spares(bank, M, W, W)
    BY <1>1, <1>2, OpenAtaFact, SparesOpen
  <2> QED BY <1>3, <2>1, <2>2 DEF W
<1>5. ASSUME a[1] # u, NEW n \in 1..bank.ata[b].amount, OutsideDeposit(u, a, n)
      PROVE  \A z \in W : SolGain(z) >= 0 /\ KeepsTokens(z)
  <2> DEFINE M == TransferTokens(bank, b, a, n)
  <2>1. Commit(M) /\ n \in Nat /\ a # b
    BY <1>1, <1>5 DEF OutsideDeposit, b
  <2>2. Sound(M, Owners) /\ Spares(bank, M, W, W)
    BY <1>1, <1>2, <2>1, TransferTokensFact, SparesTransfer
  <2> QED BY <1>3, <2>1, <2>2
<1>6. ASSUME NEW n \in 1..bank.sol[u], OutsideLamports(u, a, n)
      PROVE  \A z \in W : SolGain(z) >= 0 /\ KeepsTokens(z)
  <2> DEFINE M == FundAta(bank, u, a, n)
  <2>1. Commit(M) /\ n \in Nat
    BY <1>6 DEF OutsideLamports
  <2>2. Sound(M, Owners) /\ Spares(bank, M, W, W)
    BY <1>1, <1>2, <2>1, FundAtaFact, SparesFund
  <2> QED BY <1>3, <2>1, <2>2
<1>7. CASE OutsideSync(a)
  <2> DEFINE M == SyncNative(bank, a)
  <2>1. Commit(M)
    BY <1>7 DEF OutsideSync
  <2>2. Sound(M, Owners) /\ Spares(bank, M, W, W)
    BY <1>1, <1>2, SyncNativeFact, SparesSync
  <2> QED BY <1>3, <2>1, <2>2 DEF W
<1> QED BY <1>4, <1>5, <1>6, <1>7 DEF OutsideStep, b, W

\* A user closes token accounts of its own.
LEMMA CloseOwnSpares ==
  ASSUME TypeInv, NEW a \in Closers \X Mints, CloseOwnAta(a)
  PROVE  \A z \in Users \ {a[1]} : SolGain(z) >= 0 /\ KeepsTokens(z)
<1> DEFINE W == Users \ {a[1]}
           M == CloseAta(bank, a, a[1])
<1>1. /\ a[1] \in Owners /\ a \in Atas(Owners) /\ a \notin Atas(W)
      /\ W \in SUBSET Users /\ W \in SUBSET Owners
  BY KeyFact, EscrowDstAssumption DEF Atas
<1>2. Commit(M)
  BY DEF CloseOwnAta
<1> HIDE DEF W
<1>3. Sound(M, Owners) /\ Spares(bank, M, W, W)
  BY <1>1, SoundFact, CloseAtaFact, SparesCloseAta
<1> HIDE DEF M
<1>4. \A z \in W : SolGain(z) >= 0 /\ KeepsTokens(z)
  BY <1>1, <1>2, <1>3, SparedUser
<1> QED BY <1>4 DEF W

\* Every step takes from nobody but creators, withdrawers and those that act outside.
LEMMA NextPays ==
  ASSUME TypeInv, [Next]_vars
  PROVE  CreatorsPay
<1>1. ASSUME \A u \in Users : SolGain(u) >= 0 /\ KeepsTokens(u)
      PROVE  CreatorsPay
  BY <1>1 DEF CreatorsPay
<1>2. CASE \/ Tick \/ \E s \in Secrets : RevealSecret(s)
           \/ \E u \in Resolvers : Register(u) \/ Deregister(u)
           \/ UNCHANGED vars
  <2>1. bank' = bank
    BY <1>2 DEF Tick, RevealSecret, Register, Deregister, vars
  <2>2. \A u \in Users : bank.sol[u] \in Nat /\ \A m \in Mints : bank.ata[Ata(u, m)].amount \in Nat
    BY SoundFact, KeyFact, BankParts DEF Ata, Atas
  <2> QED BY <1>1, <2>1, <2>2 DEF SolGain, KeepsTokens
<1>3. ASSUME NEW k \in EscrowKeys, NEW s \in Secrets, NEW u \in Users, NEW with_ata \in BOOLEAN,
             Withdrawn(k, s, u, with_ata)
      PROVE  CreatorsPay
  <2>1. escrow[k].live
    BY <1>3 DEF Withdrawn, WithdrawBy
  <2>2. /\ WithdrawalCosts(k, u)
        /\ \A z \in Users \ {u} : SolGain(z) >= 0
        /\ \A z \in Users : KeepsTokens(z)
    BY <1>3, <2>1, WithdrawSpares
  <2> QED BY <2>2 DEF CreatorsPay
<1>4. ASSUME NEW k \in EscrowKeys, EscrowStep(k) PROVE CreatorsPay
  <2>1. ASSUME NEW offer \in Offers, Create(k, offer) PROVE CreatorsPay
    <3>1. ~escrow[k].live /\ escrow'[k].live
      BY <2>1 DEF Create, TypeInv, TypeOK
    <3> QED BY <2>1, <3>1, CreateSpares DEF CreatorsPay
  <2>2. CASE \/ \E s \in Secrets, with_ata \in BOOLEAN : Withdraw(k, s, with_ata)
             \/ \E s \in Secrets, payer \in Users, with_ata \in BOOLEAN :
                  PublicWithdraw(k, s, payer, with_ata)
    <3>1. PICK s \in Secrets, u \in Users, with_ata \in BOOLEAN : Withdrawn(k, s, u, with_ata)
      BY <2>2, KeyFact DEF Withdraw, PublicWithdraw, WithdrawOpen, Withdrawn
    <3> QED BY <1>3, <3>1
  <2>3. CASE Cancel(k)
    BY <1>1, <2>3, CancelSpares
  <2>4. ASSUME NEW m \in Mints, NEW n \in 0..bank.ata[Ata(k, m)].amount,
               RescueFundsForEscrow(k, m, n)
        PROVE  CreatorsPay
    BY <1>1, <2>4, RescueSpares
  <2> QED BY <1>4, <2>1, <2>2, <2>3, <2>4 DEF EscrowStep
<1>5. ASSUME escrow' = escrow, NEW u \in Outsiders \cup Closers,
             \A z \in Users \ {u} : SolGain(z) >= 0 /\ KeepsTokens(z)
      PROVE  CreatorsPay
  BY <1>5 DEF CreatorsPay
<1>6. ASSUME NEW u \in Outsiders, NEW a \in EscrowKeys \X Mints, OutsideStep(u, a)
      PROVE  CreatorsPay
  <2>1. a \in Atas(Owners) /\ a[1] # u
    BY KeyFact, EscrowDstAssumption DEF Atas
  <2>2. escrow' = escrow
    BY <1>6 DEF OutsideStep, OutsideOpen, OutsideDeposit, OutsideLamports, OutsideSync, BankOnly
  <2> QED BY <1>5, <1>6, <2>1, <2>2, OutsideSpares
<1>7. ASSUME NEW u \in Outsiders, NEW a \in Users \X Mints, OutsideOpen(u, a)
      PROVE  CreatorsPay
  <2>1. a \in Atas(Owners) /\ escrow' = escrow
    BY <1>7, KeyFact DEF Atas, OutsideOpen, BankOnly
  <2> QED BY <1>5, <1>7, <2>1, OutsideSpares
<1>8. ASSUME NEW a \in Closers \X Mints, CloseOwnAta(a) PROVE CreatorsPay
  <2>1. a[1] \in Closers /\ escrow' = escrow
    BY <1>8 DEF CloseOwnAta, BankOnly
  <2> QED BY <1>5, <1>8, <2>1, CloseOwnSpares
<1> QED BY <1>2, <1>4, <1>6, <1>7, <1>8 DEF Next

\* An instruction of the program takes nothing from anybody but the creator of the
\* escrow that it creates and, at most what the recipient's token account costs, the
\* one that withdraws; it closes no user's token account (every handler).
THEOREM OthersPayNothing == Spec => OnlyCreatorsPay
<1>1. TypeInv /\ [Next]_vars => CreatorsPay
  BY NextPays
<1> QED BY <1>1, TypesInvariant, PTL DEF Spec, OnlyCreatorsPay

=============================================================================
