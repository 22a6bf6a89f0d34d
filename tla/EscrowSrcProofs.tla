--------------------------- MODULE EscrowSrcProofs ---------------------------
(***************************************************************************)
(* Proofs about EscrowSrc for every value of its constants.                *)
(*                                                                         *)
(* The inductive invariant is Inv below.  TypeOK alone is not inductive:   *)
(* that the calls of the Ledger stay in Nat needs the reserve behind each  *)
(* open token account (Backed), and so does the wrapping of an order's     *)
(* lamports.  EscrowFunded needs OrderFunded, because an escrow is funded  *)
(* out of its order.  That nobody but an order's maker and an escrow's     *)
(* taker pays follows from TypeInv and what each operator spares.          *)
(***************************************************************************)
EXTENDS EscrowSrcProperties, LedgerProofs

TypeInv == TypeOK /\ Backed(bank, Owners)

\* What a step does to the bank: no token account outside S changes.
Touches(S) ==
  /\ Sound(bank', Owners) /\ bank'.ok
  /\ \A b \in Atas(Owners) \ S : bank'.ata[b] = bank.ata[b]

-----------------------------------------------------------------------------
\* Addresses and constants.

\* The parts of an escrow's address, and the addresses' token accounts.
LEMMA EscrowKeyFact ==
  ASSUME NEW k \in EscrowKeys
  PROVE  /\ k.order \in Orders /\ k.taker \in Users /\ k.amount \in Nat
         /\ Maker(k) \in Users /\ Token(k.order) \in Mints
         /\ EscrowAta(k) = <<k, Token(k.order)>> /\ EscrowAta(k) \in Atas(Owners)
<1>1. k.order \in Orders /\ k.taker \in Users /\ k.amount \in Nat
  BY EscrowSrcAssumption
<1>2. Maker(k) \in Users /\ Token(k.order) \in Mints
  BY <1>1, TermsAssumption DEF TermsSet, Maker, Token
<1> QED BY <1>1, <1>2 DEF EscrowAta, Ata, Atas, Owners

\* The terms of an order.
LEMMA OrderFact ==
  ASSUME NEW o \in Orders
  PROVE  /\ Terms[o].creator \in Users /\ Token(o) \in Mints
         /\ Terms[o].amount \in Nat /\ Terms[o].safety_deposit \in Nat
         /\ Terms[o].timelocks \in TimelockWords
         /\ Terms[o].asset_is_native \in BOOLEAN
         /\ Terms[o].allow_multiple_fills \in BOOLEAN
         /\ \A p \in Proofs(o) : p.index \in Nat
         /\ OrderAta(o) = <<o, Token(o)>> /\ OrderAta(o) \in Atas(Owners)
<1>1. Terms[o] \in TermsSet
  BY TermsAssumption
<1>2. \A p \in Proofs(o) : p.index \in Nat
  BY <1>1 DEF TermsSet, Proofs
<1> QED BY <1>1, <1>2, WidthsAssumption DEF TermsSet, Token, OrderAta, Ata, Atas, Owners, U64

\* The three kinds of owners are disjoint, so their token accounts are.
LEMMA Disjoint ==
  /\ Users \subseteq Owners /\ Orders \subseteq Owners /\ EscrowKeys \subseteq Owners
  /\ \A o \in Orders : o \notin Users /\ o \notin EscrowKeys
  /\ \A k \in EscrowKeys : k \notin Users
BY EscrowSrcAssumption DEF Owners

\* A quotient of naturals does not exceed the dividend.
LEMMA DivFact ==
  ASSUME NEW x \in Nat, NEW d \in Nat \ {0}
  PROVE  x \div d \in 0..x
OBVIOUS

\* A product of naturals is a natural.
LEMMA TimesFact ==
  ASSUME NEW x \in Nat, NEW y \in Nat
  PROVE  x * y \in Nat
OBVIOUS

-----------------------------------------------------------------------------
\* The bank operators of EscrowSrc.

\* The deposit of an order puts at least its amount in the order's ATA,
\* wrapped or not.
LEMMA DepositOrderFact ==
  ASSUME NEW o \in Orders, NEW L, Sound(L, Owners), L.ok => L.ata[OrderAta(o)].live,
         NEW R, R = DepositOrder(L, o)
  PROVE  /\ Sound(R, Owners)
         /\ Extends(L, R, {OrderAta(o), AtaOf(Terms[o].creator, o)}, Owners)
         /\ R.ok => /\ R.ata[OrderAta(o)].live
                    /\ R.ata[OrderAta(o)].amount >= Terms[o].amount
<1> DEFINE a == OrderAta(o)
           b == AtaOf(Terms[o].creator, o)
           n == Terms[o].amount
<1>1. /\ a \in Atas(Owners) /\ b \in Atas(Owners) /\ a # b
      /\ n \in Nat /\ Terms[o].creator \in Owners
  BY OrderFact, Disjoint DEF AtaOf, Ata, Atas
<1>2. L.ata[a] \in AtaState
  BY <1>1 DEF Sound, Bank, Atas
<1>3. L.ok => L.ata[a].live
  OBVIOUS
<1>4. DepositOrder(L, o) = IF Terms[o].asset_is_native
                           THEN SyncNative(UniTransferToAta(L, Terms[o].creator, a, n), a)
                           ELSE UniTransferToken(L, b, a, n)
  BY DEF DepositOrder
<1> HIDE DEF a, b, n
<1>5. CASE Terms[o].asset_is_native
  <2> DEFINE T == UniTransferToAta(L, Terms[o].creator, a, n)
             M == SyncNative(T, a)
  <2>1. /\ Sound(T, Owners) /\ Extends(L, T, {a}, Owners)
        /\ T.ok => /\ L.ata[a].live => T.ata[a].live
                   /\ T.ata[a].lamports = L.ata[a].lamports + n
    BY <1>1, <1>2, UniTransferToAtaFact DEF AtaState
  <2>2. DepositOrder(L, o) = M
    BY <1>4, <1>5
  <2> HIDE DEF T
  <2>3. /\ Sound(M, Owners) /\ Extends(T, M, {a}, Owners)
        /\ M.ok => M.ata[a].live /\ M.ata[a].amount = T.ata[a].lamports - RENT_ATA
    BY <1>1, <2>1, SyncNativeFact
  <2> HIDE DEF M
  <2>4. M.ok => T.ok /\ L.ok
    BY <2>1, <2>3 DEF Extends
  <2>5. M.ok => L.ata[a].lamports >= RENT_ATA
    BY <1>1, <1>2, <1>3, <2>4, LedgerAssumption DEF Sound, Backed, TokenLamports, AtaState
  <2>6. M.ok => M.ata[a].amount >= n
    BY <1>1, <1>2, <1>3, <2>1, <2>3, <2>4, <2>5, LedgerAssumption DEF AtaState
  <2>7. Extends(L, M, {a, b}, Owners)
    BY <2>1, <2>3, ExtendsTransitive
  <2> QED BY <2>2, <2>3, <2>6, <2>7 DEF a, b, n
<1>6. CASE ~Terms[o].asset_is_native
  <2> DEFINE M == UniTransferToken(L, b, a, n)
  <2>1. /\ Sound(M, Owners) /\ Extends(L, M, {b, a}, Owners)
        /\ (M.ok /\ L.ata[a].live) =>
             M.ata[a].live /\ M.ata[a].amount = L.ata[a].amount + n
    BY <1>1, UniTransferTokenFact
  <2>2. DepositOrder(L, o) = M
    BY <1>4, <1>6
  <2> HIDE DEF M
  <2>3. M.ok => L.ok
    BY <2>1 DEF Extends
  <2>4. Extends(L, M, {a, b}, Owners)
    BY <2>1 DEF Extends
  <2> QED BY <1>1, <1>2, <1>3, <2>1, <2>2, <2>3, <2>4 DEF AtaState, a, b, n
<1> QED BY <1>5, <1>6 DEF a, b, n

\* The close of an order changes no token account but the order's.
LEMMA CloseOrderFact ==
  ASSUME NEW o \in Orders, NEW L, Sound(L, Owners), NEW u \in Owners,
         NEW R, R = CloseOrder(L, o, u)
  PROVE  Sound(R, Owners) /\ Extends(L, R, {OrderAta(o)}, Owners)
<1> DEFINE C == CloseAta(L, OrderAta(o), u)
           M == CloseAccount(C, o, u)
<1>1. Sound(C, Owners) /\ Extends(L, C, {OrderAta(o)}, Owners)
  BY OrderFact, CloseAtaFact
<1>2. CloseOrder(L, o, u) = M
  BY DEF CloseOrder
<1> HIDE DEF C
<1>3. Sound(M, Owners) /\ Extends(C, M, {}, Owners)
  BY <1>1, Disjoint, CloseAccountFact
<1> HIDE DEF M
<1> QED BY <1>1, <1>2, <1>3 DEF Extends

\* A fill puts what it transfers in the escrow's ATA and, unless it is the
\* order's last, leaves the rest in the order's.
LEMMA FillBankFact ==
  ASSUME NEW k \in EscrowKeys, Sound(bank, Owners), bank.ata[OrderAta(k.order)].live,
         NEW R, R = FillBank(k),
         NEW n, n = AmountToTransfer(k.order, k.amount),
         NEW a, a = OrderAta(k.order),
         NEW b, b = EscrowAta(k)
  PROVE  /\ Sound(R, Owners) /\ Extends(bank, R, {a, b}, Owners)
         /\ R.ok => R.ata[b].live /\ R.ata[b].amount >= n
         /\ (R.ok /\ ~LastFill(k.order, k.amount)) =>
              R.ata[a].live /\ R.ata[a].amount = bank.ata[a].amount - n
<1> DEFINE I == InitAccount(bank, k.taker, k, RENT_ESCROW)
           A == InitIfNeededAta(I, k.taker, b)
           T == UniTransferToken(A, a, b, n)
           M == CloseOrder(T, k.order, Maker(k))
<1>1. /\ a \in Atas(Owners) /\ b \in Atas(Owners) /\ a # b
      /\ k \in Owners /\ k.order \in Orders /\ k.taker \in Owners
      /\ Maker(k) \in Owners /\ k.amount \in Nat
  BY OrderFact, EscrowKeyFact, Disjoint
<1>2. bank.ata[a].amount \in Nat
  BY <1>1 DEF Sound, Bank, Atas, AtaState
<1>3. n \in Nat
  BY <1>1, <1>2 DEF AmountToTransfer
<1>4. FillBank(k) = IF LastFill(k.order, k.amount) THEN M ELSE T
  BY DEF FillBank, FillAccounts
<1>5. Sound(I, Owners) /\ Extends(bank, I, {}, Owners)
  BY <1>1, MoveLamportsFact, EscrowSrcAssumption DEF InitAccount
<1> HIDE DEF I
<1>6. /\ Sound(A, Owners) /\ Extends(I, A, {b}, Owners)
      /\ A.ok => A.ata[b].live
  BY <1>1, <1>5, InitIfNeededAtaFact
<1>7. A.ata[a] = bank.ata[a]
  BY <1>1, <1>5, <1>6 DEF Extends
<1> HIDE DEF A
<1>8. A.ata[a] \in AtaState /\ A.ata[b] \in AtaState
  BY <1>1, <1>6 DEF Sound, Bank, Atas
<1>9. /\ Sound(T, Owners) /\ Extends(A, T, {a, b}, Owners)
      /\ (T.ok /\ A.ata[a].live) => T.ata[a].live /\ T.ata[a].amount = A.ata[a].amount - n
      /\ (T.ok /\ A.ata[b].live) => T.ata[b].live /\ T.ata[b].amount = A.ata[b].amount + n
  BY <1>1, <1>3, <1>6, <1>8, UniTransferTokenFact DEF AtaState
<1> HIDE DEF T
<1>10. T.ok => /\ T.ata[b].live /\ T.ata[b].amount >= n
               /\ T.ata[a].live /\ T.ata[a].amount = bank.ata[a].amount - n
  <2>1. T.ok => A.ok
    BY <1>9 DEF Extends
  <2> QED BY <1>3, <1>6, <1>7, <1>8, <1>9, <2>1 DEF AtaState
<1>11. Extends(bank, T, {a, b}, Owners)
  BY <1>5, <1>6, <1>9 DEF Extends
<1>12. Sound(M, Owners) /\ Extends(T, M, {a}, Owners)
  BY <1>1, <1>9, CloseOrderFact
<1> HIDE DEF M
<1>13. Extends(bank, M, {a, b}, Owners)
  BY <1>11, <1>12, ExtendsTransitive
<1>14. M.ok => T.ok /\ M.ata[b] = T.ata[b]
  BY <1>1, <1>12 DEF Extends
<1> QED BY <1>4, <1>9, <1>10, <1>11, <1>12, <1>13, <1>14

\* A withdrawal changes the token accounts of the escrow and of its taker.
LEMMA WithdrawBankFact ==
  ASSUME NEW k \in EscrowKeys, Sound(bank, Owners), NEW u \in Users,
         NEW R, R = WithdrawBank(k, u)
  PROVE  /\ Sound(R, Owners)
         /\ Extends(bank, R, {EscrowAta(k), AtaOf(k.taker, k.order)}, Owners)
<1> DEFINE b == AtaOf(k.taker, k.order)
           W == WithdrawAndCloseTokenAta(bank, EscrowAta(k), b, k.taker)
           D == PaySafetyDeposit(W, k, Terms[k.order].safety_deposit, k.taker, u)
           M == CloseAccount(D, k, k.taker)
<1>1. /\ EscrowAta(k) \in Atas(Owners) /\ b \in Atas(Owners) /\ EscrowAta(k) # b
      /\ k \in Owners /\ k.taker \in Owners /\ u \in Owners
  BY EscrowKeyFact, Disjoint DEF AtaOf, Ata, Atas
<1>2. Terms[k.order].safety_deposit \in Nat
  BY EscrowKeyFact, OrderFact
<1>3. R = M
  BY DEF WithdrawBank
<1> HIDE DEF b
<1>4. Sound(W, Owners) /\ Extends(bank, W, {EscrowAta(k), b}, Owners)
  BY <1>1, WithdrawAndCloseFact
<1> HIDE DEF W
<1>5. Sound(D, Owners) /\ Extends(W, D, {}, Owners)
  BY <1>1, <1>2, <1>4, PaySafetyDepositFact
<1> HIDE DEF D
<1>6. Sound(M, Owners) /\ Extends(D, M, {}, Owners)
  BY <1>1, <1>5, CloseAccountFact
<1> HIDE DEF M
<1>7. Extends(bank, M, {EscrowAta(k), b}, Owners)
  BY <1>4, <1>5, <1>6 DEF Extends
<1> QED BY <1>3, <1>6, <1>7 DEF b

\* A cancellation changes the token accounts of the escrow and of its maker.
LEMMA CancelBankFact ==
  ASSUME NEW k \in EscrowKeys, Sound(bank, Owners), NEW u \in Users,
         NEW R, R = CancelBank(k, u)
  PROVE  /\ Sound(R, Owners)
         /\ Extends(bank, R, {EscrowAta(k), AtaOf(Maker(k), k.order)}, Owners)
<1> DEFINE t == Terms[k.order]
           P == ProcessPayout(bank, k, t.token, t.asset_is_native, k.amount, t.creator, k.taker)
           D == PaySafetyDeposit(P, k, t.safety_deposit, k.taker, u)
           M == CloseAccount(D, k, k.taker)
<1>1. /\ k \in Owners /\ k.taker \in Owners /\ u \in Owners /\ k.amount \in Nat
      /\ t.creator \in Owners /\ k # t.creator
  BY EscrowKeyFact, OrderFact, Disjoint
<1>2. t.safety_deposit \in Nat /\ t.asset_is_native \in BOOLEAN /\ t.token \in Mints
  BY EscrowKeyFact, OrderFact DEF Token
<1>3. R = M
  BY DEF CancelBank
<1>4. /\ Ata(k, t.token) = EscrowAta(k)
      /\ Ata(t.creator, t.token) = AtaOf(Maker(k), k.order)
  BY DEF EscrowAta, AtaOf, Maker, Token
<1> HIDE DEF t
<1>5. Sound(P, Owners) /\ Extends(bank, P, {EscrowAta(k), AtaOf(Maker(k), k.order)}, Owners)
  BY <1>1, <1>2, <1>4, ProcessPayoutFact
<1> HIDE DEF P
<1>6. Sound(D, Owners) /\ Extends(P, D, {}, Owners)
  BY <1>1, <1>2, <1>5, PaySafetyDepositFact
<1> HIDE DEF D
<1>7. Sound(M, Owners) /\ Extends(D, M, {}, Owners)
  BY <1>1, <1>6, CloseAccountFact
<1> HIDE DEF M
<1>8. Extends(bank, M, {EscrowAta(k), AtaOf(Maker(k), k.order)}, Owners)
  BY <1>5, <1>6, <1>7 DEF Extends
<1> QED BY <1>3, <1>7, <1>8

\* A refund of an order changes its own token account and its maker's.
LEMMA RefundTokensFact ==
  ASSUME NEW o \in Orders, NEW L, Sound(L, Owners), NEW R, R = RefundTokens(L, o)
  PROVE  /\ Sound(R, Owners)
         /\ Extends(L, R, {OrderAta(o), AtaOf(Terms[o].creator, o)}, Owners)
<1> DEFINE a == OrderAta(o)
           b == AtaOf(Terms[o].creator, o)
           n == L.ata[a].amount
<1>1. a \in Atas(Owners) /\ b \in Atas(Owners) /\ a # b
  BY OrderFact, Disjoint DEF AtaOf, Ata, Atas
<1>2. n \in Nat
  BY <1>1 DEF Sound, Bank, Atas, AtaState
<1>3. R = IF Terms[o].asset_is_native THEN L ELSE UniTransferToken(L, a, b, n)
  BY DEF RefundTokens
<1> HIDE DEF a, b, n
<1>4. CASE Terms[o].asset_is_native
  BY <1>3, <1>4 DEF Extends
<1>5. CASE ~Terms[o].asset_is_native
  BY <1>1, <1>2, <1>3, <1>5, UniTransferTokenFact DEF a, b
<1> QED BY <1>4, <1>5

\* So do the two cancellations of an order.
LEMMA CancelOrderBankFact ==
  ASSUME NEW o \in Orders, Sound(bank, Owners),
         NEW R, R = CloseOrder(RefundTokens(bank, o), o, Terms[o].creator)
  PROVE  /\ Sound(R, Owners)
         /\ Extends(bank, R, {OrderAta(o), AtaOf(Terms[o].creator, o)}, Owners)
<1> DEFINE T == RefundTokens(bank, o)
<1>1. /\ Sound(T, Owners)
      /\ Extends(bank, T, {OrderAta(o), AtaOf(Terms[o].creator, o)}, Owners)
  BY RefundTokensFact
<1> HIDE DEF T
<1>2. R = CloseOrder(T, o, Terms[o].creator)
  BY DEF T
<1>3. Sound(R, Owners) /\ Extends(T, R, {OrderAta(o)}, Owners)
  BY <1>1, <1>2, OrderFact, Disjoint, CloseOrderFact
<1> QED BY <1>1, <1>3, ExtendsTransitive

\* The cancellation auction's premium is a natural number; its duration may be
\* zero, but then nothing is divided by it.
LEMMA PremiumFact ==
  ASSUME NEW o \in Orders, now \in Nat
  PROVE  Premium(o) \in Nat
<1> DEFINE start == Terms[o].expiration_time
           duration == Terms[o].cancellation_auction_duration
           max == Terms[o].max_cancellation_premium
<1>1. start \in Nat /\ duration \in Nat /\ max \in Nat
  BY TermsAssumption, WidthsAssumption DEF TermsSet, U32, U64
<1>2. Premium(o) = CalculatePremium(now, start, duration, max)
  BY DEF Premium
<1> HIDE DEF start, duration, max
<1>3. CASE now > start /\ now - start < duration
  <2>1. now - start \in Nat /\ duration \in Nat \ {0}
    BY <1>1, <1>3
  <2>2. (now - start) * max \in Nat
    BY <1>1, <2>1, TimesFact
  <2>3. ((now - start) * max) \div duration \in Nat
    BY <2>1, <2>2, DivFact
  <2> QED BY <1>1, <1>2, <1>3, <2>3 DEF CalculatePremium
<1>4. CASE ~(now > start /\ now - start < duration)
  BY <1>1, <1>2, <1>4 DEF CalculatePremium
<1> QED BY <1>3, <1>4

\* With a cancellation by a resolver only the resolver's lamports change besides.
LEMMA ResolverCancelBankFact ==
  ASSUME NEW o \in Orders, NEW u \in Users, NEW limit \in RewardLimits,
         Sound(bank, Owners), now \in Nat,
         NEW R, R = ResolverCancelBank(o, u, limit)
  PROVE  /\ Sound(R, Owners)
         /\ Extends(bank, R, {OrderAta(o), AtaOf(Terms[o].creator, o)}, Owners)
<1> DEFINE S == {OrderAta(o), AtaOf(Terms[o].creator, o)}
           refunded == Terms[o].creator
           T == RefundTokens(bank, o)
           lamports == T.ata[OrderAta(o)].lamports
           reward == ResolverReward(o, limit)
           C == CloseAta(T, OrderAta(o), u)
           U == UniTransferNative(C, u, refunded, lamports - reward)
           M == Attempt(C, reward <= lamports, U)
           F == CloseAccount(M, o, refunded)
<1>1. /\ o \in Owners /\ refunded \in Owners /\ u \in Owners
      /\ OrderAta(o) \in Atas(Owners) /\ OrderAta(o) \in S
  BY OrderFact, Disjoint
<1>2. reward \in Nat
  BY PremiumFact, EscrowSrcAssumption DEF ResolverReward
<1>3. R = F
  BY DEF ResolverCancelBank
<1>4. Sound(T, Owners) /\ Extends(bank, T, S, Owners)
  BY RefundTokensFact
<1> HIDE DEF S, refunded, T, reward
<1>5. lamports \in Nat
  BY <1>1, <1>4 DEF Sound, Bank, Atas, AtaState
<1>6. Sound(C, Owners) /\ Extends(T, C, {OrderAta(o)}, Owners)
  BY <1>1, <1>4, CloseAtaFact
<1> HIDE DEF lamports, C
<1>7. Sound(M, Owners) /\ Extends(C, M, {}, Owners)
  <2>1. CASE C.ok /\ reward <= lamports
    <3>1. lamports - reward \in Nat
      BY <1>2, <1>5, <2>1
    <3>2. Sound(U, Owners) /\ Extends(C, U, {}, Owners)
      BY <1>1, <1>6, <3>1, UniTransferNativeFact
    <3>3. M = U
      BY <2>1 DEF Attempt
    <3> QED BY <3>2, <3>3
  <2>2. CASE ~(C.ok /\ reward <= lamports)
    <3>1. M = [C EXCEPT !.ok = FALSE]
      BY <2>2 DEF Attempt
    <3> QED BY <1>6, <3>1, Fail DEF Sound, Backed, Extends
  <2> QED BY <2>1, <2>2
<1> HIDE DEF M
<1>8. Sound(F, Owners) /\ Extends(M, F, {}, Owners)
  BY <1>1, <1>7, CloseAccountFact
<1> HIDE DEF F
<1>9. Extends(bank, F, S, Owners)
  BY <1>1, <1>4, <1>6, <1>7, <1>8 DEF Extends
<1> QED BY <1>3, <1>8, <1>9 DEF S

-----------------------------------------------------------------------------
\* What each action does to the bank.

\* The bank that is committed is sound if the chain of calls keeps it so.
LEMMA CommitFact ==
  ASSUME NEW L, NEW S, Sound(L, Owners), Extends(bank, L, S, Owners), Commit(L)
  PROVE  Touches(S)
BY DEF Touches, Commit, Extends

\* The bank before a step is sound.
LEMMA SoundFact ==
  ASSUME TypeInv
  PROVE  Sound(bank, Owners) /\ bank.ok /\ now \in Nat
BY EscrowSrcAssumption, WidthsAssumption DEF TypeInv, TypeOK, Sound, U32

\* create leaves the order's ATA with the order's amount or more.
LEMMA CreateTouches ==
  ASSUME TypeInv, NEW o \in Orders, Create(o)
  PROVE  /\ Touches({OrderAta(o), AtaOf(Terms[o].creator, o)})
         /\ bank'.ata[OrderAta(o)].live
         /\ bank'.ata[OrderAta(o)].amount >= Terms[o].amount
<1> DEFINE u == Terms[o].creator
           a == OrderAta(o)
           b == AtaOf(Terms[o].creator, o)
           I == InitAccount(bank, u, o, RENT_ORDER)
           A == InitIfNeededAta(I, u, a)
           D == DepositOrder(A, o)
<1>1. Commit(D)
  BY DEF Create, CreateAccounts
<1>2. u \in Owners /\ o \in Owners /\ a \in Atas(Owners) /\ RENT_ORDER \in Nat
  BY OrderFact, Disjoint, EscrowSrcAssumption
<1> HIDE DEF u, a
<1>3. Sound(I, Owners) /\ Extends(bank, I, {}, Owners)
  BY <1>2, SoundFact, MoveLamportsFact DEF InitAccount
<1> HIDE DEF I
<1>4. Sound(A, Owners) /\ Extends(I, A, {a}, Owners) /\ (A.ok => A.ata[a].live)
  BY <1>2, <1>3, InitIfNeededAtaFact
<1> HIDE DEF A
<1>5. A.ok => A.ata[OrderAta(o)].live
  BY <1>4 DEF a
<1>6. /\ Sound(D, Owners) /\ Extends(A, D, {OrderAta(o), b}, Owners)
      /\ D.ok => /\ D.ata[OrderAta(o)].live
                 /\ D.ata[OrderAta(o)].amount >= Terms[o].amount
  BY <1>4, <1>5, DepositOrderFact
<1> HIDE DEF D, b
<1>7. Extends(bank, D, {OrderAta(o), b}, Owners)
  BY <1>3, <1>4, <1>6 DEF Extends, a
<1>8. Touches({OrderAta(o), b})
  BY <1>1, <1>6, <1>7, CommitFact
<1> QED BY <1>1, <1>6, <1>8 DEF Commit, b

\* create_escrow moves what it transfers from one ATA to the other.
LEMMA CreateEscrowTouches ==
  ASSUME TypeInv, NEW k \in EscrowKeys, NEW proof \in Proofs(k.order), CreateEscrow(k, proof),
         NEW n, n = AmountToTransfer(k.order, k.amount),
         NEW a, a = OrderAta(k.order),
         NEW b, b = EscrowAta(k)
  PROVE  /\ Touches({a, b})
         /\ bank'.ata[b].live /\ bank'.ata[b].amount >= n
         /\ ~LastFill(k.order, k.amount) =>
              bank'.ata[a].live /\ bank'.ata[a].amount = bank.ata[a].amount - n
<1> DEFINE M == FillBank(k)
<1>1. Commit(M) /\ bank.ata[OrderAta(k.order)].live
  BY DEF CreateEscrow
<1>2. /\ Sound(M, Owners) /\ Extends(bank, M, {a, b}, Owners)
      /\ M.ok => M.ata[b].live /\ M.ata[b].amount >= n
      /\ (M.ok /\ ~LastFill(k.order, k.amount)) =>
           M.ata[a].live /\ M.ata[a].amount = bank.ata[a].amount - n
  BY <1>1, SoundFact, FillBankFact
<1> HIDE DEF M
<1> QED BY <1>1, <1>2, CommitFact DEF Commit

\* withdraw and public_withdraw.
LEMMA WithdrawTouches ==
  ASSUME TypeInv, NEW k \in EscrowKeys, NEW s, NEW u \in Users, WithdrawWith(k, s, u)
  PROVE  Touches({EscrowAta(k), AtaOf(k.taker, k.order)})
<1> DEFINE M == WithdrawBank(k, u)
<1>1. Commit(M)
  BY DEF WithdrawWith
<1>2. /\ Sound(M, Owners)
      /\ Extends(bank, M, {EscrowAta(k), AtaOf(k.taker, k.order)}, Owners)
  BY SoundFact, WithdrawBankFact
<1> HIDE DEF M
<1> QED BY <1>1, <1>2, CommitFact

\* cancel_escrow and public_cancel_escrow.
LEMMA CancelTouches ==
  ASSUME TypeInv, NEW k \in EscrowKeys, NEW u \in Users, CancelTo(k, u)
  PROVE  Touches({EscrowAta(k), AtaOf(Maker(k), k.order)})
<1> DEFINE M == CancelBank(k, u)
<1>1. Commit(M)
  BY DEF CancelTo
<1>2. /\ Sound(M, Owners)
      /\ Extends(bank, M, {EscrowAta(k), AtaOf(Maker(k), k.order)}, Owners)
  BY SoundFact, CancelBankFact
<1> HIDE DEF M
<1> QED BY <1>1, <1>2, CommitFact

\* cancel_order.
LEMMA CancelOrderTouches ==
  ASSUME TypeInv, NEW o \in Orders, CancelOrder(o)
  PROVE  Touches({OrderAta(o), AtaOf(Terms[o].creator, o)})
<1> DEFINE M == CloseOrder(RefundTokens(bank, o), o, Terms[o].creator)
<1>1. Commit(M)
  BY DEF CancelOrder
<1>2. /\ Sound(M, Owners)
      /\ Extends(bank, M, {OrderAta(o), AtaOf(Terms[o].creator, o)}, Owners)
  BY SoundFact, CancelOrderBankFact
<1> HIDE DEF M
<1> QED BY <1>1, <1>2, CommitFact

\* cancel_order_by_resolver.
LEMMA ResolverCancelTouches ==
  ASSUME TypeInv, NEW o \in Orders, NEW u \in Users, NEW limit \in RewardLimits,
         CancelOrderByResolver(o, u, limit)
  PROVE  Touches({OrderAta(o), AtaOf(Terms[o].creator, o)})
<1> DEFINE M == ResolverCancelBank(o, u, limit)
<1>1. Commit(M)
  BY DEF CancelOrderByResolver
<1>2. /\ Sound(M, Owners)
      /\ Extends(bank, M, {OrderAta(o), AtaOf(Terms[o].creator, o)}, Owners)
  BY SoundFact, ResolverCancelBankFact
<1> HIDE DEF M
<1> QED BY <1>1, <1>2, CommitFact

\* rescue_funds_for_escrow and rescue_funds_for_order.
LEMMA RescueTouches ==
  ASSUME TypeInv, NEW x \in Orders \cup EscrowKeys, NEW u \in Users, NEW m \in Mints,
         NEW n \in 0..bank.ata[Ata(x, m)].amount, Rescue(x, u, m, n)
  PROVE  Touches({Ata(x, m), Ata(u, m)})
<1> DEFINE M == RescueFunds(bank, x, u, m, n)
<1>1. Commit(M)
  BY DEF Rescue
<1>2. x \in Owners /\ u \in Owners /\ x # u
  BY Disjoint
<1>3. n \in Nat
  OBVIOUS
<1>4. Sound(M, Owners) /\ Extends(bank, M, {Ata(x, m), Ata(u, m)}, Owners)
  BY <1>2, <1>3, SoundFact, RescueFundsFact
<1> HIDE DEF M
<1> QED BY <1>1, <1>4, CommitFact

\* Outside transfers never take tokens from an account of the program.
LEMMA OutsideTouches ==
  ASSUME TypeInv, NEW u \in Outsiders, NEW a \in (Orders \cup EscrowKeys) \X Mints,
         OutsideStep(u, a)
  PROVE  /\ Touches({a, Ata(u, a[2])})
         /\ bank.ata[a].live => bank'.ata[a].live /\ bank'.ata[a].amount >= bank.ata[a].amount
<1> DEFINE b == Ata(u, a[2])
<1>1. /\ u \in Owners /\ a \in Atas(Owners) /\ b \in Atas(Owners) /\ a # b
  BY Disjoint, EscrowSrcAssumption DEF Atas, Ata
<1>2. Sound(bank, Owners) /\ bank.ata[a] \in AtaState /\ bank.ata[b] \in AtaState
  BY <1>1, SoundFact DEF Sound, Bank, Atas
<1> HIDE DEF b
<1>3. CASE OutsideOpen(u, a)
  <2> DEFINE M == OpenAta(bank, u, a)
  <2>1. Commit(M)
    BY <1>3 DEF OutsideOpen
  <2>2. /\ Sound(M, Owners) /\ Extends(bank, M, {a}, Owners)
        /\ M.ok => ~bank.ata[a].live
    BY <1>1, <1>2, OpenAtaFact
  <2> HIDE DEF M
  <2>3. Extends(bank, M, {a, b}, Owners) /\ ~bank.ata[a].live
    BY <2>1, <2>2 DEF Extends, Commit
  <2> QED BY <2>1, <2>2, <2>3, CommitFact DEF b
<1>4. CASE \E n \in 1..bank.ata[b].amount : OutsideDeposit(u, a, n)
  <2>1. PICK n \in 1..bank.ata[b].amount : OutsideDeposit(u, a, n)
    BY <1>4
  <2> DEFINE M == TransferTokens(bank, b, a, n)
  <2>2. Commit(M) /\ n \in Nat
    BY <2>1 DEF OutsideDeposit, b
  <2>3. /\ Sound(M, Owners) /\ Extends(bank, M, {b, a}, Owners)
        /\ M.ok => /\ bank.ata[b].live /\ M.ata[b].live
                   /\ bank.ata[a].live /\ M.ata[a].live
                   /\ M.ata[b].amount = bank.ata[b].amount - n
                   /\ M.ata[a].amount = bank.ata[a].amount + n
    BY <1>1, <1>2, <2>2, TransferTokensFact
  <2> HIDE DEF M
  <2>4. Extends(bank, M, {a, b}, Owners)
    BY <2>3 DEF Extends
  <2>5. M.ok /\ bank' = M
    BY <2>2 DEF Commit
  <2>6. bank'.ata[a].live /\ bank'.ata[a].amount >= bank.ata[a].amount
    BY <1>2, <2>2, <2>3, <2>5 DEF AtaState
  <2> QED BY <2>2, <2>3, <2>4, <2>6, CommitFact DEF b
<1>5. CASE \E n \in 1..bank.sol[u] : OutsideLamports(u, a, n)
  <2>1. PICK n \in 1..bank.sol[u] : OutsideLamports(u, a, n)
    BY <1>5
  <2> DEFINE M == FundAta(bank, u, a, n)
  <2>2. Commit(M) /\ n \in Nat
    BY <2>1 DEF OutsideLamports
  <2>3. /\ Sound(M, Owners) /\ Extends(bank, M, {a}, Owners)
        /\ M.ok => M.ata[a] = [bank.ata[a] EXCEPT !.lamports = @ + n]
    BY <1>1, <1>2, <2>2, FundAtaFact
  <2> HIDE DEF M
  <2>4. Extends(bank, M, {a, b}, Owners)
    BY <2>3 DEF Extends
  <2>5. M.ok /\ bank' = M
    BY <2>2 DEF Commit
  <2>6. bank.ata[a].live => bank'.ata[a].live /\ bank'.ata[a].amount >= bank.ata[a].amount
    BY <1>2, <2>3, <2>5 DEF AtaState
  <2> QED BY <2>2, <2>3, <2>4, <2>6, CommitFact DEF b
<1>6. CASE OutsideSync(a)
  <2> DEFINE M == SyncNative(bank, a)
  <2>1. Commit(M)
    BY <1>6 DEF OutsideSync
  <2>2. /\ Sound(M, Owners) /\ Extends(bank, M, {a}, Owners)
        /\ M.ok => M.ata[a].live /\ M.ata[a].amount >= bank.ata[a].amount
    BY <1>1, <1>2, SyncNativeFact
  <2> HIDE DEF M
  <2>3. Extends(bank, M, {a, b}, Owners)
    BY <2>2 DEF Extends
  <2> QED BY <2>1, <2>2, <2>3, CommitFact DEF b, Commit
<1> QED BY <1>3, <1>4, <1>5, <1>6 DEF OutsideStep, b

\* Nothing else happens when a user's token account is opened or closed.
LEMMA UserAtaTouches ==
  ASSUME TypeInv, NEW u \in Closers, NEW a \in Users \X Mints, UserAtaStep(u, a)
  PROVE  Touches({a}) /\ BankOnly
<1>1. u \in Owners /\ a[1] \in Owners /\ a \in Atas(Owners) /\ Sound(bank, Owners)
  BY Disjoint, SoundFact, EscrowSrcAssumption DEF Atas
<1>2. CASE OutsideOpen(u, a)
  <2> DEFINE M == OpenAta(bank, u, a)
  <2>1. Commit(M) /\ BankOnly
    BY <1>2 DEF OutsideOpen
  <2>2. Sound(M, Owners) /\ Extends(bank, M, {a}, Owners)
    BY <1>1, OpenAtaFact
  <2> HIDE DEF M
  <2> QED BY <2>1, <2>2, CommitFact
<1>3. CASE CloseOwnAta(a)
  <2> DEFINE M == CloseAta(bank, a, a[1])
  <2>1. Commit(M) /\ BankOnly
    BY <1>3 DEF CloseOwnAta
  <2>2. Sound(M, Owners) /\ Extends(bank, M, {a}, Owners)
    BY <1>1, CloseAtaFact
  <2> HIDE DEF M
  <2> QED BY <2>1, <2>2, CommitFact
<1> QED BY <1>2, <1>3 DEF UserAtaStep

-----------------------------------------------------------------------------
\* Types.

\* The words in the accounts are well-formed timelocks.
LEMMA DeployedFact ==
  ASSUME TypeInv, NEW tl \in TimelockWords
  PROVE  SetDeployedAt(tl, now) \in TimelockWords
<1>1. now \in U32
  BY EscrowSrcAssumption, WidthsAssumption DEF TypeInv, TypeOK, U32
<1> QED BY <1>1 DEF SetDeployedAt, TimelockWords

\* The dst_amount of an escrow fits its type when the checked calls do.
LEMMA FillDstFact ==
  ASSUME NEW k \in EscrowKeys,
         LET t == Terms[k.order]
         IN  DstAmountFits(t.dst_amount, k.amount, t.amount, now, t.auction)
  PROVE  FillDst(k) \in U256
<1> DEFINE t == Terms[k.order]
           x == CeilNumerator(RaisedProduct(ScaledDstAmount(t.dst_amount, k.amount, t.amount),
                                            now, t.auction), BASE_1E7)
<1>1. x \in 0..MAX_U256
  BY DEF DstAmountFits, U256
<1>2. FillDst(k) = x \div BASE_1E7
  BY DEF FillDst, GetDstAmount, CeilDiv
<1> HIDE DEF x
<1>3. x \div BASE_1E7 \in 0..x
  BY <1>1, WidthsAssumption, AuctionAssumption, DivFact
<1> QED BY <1>1, <1>2, <1>3, WidthsAssumption DEF U256

\* The initial state has the types.
LEMMA InitTypes == Init => TypeInv
<1> SUFFICES ASSUME Init PROVE TypeInv
  OBVIOUS
<1> DEFINE Start(a) == IF a[1] \in Users
                       THEN [live     |-> TRUE,
                             amount   |-> InitTokens[a],
                             lamports |-> RENT_ATA + TokenLamports(a, InitTokens[a])]
                       ELSE NoAta
           ata == [a \in Owners \X Mints |-> Start(a)]
           sol == [x \in Owners |-> IF x \in Users THEN InitSol[x] ELSE 0]
<1>1. \A a \in Owners \X Mints :
        /\ Start(a) \in AtaState
        /\ Start(a).live => Start(a).lamports >= RENT_ATA + TokenLamports(a, Start(a).amount)
  <2> SUFFICES ASSUME NEW a \in Owners \X Mints
               PROVE  /\ Start(a) \in AtaState
                      /\ Start(a).live =>
                           Start(a).lamports >= RENT_ATA + TokenLamports(a, Start(a).amount)
    OBVIOUS
  <2>1. CASE a[1] \in Users
    <3>1. InitTokens[a] \in Nat
      BY <2>1, EscrowSrcAssumption
    <3>2. TokenLamports(a, InitTokens[a]) \in Nat
      BY <3>1 DEF TokenLamports
    <3> QED BY <2>1, <3>1, <3>2, LedgerAssumption DEF AtaState
  <2>2. CASE a[1] \notin Users
    BY <2>2 DEF NoAta, AtaState
  <2> QED BY <2>1, <2>2
<1>2. sol \in [Owners -> Nat]
  BY EscrowSrcAssumption
<1>3. bank = [sol |-> sol, ata |-> ata, ok |-> TRUE]
  BY DEF Init
<1> HIDE DEF Start, sol
<1>4. bank \in Bank(Owners) /\ bank.ok /\ bank.ata = ata
  BY <1>1, <1>2, <1>3 DEF Bank
<1>5. Backed(bank, Owners)
  BY <1>1, <1>4 DEF Backed, Atas
<1>6. NoOrder \in OrderState /\ NoEscrow \in EscrowState
  BY WidthsAssumption DEF NoOrder, OrderState, NoEscrow, EscrowState, NoTimelocks, TimelockWords,
        U32, U256
<1>7. now \in 0..MaxTime
  BY EscrowSrcAssumption, WidthsAssumption DEF Init, U32
<1> QED BY <1>4, <1>5, <1>6, <1>7, EscrowSrcAssumption DEF Init, TypeInv, TypeOK

\* create keeps the types.
LEMMA CreateTypes ==
  ASSUME TypeInv, NEW o \in Orders, Create(o)
  PROVE  TypeInv'
<1>1. Sound(bank', Owners) /\ bank'.ok
  BY CreateTouches DEF Touches
<1>2. order' \in [Orders -> OrderState]
  BY OrderFact, DeployedFact DEF Create, OrderState, TypeInv, TypeOK
<1>3. fills' \in [Orders -> Seq(Fill)]
  BY DEF Create, TypeInv, TypeOK
<1> QED BY <1>1, <1>2, <1>3 DEF Create, TypeInv, TypeOK, Sound

\* create_escrow keeps the types: what remains of an order cannot go below
\* zero, nor a dst_amount leave its type.
LEMMA CreateEscrowTypes ==
  ASSUME TypeInv, NEW k \in EscrowKeys, NEW proof \in Proofs(k.order), CreateEscrow(k, proof)
  PROVE  TypeInv'
<1> DEFINE o == k.order
           new == [index |-> proof.index,
                   from  |-> Terms[o].amount - order[o].remaining_amount,
                   upto  |-> Terms[o].amount - order[o].remaining_amount + k.amount,
                   dst_amount |-> FillDst(k)]
<1>1. Sound(bank', Owners) /\ bank'.ok
  BY CreateEscrowTouches DEF Touches
<1>2. o \in Orders /\ k.amount \in Nat /\ proof.index \in Nat /\ Terms[o].amount \in Nat
  BY EscrowKeyFact, OrderFact
<1>3. order[o] \in OrderState /\ order[o].remaining_amount \in Nat
      /\ order[o].timelocks \in TimelockWords
  BY <1>2 DEF TypeInv, TypeOK, OrderState
<1>4. FillDst(k) \in U256
  BY FillDstFact DEF CreateEscrow
<1>5. order' \in [Orders -> OrderState]
  <2> DEFINE next == IF LastFill(o, k.amount) THEN NoOrder
                     ELSE [order[o] EXCEPT !.remaining_amount = @ - k.amount]
  <2>1. LastFill(o, k.amount) => next \in OrderState
    BY WidthsAssumption DEF NoOrder, OrderState, NoTimelocks, TimelockWords, U32
  <2>2. ~LastFill(o, k.amount) => next \in OrderState
    <3> SUFFICES ASSUME ~LastFill(o, k.amount) PROVE next \in OrderState
      OBVIOUS
    <3>1. k.amount <= order[o].remaining_amount
      BY DEF LastFill, CreateEscrow, FillAmountAllowed
    <3> QED BY <1>2, <1>3, <3>1 DEF OrderState
  <2>3. next \in OrderState
    BY <2>1, <2>2
  <2>4. order' = [order EXCEPT ![o] = next]
    BY DEF CreateEscrow
  <2> HIDE DEF next
  <2> QED BY <1>2, <2>3, <2>4 DEF TypeInv, TypeOK
<1>6. escrow' \in [EscrowKeys -> EscrowState]
  <2>1. EscrowTimelocks(o) \in TimelockWords
    BY <1>3, DeployedFact DEF EscrowTimelocks
  <2> QED BY <1>4, <2>1 DEF CreateEscrow, EscrowState, TypeInv, TypeOK
<1>7. fills' \in [Orders -> Seq(Fill)]
  <2>1. new \in Fill
    BY <1>2, <1>3, <1>4 DEF Fill
  <2>2. fills' = [fills EXCEPT ![o] = Append(fills[o], new)]
    BY DEF CreateEscrow
  <2> HIDE DEF new
  <2> QED BY <1>2, <2>1, <2>2 DEF TypeInv, TypeOK
<1>8. late' \subseteq EscrowKeys
  BY DEF CreateEscrow, TypeInv, TypeOK
<1>9. UNCHANGED <<now, resolver_access, revealed>>
  BY DEF CreateEscrow
<1> QED BY <1>1, <1>5, <1>6, <1>7, <1>8, <1>9 DEF TypeInv, TypeOK, Sound

\* A step that ends an escrow keeps the types.
LEMMA EndEscrowTypes ==
  ASSUME TypeInv, NEW k \in EscrowKeys, NEW S, Touches(S), CloseEscrow(k),
         UNCHANGED <<now, order, resolver_access, revealed, fills, late>>
  PROVE  TypeInv'
<1>1. NoEscrow \in EscrowState
  BY WidthsAssumption DEF NoEscrow, EscrowState, NoTimelocks, TimelockWords, U32, U256
<1>2. escrow' \in [EscrowKeys -> EscrowState]
  BY <1>1 DEF CloseEscrow, TypeInv, TypeOK
<1> QED BY <1>2 DEF Touches, Sound, TypeInv, TypeOK

\* A step that drops an order keeps the types.
LEMMA DropOrderTypes ==
  ASSUME TypeInv, NEW o \in Orders, NEW S, Touches(S), DropOrder(o),
         UNCHANGED <<now, escrow, resolver_access, revealed, fills, late>>
  PROVE  TypeInv'
<1>1. NoOrder \in OrderState
  BY WidthsAssumption DEF NoOrder, OrderState, NoTimelocks, TimelockWords, U32
<1>2. order' \in [Orders -> OrderState]
  BY <1>1 DEF DropOrder, TypeInv, TypeOK
<1> QED BY <1>2 DEF Touches, Sound, TypeInv, TypeOK

\* A step that changes nothing but the bank keeps the types.
LEMMA BankOnlyTypes ==
  ASSUME TypeInv, NEW S, Touches(S), BankOnly
  PROVE  TypeInv'
BY DEF BankOnly, Touches, Sound, TypeInv, TypeOK

\* Every step keeps the types.
LEMMA NextTypes ==
  ASSUME TypeInv, [Next]_vars
  PROVE  TypeInv'
<1>1. CASE Tick
  BY <1>1, EscrowSrcAssumption, WidthsAssumption DEF Tick, TypeInv, TypeOK, Backed, U32
<1>2. CASE \E s \in Secrets : RevealSecret(s)
  BY <1>2 DEF RevealSecret, TypeInv, TypeOK, Backed
<1>3. CASE \E u \in Resolvers : Register(u) \/ Deregister(u)
  BY <1>3, EscrowSrcAssumption DEF Register, Deregister, TypeInv, TypeOK, Backed
<1>4. ASSUME NEW o \in Orders, OrderStep(o) PROVE TypeInv'
  <2>1. CASE Create(o)
    BY <2>1, CreateTypes
  <2>2. CASE CancelOrder(o)
    <3>1. Touches({OrderAta(o), AtaOf(Terms[o].creator, o)})
      BY <2>2, CancelOrderTouches
    <3> QED BY <2>2, <3>1, DropOrderTypes DEF CancelOrder
  <2>3. CASE \E r \in Users, limit \in RewardLimits : CancelOrderByResolver(o, r, limit)
    <3>1. PICK r \in Users, limit \in RewardLimits : CancelOrderByResolver(o, r, limit)
      BY <2>3
    <3>2. Touches({OrderAta(o), AtaOf(Terms[o].creator, o)})
      BY <3>1, ResolverCancelTouches
    <3> QED BY <3>1, <3>2, DropOrderTypes DEF CancelOrderByResolver
  <2>4. CASE \E r \in Users, m \in Mints : \E n \in 0..bank.ata[Ata(o, m)].amount :
               RescueFundsForOrder(o, r, m, n)
    <3>1. PICK r \in Users, m \in Mints : \E n \in 0..bank.ata[Ata(o, m)].amount :
                 RescueFundsForOrder(o, r, m, n)
      BY <2>4
    <3>2. PICK n \in 0..bank.ata[Ata(o, m)].amount : RescueFundsForOrder(o, r, m, n)
      BY <3>1
    <3>3. Rescue(o, r, m, n)
      BY <3>2 DEF RescueFundsForOrder
    <3>4. Touches({Ata(o, m), Ata(r, m)})
      BY <3>3, RescueTouches
    <3> QED BY <3>3, <3>4, BankOnlyTypes DEF Rescue, BankOnly
  <2> QED BY <1>4, <2>1, <2>2, <2>3, <2>4 DEF OrderStep
<1>5. ASSUME NEW k \in EscrowKeys, EscrowStep(k) PROVE TypeInv'
  <2>1. CASE \E proof \in Proofs(k.order) : CreateEscrow(k, proof)
    BY <2>1, CreateEscrowTypes
  <2>2. ASSUME NEW s, NEW u \in Users, WithdrawWith(k, s, u) PROVE TypeInv'
    <3>1. Touches({EscrowAta(k), AtaOf(k.taker, k.order)})
      BY <2>2, WithdrawTouches
    <3> QED BY <2>2, <3>1, EndEscrowTypes DEF WithdrawWith
  <2>3. ASSUME NEW u \in Users, CancelTo(k, u) PROVE TypeInv'
    <3>1. Touches({EscrowAta(k), AtaOf(Maker(k), k.order)})
      BY <2>3, CancelTouches
    <3> QED BY <2>3, <3>1, EndEscrowTypes DEF CancelTo
  <2>4. CASE \E s \in Secrets : Withdraw(k, s)
    BY <2>2, <2>4, EscrowKeyFact DEF Withdraw
  <2>5. CASE \E s \in Secrets, payer \in Users : PublicWithdraw(k, s, payer)
    BY <2>2, <2>5 DEF PublicWithdraw
  <2>6. CASE CancelEscrow(k)
    BY <2>3, <2>6, EscrowKeyFact DEF CancelEscrow
  <2>7. CASE \E payer \in Users : PublicCancelEscrow(k, payer)
    BY <2>3, <2>7 DEF PublicCancelEscrow
  <2>8. CASE \E m \in Mints : \E n \in 0..bank.ata[Ata(k, m)].amount :
               RescueFundsForEscrow(k, m, n)
    <3>1. PICK m \in Mints : \E n \in 0..bank.ata[Ata(k, m)].amount :
                 RescueFundsForEscrow(k, m, n)
      BY <2>8
    <3>2. PICK n \in 0..bank.ata[Ata(k, m)].amount : RescueFundsForEscrow(k, m, n)
      BY <3>1
    <3>3. Rescue(k, k.taker, m, n) /\ k.taker \in Users
      BY <3>2, EscrowKeyFact DEF RescueFundsForEscrow
    <3>4. Touches({Ata(k, m), Ata(k.taker, m)})
      BY <3>3, RescueTouches
    <3> QED BY <3>3, <3>4, BankOnlyTypes DEF Rescue, BankOnly
  <2> QED BY <1>5, <2>1, <2>4, <2>5, <2>6, <2>7, <2>8 DEF EscrowStep
<1>6. ASSUME NEW u \in Outsiders, NEW a \in (Orders \cup EscrowKeys) \X Mints, OutsideStep(u, a)
      PROVE  TypeInv'
  <2>1. BankOnly
    BY <1>6 DEF OutsideStep, OutsideOpen, OutsideDeposit, OutsideLamports, OutsideSync
  <2>2. Touches({a, Ata(u, a[2])})
    BY <1>6, OutsideTouches
  <2> QED BY <2>1, <2>2, BankOnlyTypes
<1>7. ASSUME NEW u \in Closers, NEW a \in Users \X Mints, UserAtaStep(u, a)
      PROVE  TypeInv'
  BY <1>7, UserAtaTouches, BankOnlyTypes
<1>8. CASE UNCHANGED vars
  BY <1>8 DEF vars, TypeInv, TypeOK, Backed
<1> QED BY <1>1, <1>2, <1>3, <1>4, <1>5, <1>6, <1>7, <1>8 DEF Next

\* Every variable keeps its type, no reverted transaction is committed, and no
\* open token account loses its reserve or the lamports behind wrapped SOL:
\* this holds whatever the orders' terms, the users' funds and the outsiders'
\* transfers are.
THEOREM TypesInvariant == Spec => []TypeInv
<1>1. Init => TypeInv
  BY InitTypes
<1>2. TypeInv /\ [Next]_vars => TypeInv'
  BY NextTypes
<1> QED BY <1>1, <1>2, PTL DEF Spec

\* TypeOK is an invariant of the source-chain program.
THEOREM TypeCorrect == Spec => []TypeOK
<1>1. TypeInv => TypeOK
  BY DEF TypeInv
<1> QED BY <1>1, TypesInvariant, PTL

-----------------------------------------------------------------------------
\* Funds.

\* OrderFunded and EscrowFunded, for one account.
OrderFundedAt(o) ==
  (order[o].live /\ ~OrderRescuable(o)) =>
    /\ bank.ata[OrderAta(o)].live
    /\ bank.ata[OrderAta(o)].amount >= order[o].remaining_amount

EscrowFundedAt(k) ==
  (escrow[k].live /\ k \notin late /\ ~EscrowRescuable(k)) =>
    /\ bank.ata[EscrowAta(k)].live
    /\ bank.ata[EscrowAta(k)].amount >= k.amount

\* The inductive invariant.
Inv == TypeInv /\ OrderFunded /\ EscrowFunded

\* Token accounts of different owners are different.
LEMMA AtasDiffer ==
  /\ \A x, y, m, n : x # y => Ata(x, m) # Ata(y, n)
  /\ \A x, m, n : m # n => Ata(x, m) # Ata(x, n)
BY DEF Ata

\* Two token accounts of a program account and of a user differ, as do those of
\* two program accounts.
LEMMA ProgramAtas ==
  /\ \A o \in Orders, k \in EscrowKeys : OrderAta(o) # EscrowAta(k)
  /\ \A o, p \in Orders : o # p => OrderAta(o) # OrderAta(p)
  /\ \A k, j \in EscrowKeys : k # j => EscrowAta(k) # EscrowAta(j)
  /\ \A o, p \in Orders, u \in Users : OrderAta(o) # AtaOf(u, p)
  /\ \A k \in EscrowKeys, p \in Orders, u \in Users : EscrowAta(k) # AtaOf(u, p)
BY AtasDiffer, Disjoint DEF OrderAta, EscrowAta, AtaOf

\* An order stays funded if its account is not written, its ATA does not lose
\* tokens and time does not go back.
LEMMA OrderKept ==
  ASSUME TypeInv, TypeInv', NEW o \in Orders, OrderFundedAt(o),
         order'[o] = order[o], now' >= now,
         bank.ata[OrderAta(o)].live =>
           /\ bank'.ata[OrderAta(o)].live
           /\ bank'.ata[OrderAta(o)].amount >= bank.ata[OrderAta(o)].amount
  PROVE  OrderFundedAt(o)'
<1>1. now \in Nat /\ now' \in Nat
  BY EscrowSrcAssumption, WidthsAssumption DEF TypeInv, TypeOK, U32
<1>2. /\ RescueStart(order[o].timelocks) \in Nat
      /\ order[o].remaining_amount \in Nat
  <2>1. order[o] \in OrderState
    BY DEF TypeInv, TypeOK
  <2> QED BY <2>1, WidthsAssumption, TimelocksAssumption
          DEF OrderState, RescueStart, TimelockWords, U32, Stages
<1>3. bank.ata[OrderAta(o)] \in AtaState /\ bank'.ata[OrderAta(o)] \in AtaState
  BY OrderFact DEF TypeInv, TypeOK, Bank, Atas
<1>4. OrderRescuable(o) => OrderRescuable(o)'
  BY <1>1, <1>2 DEF OrderRescuable
<1> QED BY <1>2, <1>3, <1>4 DEF OrderFundedAt, AtaState

\* So does an escrow.
LEMMA EscrowKept ==
  ASSUME TypeInv, TypeInv', NEW k \in EscrowKeys, EscrowFundedAt(k),
         escrow'[k] = escrow[k], now' >= now, k \in late => k \in late',
         bank.ata[EscrowAta(k)].live =>
           /\ bank'.ata[EscrowAta(k)].live
           /\ bank'.ata[EscrowAta(k)].amount >= bank.ata[EscrowAta(k)].amount
  PROVE  EscrowFundedAt(k)'
<1>1. now \in Nat /\ now' \in Nat
  BY EscrowSrcAssumption, WidthsAssumption DEF TypeInv, TypeOK, U32
<1>2. RescueStart(escrow[k].timelocks) \in Nat /\ k.amount \in Nat
  <2>1. escrow[k] \in EscrowState
    BY DEF TypeInv, TypeOK
  <2> QED BY <2>1, EscrowKeyFact, WidthsAssumption, TimelocksAssumption
          DEF EscrowState, RescueStart, TimelockWords, U32, Stages
<1>3. bank.ata[EscrowAta(k)] \in AtaState /\ bank'.ata[EscrowAta(k)] \in AtaState
  BY EscrowKeyFact DEF TypeInv, TypeOK, Bank, Atas
<1>4. EscrowRescuable(k) => EscrowRescuable(k)'
  BY <1>1, <1>2 DEF EscrowRescuable
<1> QED BY <1>2, <1>3, <1>4 DEF EscrowFundedAt, AtaState

\* An account whose ATA a step does not touch stays funded.
LEMMA OrderUntouched ==
  ASSUME TypeInv, TypeInv', NEW o \in Orders, OrderFundedAt(o),
         order'[o] = order[o], now' = now,
         NEW S, Touches(S), OrderAta(o) \notin S
  PROVE  OrderFundedAt(o)'
<1>1. now' >= now
  BY EscrowSrcAssumption, WidthsAssumption DEF TypeInv, TypeOK, U32
<1>2. bank'.ata[OrderAta(o)] = bank.ata[OrderAta(o)]
  BY OrderFact DEF Touches
<1>3. bank.ata[OrderAta(o)].amount \in Nat
  BY OrderFact DEF TypeInv, TypeOK, Bank, Atas, AtaState
<1> QED BY <1>1, <1>2, <1>3, OrderKept

\* The same for an escrow.
LEMMA EscrowUntouched ==
  ASSUME TypeInv, TypeInv', NEW k \in EscrowKeys, EscrowFundedAt(k),
         escrow'[k] = escrow[k], now' = now, k \in late => k \in late',
         NEW S, Touches(S), EscrowAta(k) \notin S
  PROVE  EscrowFundedAt(k)'
<1>1. now' >= now
  BY EscrowSrcAssumption, WidthsAssumption DEF TypeInv, TypeOK, U32
<1>2. bank'.ata[EscrowAta(k)] = bank.ata[EscrowAta(k)]
  BY EscrowKeyFact DEF Touches
<1>3. bank.ata[EscrowAta(k)].amount \in Nat
  BY EscrowKeyFact DEF TypeInv, TypeOK, Bank, Atas, AtaState
<1> QED BY <1>1, <1>2, <1>3, EscrowKept

\* What a step leaves funded without more ado: every account that it does not
\* write and whose ATA it does not touch.
LEMMA Untouched ==
  ASSUME Inv, TypeInv', now' = now, NEW S, Touches(S)
  PROVE  /\ \A o \in Orders : (order'[o] = order[o] /\ OrderAta(o) \notin S) => OrderFundedAt(o)'
         /\ \A k \in EscrowKeys :
              (escrow'[k] = escrow[k] /\ (k \in late => k \in late') /\ EscrowAta(k) \notin S)
                => EscrowFundedAt(k)'
<1>1. ASSUME NEW o \in Orders, order'[o] = order[o], OrderAta(o) \notin S
      PROVE  OrderFundedAt(o)'
  <2>1. OrderFundedAt(o)
    BY DEF Inv, OrderFunded, OrderFundedAt
  <2> QED BY <1>1, <2>1, OrderUntouched DEF Inv
<1>2. ASSUME NEW k \in EscrowKeys, escrow'[k] = escrow[k], k \in late => k \in late',
             EscrowAta(k) \notin S
      PROVE  EscrowFundedAt(k)'
  <2>1. EscrowFundedAt(k)
    BY DEF Inv, EscrowFunded, EscrowFundedAt
  <2> QED BY <1>2, <2>1, EscrowUntouched DEF Inv
<1> QED BY <1>1, <1>2

\* Both invariants are the conjunction of their instances.
LEMMA FundedFact ==
  /\ (\A o \in Orders : OrderFundedAt(o)') => OrderFunded'
  /\ (\A k \in EscrowKeys : EscrowFundedAt(k)') => EscrowFunded'
BY DEF OrderFunded, OrderFundedAt, EscrowFunded, EscrowFundedAt

\* create funds its order.
LEMMA CreateFunds ==
  ASSUME Inv, TypeInv', NEW o \in Orders, Create(o)
  PROVE  OrderFunded' /\ EscrowFunded'
<1> DEFINE S == {OrderAta(o), AtaOf(Terms[o].creator, o)}
<1>1. /\ Touches(S) /\ bank'.ata[OrderAta(o)].live
      /\ bank'.ata[OrderAta(o)].amount >= Terms[o].amount
  BY CreateTouches DEF Inv
<1>2. /\ now' = now /\ escrow' = escrow /\ late' = late
      /\ order'[o].remaining_amount = Terms[o].amount
      /\ \A p \in Orders \ {o} : order'[p] = order[p]
  BY DEF Create, Inv, TypeInv, TypeOK
<1>3. \A p \in Orders \ {o} : OrderAta(p) \notin S
  BY OrderFact, ProgramAtas
<1>4. \A k \in EscrowKeys : EscrowAta(k) \notin S
  BY OrderFact, ProgramAtas
<1> HIDE DEF S
<1>5. OrderFundedAt(o)'
  BY <1>1, <1>2 DEF OrderFundedAt
<1>6. \A p \in Orders \ {o} : OrderFundedAt(p)'
  BY <1>1, <1>2, <1>3, Untouched
<1>7. \A k \in EscrowKeys : EscrowFundedAt(k)'
  BY <1>1, <1>2, <1>4, Untouched
<1> QED BY <1>5, <1>6, <1>7, FundedFact

\* A step that closes an account of the program, or none, and touches no ATA
\* but that account's and a user's keeps all others funded.
LEMMA ClosesFunded ==
  ASSUME Inv, TypeInv', now' = now, late' = late, NEW S, Touches(S),
         \A o \in Orders : ~order'[o].live \/ (order'[o] = order[o] /\ OrderAta(o) \notin S),
         \A k \in EscrowKeys : ~escrow'[k].live \/ (escrow'[k] = escrow[k] /\ EscrowAta(k) \notin S)
  PROVE  OrderFunded' /\ EscrowFunded'
<1>1. \A o \in Orders : OrderFundedAt(o)'
  <2>1. \A o \in Orders : ~order'[o].live => OrderFundedAt(o)'
    BY DEF OrderFundedAt
  <2> QED BY <2>1, Untouched
<1>2. \A k \in EscrowKeys : EscrowFundedAt(k)'
  <2>1. \A k \in EscrowKeys : ~escrow'[k].live => EscrowFundedAt(k)'
    BY DEF EscrowFundedAt
  <2> QED BY <2>1, Untouched
<1> QED BY <1>1, <1>2, FundedFact

\* create_escrow funds its escrow out of a funded order, and leaves the order
\* what it still has to pay.
LEMMA CreateEscrowFunds ==
  ASSUME Inv, TypeInv', NEW k \in EscrowKeys, NEW proof \in Proofs(k.order),
         CreateEscrow(k, proof)
  PROVE  OrderFunded' /\ EscrowFunded'
<1> DEFINE o == k.order
           a == OrderAta(o)
           b == EscrowAta(k)
           n == AmountToTransfer(o, k.amount)
           start == RescueStart(order[o].timelocks)
<1>1. /\ Touches({a, b})
      /\ bank'.ata[b].live /\ bank'.ata[b].amount >= n
      /\ ~LastFill(o, k.amount) =>
           bank'.ata[a].live /\ bank'.ata[a].amount = bank.ata[a].amount - n
  BY CreateEscrowTouches DEF Inv
<1>2. o \in Orders /\ k.amount \in Nat /\ order[o] \in OrderState /\ order[o].live
  BY EscrowKeyFact DEF CreateEscrow, Inv, TypeInv, TypeOK
<1>3. /\ now' = now
      /\ \A p \in Orders \ {o} : order'[p] = order[p]
      /\ \A j \in EscrowKeys \ {k} : escrow'[j] = escrow[j] /\ (j \in late => j \in late')
      /\ k \notin late' => ~(now >= start)
  BY DEF CreateEscrow, Inv, TypeInv, TypeOK
<1>4. \A p \in Orders \ {o} : OrderAta(p) \notin {a, b}
  BY <1>2, ProgramAtas
<1>5. \A j \in EscrowKeys \ {k} : EscrowAta(j) \notin {a, b}
  BY <1>2, ProgramAtas
<1>6. order'[o] = IF LastFill(o, k.amount) THEN NoOrder
                  ELSE [order[o] EXCEPT !.remaining_amount = @ - k.amount]
  BY <1>2 DEF CreateEscrow, Inv, TypeInv, TypeOK
<1>7. ~(now >= start) => bank.ata[a].amount >= order[o].remaining_amount
  BY <1>2 DEF Inv, OrderFunded, OrderRescuable
<1>8. n = IF order[o].remaining_amount = k.amount THEN bank.ata[a].amount ELSE k.amount
  BY DEF AmountToTransfer, Completes
<1>9. bank.ata[a].amount \in Nat /\ bank'.ata[a].amount \in Nat /\ bank'.ata[b].amount \in Nat
  BY <1>2, OrderFact, EscrowKeyFact DEF Inv, TypeInv, TypeOK, Bank, Atas, AtaState
<1>10. OrderFundedAt(o)'
  <2>1. CASE LastFill(o, k.amount)
    BY <1>6, <2>1 DEF OrderFundedAt, NoOrder
  <2>2. CASE ~LastFill(o, k.amount)
    <3>1. /\ order'[o].remaining_amount = order[o].remaining_amount - k.amount
          /\ order'[o].timelocks = order[o].timelocks
          /\ order[o].remaining_amount \in Nat
      BY <1>2, <1>6, <2>2 DEF OrderState
    <3>2. n = k.amount
      BY <1>8, <2>2 DEF LastFill, Completes
    <3>3. ~OrderRescuable(o)' => ~(now >= start)
      BY <1>3, <3>1 DEF OrderRescuable
    <3>4. ~(now >= start) => bank'.ata[a].amount >= order'[o].remaining_amount
      BY <1>1, <1>2, <1>7, <1>9, <2>2, <3>1, <3>2
    <3> HIDE DEF n, start
    <3> QED BY <1>1, <2>2, <3>3, <3>4 DEF OrderFundedAt
  <2> QED BY <2>1, <2>2
<1>11. EscrowFundedAt(k)'
  <2>1. k \notin late' => bank'.ata[b].amount >= k.amount
    <3>1. order[o].remaining_amount \in Nat
      BY <1>2 DEF OrderState
    <3> HIDE DEF a, b, start
    <3> QED BY <1>1, <1>2, <1>3, <1>7, <1>8, <1>9, <3>1
  <2> HIDE DEF n
  <2> QED BY <1>1, <2>1 DEF EscrowFundedAt
<1> HIDE DEF a, b
<1>12. \A p \in Orders \ {o} : OrderFundedAt(p)'
  BY <1>1, <1>3, <1>4, Untouched
<1>13. \A j \in EscrowKeys \ {k} : EscrowFundedAt(j)'
  BY <1>1, <1>3, <1>5, Untouched
<1> QED BY <1>10, <1>11, <1>12, <1>13, FundedFact

\* The end of an escrow: its own ATA and a user's are touched.
LEMMA EndEscrowFunded ==
  ASSUME Inv, TypeInv', NEW k \in EscrowKeys, NEW u \in Users, NEW p \in Orders,
         Touches({EscrowAta(k), AtaOf(u, p)}), CloseEscrow(k),
         UNCHANGED <<now, order, resolver_access, revealed, fills, late>>
  PROVE  OrderFunded' /\ EscrowFunded'
<1> DEFINE S == {EscrowAta(k), AtaOf(u, p)}
<1>1. /\ ~escrow'[k].live
      /\ \A j \in EscrowKeys \ {k} : escrow'[j] = escrow[j]
  BY DEF CloseEscrow, NoEscrow, Inv, TypeInv, TypeOK
<1>2. /\ \A o \in Orders : OrderAta(o) \notin S
      /\ \A j \in EscrowKeys \ {k} : EscrowAta(j) \notin S
  BY ProgramAtas
<1> HIDE DEF S
<1>3. Touches(S)
  BY DEF S
<1> QED BY <1>1, <1>2, <1>3, ClosesFunded

\* The cancellation of an order likewise.
LEMMA DropOrderFunded ==
  ASSUME Inv, TypeInv', NEW o \in Orders, NEW u \in Users,
         Touches({OrderAta(o), AtaOf(u, o)}), DropOrder(o),
         UNCHANGED <<now, escrow, resolver_access, revealed, fills, late>>
  PROVE  OrderFunded' /\ EscrowFunded'
<1> DEFINE S == {OrderAta(o), AtaOf(u, o)}
<1>1. /\ ~order'[o].live
      /\ \A p \in Orders \ {o} : order'[p] = order[p]
  BY DEF DropOrder, NoOrder, Inv, TypeInv, TypeOK
<1>2. /\ \A p \in Orders \ {o} : OrderAta(p) \notin S
      /\ \A k \in EscrowKeys : EscrowAta(k) \notin S
  BY ProgramAtas
<1> HIDE DEF S
<1>3. Touches(S)
  BY DEF S
<1> QED BY <1>1, <1>2, <1>3, ClosesFunded

\* rescue_funds_for_order can take tokens from an order only once the order is
\* closed or its rescue start reached.
LEMMA RescueOrderFunded ==
  ASSUME Inv, TypeInv', NEW o \in Orders, NEW u \in Users, NEW m \in Mints,
         NEW n \in 0..bank.ata[Ata(o, m)].amount, RescueFundsForOrder(o, u, m, n)
  PROVE  OrderFunded' /\ EscrowFunded'
<1> DEFINE S == {Ata(o, m), Ata(u, m)}
<1>1. Rescue(o, u, m, n) /\ RescueOpen(order[o].live, order[o].timelocks, now)
  BY DEF RescueFundsForOrder
<1>2. Touches(S)
  BY <1>1, RescueTouches DEF Inv
<1>3. now' = now /\ order' = order /\ escrow' = escrow /\ late' = late
  BY <1>1 DEF Rescue
<1>4. /\ \A p \in Orders \ {o} : OrderAta(p) \notin S
      /\ \A k \in EscrowKeys : EscrowAta(k) \notin S
  BY AtasDiffer, Disjoint DEF OrderAta, EscrowAta
<1>5. OrderFundedAt(o)'
  BY <1>1, <1>3 DEF OrderFundedAt, OrderRescuable, RescueOpen, RescueReached
<1> HIDE DEF S
<1>6. \A p \in Orders \ {o} : OrderFundedAt(p)'
  BY <1>2, <1>3, <1>4, Untouched
<1>7. \A k \in EscrowKeys : EscrowFundedAt(k)'
  BY <1>2, <1>3, <1>4, Untouched
<1> QED BY <1>5, <1>6, <1>7, FundedFact

\* Nor does rescue_funds_for_escrow take tokens from an escrow before.
LEMMA RescueEscrowFunded ==
  ASSUME Inv, TypeInv', NEW k \in EscrowKeys, NEW m \in Mints,
         NEW n \in 0..bank.ata[Ata(k, m)].amount, RescueFundsForEscrow(k, m, n)
  PROVE  OrderFunded' /\ EscrowFunded'
<1> DEFINE S == {Ata(k, m), Ata(k.taker, m)}
<1>1. /\ Rescue(k, k.taker, m, n) /\ RescueOpen(escrow[k].live, escrow[k].timelocks, now)
      /\ k.taker \in Users
  BY EscrowKeyFact DEF RescueFundsForEscrow
<1>2. Touches(S)
  BY <1>1, RescueTouches DEF Inv
<1>3. now' = now /\ order' = order /\ escrow' = escrow /\ late' = late
  BY <1>1 DEF Rescue
<1>4. /\ \A o \in Orders : OrderAta(o) \notin S
      /\ \A j \in EscrowKeys \ {k} : EscrowAta(j) \notin S
  BY <1>1, AtasDiffer, Disjoint DEF OrderAta, EscrowAta
<1>5. EscrowFundedAt(k)'
  BY <1>1, <1>3 DEF EscrowFundedAt, EscrowRescuable, RescueOpen, RescueReached
<1> HIDE DEF S
<1>6. \A o \in Orders : OrderFundedAt(o)'
  BY <1>2, <1>3, <1>4, Untouched
<1>7. \A j \in EscrowKeys \ {k} : EscrowFundedAt(j)'
  BY <1>2, <1>3, <1>4, Untouched
<1> QED BY <1>5, <1>6, <1>7, FundedFact

\* A step that takes no tokens from the program's accounts and writes none of
\* its accounts keeps them all funded.
LEMMA QuietFunded ==
  ASSUME Inv, TypeInv', UNCHANGED <<order, escrow, late>>, now' >= now,
         \A b \in (Orders \cup EscrowKeys) \X Mints : bank.ata[b].live =>
           bank'.ata[b].live /\ bank'.ata[b].amount >= bank.ata[b].amount
  PROVE  OrderFunded' /\ EscrowFunded'
<1>1. ASSUME NEW o \in Orders PROVE OrderFundedAt(o)'
  <2>1. OrderAta(o) \in (Orders \cup EscrowKeys) \X Mints
    BY OrderFact
  <2>2. OrderFundedAt(o)
    BY DEF Inv, OrderFunded, OrderFundedAt
  <2> QED BY <2>1, <2>2, OrderKept DEF Inv
<1>2. ASSUME NEW k \in EscrowKeys PROVE EscrowFundedAt(k)'
  <2>1. EscrowAta(k) \in (Orders \cup EscrowKeys) \X Mints
    BY EscrowKeyFact
  <2>2. EscrowFundedAt(k)
    BY DEF Inv, EscrowFunded, EscrowFundedAt
  <2> QED BY <2>1, <2>2, EscrowKept DEF Inv
<1> QED BY <1>1, <1>2, FundedFact

\* Outside transfers only add to the program's token accounts.
LEMMA OutsideFunded ==
  ASSUME Inv, TypeInv', NEW u \in Outsiders, NEW a \in (Orders \cup EscrowKeys) \X Mints,
         OutsideStep(u, a)
  PROVE  OrderFunded' /\ EscrowFunded'
<1>1. UNCHANGED <<now, order, escrow, late>>
  BY DEF OutsideStep, OutsideOpen, OutsideDeposit, OutsideLamports, OutsideSync, BankOnly
<1>2. /\ Touches({a, Ata(u, a[2])})
      /\ bank.ata[a].live => bank'.ata[a].live /\ bank'.ata[a].amount >= bank.ata[a].amount
  BY OutsideTouches DEF Inv
<1>3. ASSUME NEW b \in (Orders \cup EscrowKeys) \X Mints, bank.ata[b].live
      PROVE  bank'.ata[b].live /\ bank'.ata[b].amount >= bank.ata[b].amount
  <2>1. b \in Atas(Owners) /\ b # Ata(u, a[2])
    BY Disjoint, EscrowSrcAssumption DEF Atas, Ata
  <2>2. bank.ata[b].amount \in Nat
    BY <2>1 DEF Inv, TypeInv, TypeOK, Bank, Atas, AtaState
  <2>3. CASE b = a
    BY <1>2, <1>3, <2>3
  <2>4. CASE b # a
    BY <1>2, <1>3, <2>1, <2>2, <2>4 DEF Touches
  <2> QED BY <2>3, <2>4
<1>4. now' >= now
  BY <1>1, EscrowSrcAssumption, WidthsAssumption DEF Inv, TypeInv, TypeOK, U32
<1> QED BY <1>1, <1>3, <1>4, QuietFunded

\* What users do with their own token accounts touches none of the program's.
LEMMA UserAtaFunded ==
  ASSUME Inv, TypeInv', NEW u \in Closers, NEW a \in Users \X Mints, UserAtaStep(u, a)
  PROVE  OrderFunded' /\ EscrowFunded'
<1>1. Touches({a}) /\ UNCHANGED <<now, order, escrow, late>>
  BY UserAtaTouches DEF BankOnly, Inv
<1>2. ASSUME NEW b \in (Orders \cup EscrowKeys) \X Mints, bank.ata[b].live
      PROVE  bank'.ata[b].live /\ bank'.ata[b].amount >= bank.ata[b].amount
  <2>1. b \in Atas(Owners) /\ b # a
    BY Disjoint DEF Atas
  <2>2. bank.ata[b].amount \in Nat
    BY <2>1 DEF Inv, TypeInv, TypeOK, Bank, Atas, AtaState
  <2> QED BY <1>1, <1>2, <2>1, <2>2 DEF Touches
<1>3. now' >= now
  BY <1>1, EscrowSrcAssumption, WidthsAssumption DEF Inv, TypeInv, TypeOK, U32
<1> QED BY <1>1, <1>2, <1>3, QuietFunded

\* Every step keeps the orders and the escrows funded.
LEMMA NextFunded ==
  ASSUME Inv, [Next]_vars
  PROVE  OrderFunded' /\ EscrowFunded'
<1> USE DEF Inv
<1>0. TypeInv'
  BY NextTypes
<1>1. CASE Tick
  <2>1. bank' = bank /\ now' >= now /\ UNCHANGED <<order, escrow, late>>
    BY <1>1, SoundFact DEF Tick
  <2>2. \A b \in (Orders \cup EscrowKeys) \X Mints : bank.ata[b].amount \in Nat
    BY Disjoint DEF TypeInv, TypeOK, Bank, AtaState
  <2> QED BY <1>0, <2>1, <2>2, QuietFunded
<1>2. CASE \/ \E s \in Secrets : RevealSecret(s)
           \/ \E u \in Resolvers : Register(u) \/ Deregister(u)
           \/ UNCHANGED vars
  <2>1. bank' = bank /\ now' = now /\ UNCHANGED <<order, escrow, late>>
    BY <1>2 DEF RevealSecret, Register, Deregister, vars
  <2>2. \A b \in (Orders \cup EscrowKeys) \X Mints : bank.ata[b].amount \in Nat
    BY Disjoint DEF TypeInv, TypeOK, Bank, AtaState
  <2>3. now' >= now
    BY <2>1, SoundFact
  <2> QED BY <1>0, <2>1, <2>2, <2>3, QuietFunded
<1>3. ASSUME NEW o \in Orders, OrderStep(o) PROVE OrderFunded' /\ EscrowFunded'
  <2>1. CASE Create(o)
    BY <1>0, <2>1, CreateFunds
  <2>2. CASE CancelOrder(o)
    BY <1>0, <2>2, CancelOrderTouches, DropOrderFunded, OrderFact DEF CancelOrder
  <2>3. ASSUME NEW r \in Users, NEW limit \in RewardLimits, CancelOrderByResolver(o, r, limit)
        PROVE  OrderFunded' /\ EscrowFunded'
    BY <1>0, <2>3, ResolverCancelTouches, DropOrderFunded, OrderFact DEF CancelOrderByResolver
  <2>4. ASSUME NEW r \in Users, NEW m \in Mints, NEW n \in 0..bank.ata[Ata(o, m)].amount,
               RescueFundsForOrder(o, r, m, n)
        PROVE  OrderFunded' /\ EscrowFunded'
    BY <1>0, <2>4, RescueOrderFunded
  <2> QED BY <1>3, <2>1, <2>2, <2>3, <2>4 DEF OrderStep
<1>4. ASSUME NEW k \in EscrowKeys, EscrowStep(k) PROVE OrderFunded' /\ EscrowFunded'
  <2>1. CASE \E proof \in Proofs(k.order) : CreateEscrow(k, proof)
    BY <1>0, <2>1, CreateEscrowFunds
  <2>2. ASSUME NEW s, NEW u \in Users, WithdrawWith(k, s, u)
        PROVE  OrderFunded' /\ EscrowFunded'
    BY <1>0, <2>2, WithdrawTouches, EndEscrowFunded, EscrowKeyFact DEF WithdrawWith
  <2>3. ASSUME NEW u \in Users, CancelTo(k, u)
        PROVE  OrderFunded' /\ EscrowFunded'
    BY <1>0, <2>3, CancelTouches, EndEscrowFunded, EscrowKeyFact DEF CancelTo
  <2>4. CASE \E s \in Secrets : Withdraw(k, s)
    BY <2>2, <2>4, EscrowKeyFact DEF Withdraw
  <2>5. CASE \E s \in Secrets, payer \in Users : PublicWithdraw(k, s, payer)
    BY <2>2, <2>5 DEF PublicWithdraw
  <2>6. CASE CancelEscrow(k)
    BY <2>3, <2>6, EscrowKeyFact DEF CancelEscrow
  <2>7. CASE \E payer \in Users : PublicCancelEscrow(k, payer)
    BY <2>3, <2>7 DEF PublicCancelEscrow
  <2>8. ASSUME NEW m \in Mints, NEW n \in 0..bank.ata[Ata(k, m)].amount,
               RescueFundsForEscrow(k, m, n)
        PROVE  OrderFunded' /\ EscrowFunded'
    BY <1>0, <2>8, RescueEscrowFunded
  <2> QED BY <1>4, <2>1, <2>4, <2>5, <2>6, <2>7, <2>8 DEF EscrowStep
<1>5. ASSUME NEW u \in Outsiders, NEW a \in (Orders \cup EscrowKeys) \X Mints, OutsideStep(u, a)
      PROVE  OrderFunded' /\ EscrowFunded'
  BY <1>0, <1>5, OutsideFunded
<1>6. ASSUME NEW u \in Closers, NEW a \in Users \X Mints, UserAtaStep(u, a)
      PROVE  OrderFunded' /\ EscrowFunded'
  BY <1>0, <1>6, UserAtaFunded
<1> QED BY <1>1, <1>2, <1>3, <1>4, <1>5, <1>6 DEF Next

\* Inv is an invariant.
THEOREM InvInvariant == Spec => []Inv
<1>1. Init => Inv
  <2>1. Init => \A o \in Orders : ~order[o].live
    BY DEF Init, NoOrder
  <2>2. Init => \A k \in EscrowKeys : ~escrow[k].live
    BY DEF Init, NoEscrow
  <2> QED BY <2>1, <2>2, InitTypes DEF Inv, OrderFunded, EscrowFunded
<1>2. Inv /\ [Next]_vars => Inv'
  BY NextTypes, NextFunded DEF Inv
<1> QED BY <1>1, <1>2, PTL DEF Spec

\* Until its rescue start the ATA of a live order holds what the order still
\* has to fill: no fill, cancellation, rescue or outside transfer, in whatever
\* order they come, leaves less (create, create_escrow, rescue_funds_for_order).
THEOREM OrdersStayFunded == Spec => []OrderFunded
<1>1. Inv => OrderFunded
  BY DEF Inv
<1> QED BY <1>1, InvInvariant, PTL

\* Until its rescue start the ATA of a live escrow, one not created after its
\* order's, holds the amount that withdraw and cancel pay (create_escrow,
\* rescue_funds_for_escrow).
THEOREM EscrowsStayFunded == Spec => []EscrowFunded
<1>1. Inv => EscrowFunded
  BY DEF Inv
<1> QED BY <1>1, InvInvariant, PTL

-----------------------------------------------------------------------------
\* Who pays.  Each lemma says whom the chain of calls of an instruction spares;
\* the users that it may take from are its creators, named in CreatorsPay.

\* What a chain of calls spares a user, its commit leaves the user.
LEMMA SparedUser ==
  ASSUME TypeInv, NEW L, Commit(L), NEW W \in SUBSET Users, Spares(bank, L, W, W),
         Sound(L, Owners)
  PROVE  \A u \in W : SolGain(u) >= 0 /\ KeepsTokens(u)
<1>1. SUFFICES ASSUME NEW u \in W PROVE SolGain(u) >= 0 /\ KeepsTokens(u)
  OBVIOUS
<1>2. /\ bank' = L /\ bank.sol[u] \in Nat /\ L.sol[u] \in Nat
      /\ \A m \in Mints : /\ Ata(u, m) \in Atas(W)
                          /\ bank.ata[Ata(u, m)].amount \in Nat /\ L.ata[Ata(u, m)].amount \in Nat
  <2>1. u \in Owners /\ \A m \in Mints : Ata(u, m) \in Atas(W) /\ Ata(u, m) \in Atas(Owners)
    BY <1>1, Disjoint DEF Ata, Atas
  <2>2. Sound(bank, Owners) /\ bank' = L
    BY SoundFact DEF Commit
  <2> QED BY <2>1, <2>2, BankParts
<1>3. L.sol[u] >= bank.sol[u]
  BY <1>1 DEF Spares, Commit
<1>4. \A m \in Mints : bank.ata[Ata(u, m)].live =>
        L.ata[Ata(u, m)].live /\ L.ata[Ata(u, m)].amount >= bank.ata[Ata(u, m)].amount
  BY <1>2 DEF Spares, Commit
<1> QED BY <1>2, <1>3, <1>4 DEF SolGain, TokenGain, KeepsTokens

\* create takes from the maker, whose token account stays open.
LEMMA CreateSpares ==
  ASSUME TypeInv, NEW o \in Orders, Create(o)
  PROVE  /\ \A u \in Users \ {Terms[o].creator} : SolGain(u) >= 0 /\ KeepsTokens(u)
         /\ KeepsAtas(Terms[o].creator)
<1> DEFINE u == Terms[o].creator
           W == Users \ {u}
           a == OrderAta(o)
           b == AtaOf(u, o)
           n == Terms[o].amount
           I == InitAccount(bank, u, o, RENT_ORDER)
           A == InitIfNeededAta(I, u, a)
           D == DepositOrder(A, o)
<1>1. Commit(D)
  BY DEF Create, CreateAccounts
<1>2. /\ u \in Owners /\ u \notin W /\ W \in SUBSET Owners /\ W \in SUBSET Users
      /\ o \in Owners /\ n \in Nat
      /\ a \in Atas(Owners) /\ b \in Atas(Owners) /\ a # b /\ b \notin Atas(W)
      /\ RENT_ORDER \in Nat
  BY OrderFact, Disjoint, EscrowSrcAssumption DEF AtaOf, Ata, Atas
<1>3. /\ I = InitAccount(bank, u, o, RENT_ORDER) /\ A = InitIfNeededAta(I, u, a)
      /\ D = IF Terms[o].asset_is_native THEN SyncNative(UniTransferToAta(A, u, a, n), a)
             ELSE UniTransferToken(A, b, a, n)
  BY DEF DepositOrder
<1>4. \A m \in Mints : Ata(u, m) \in Atas(Owners) /\ Ata(u, m) # a
  BY OrderFact, Disjoint DEF Ata, Atas
<1> HIDE DEF u, W, a, b, n, I, A, D
<1>5. Sound(I, Owners) /\ Extends(bank, I, {}, Owners) /\ Spares(bank, I, W, W)
  BY <1>2, <1>3, SoundFact, MoveLamportsFact, SparesMove DEF InitAccount
<1>6. Sound(A, Owners) /\ Extends(I, A, {a}, Owners) /\ Spares(I, A, W, W)
  BY <1>2, <1>3, <1>5, InitIfNeededAtaFact, SparesOpen
<1>7. Extends(bank, A, {a}, Owners) /\ Spares(bank, A, W, W)
  BY <1>2, <1>5, <1>6, SoundFact, SparesTransitive DEF Extends
<1>8. /\ Sound(D, Owners) /\ Spares(A, D, W, W)
      /\ D.ok => \A m \in Mints : A.ata[Ata(u, m)].live => D.ata[Ata(u, m)].live
  <2>1. CASE Terms[o].asset_is_native
    <3> DEFINE F == UniTransferToAta(A, u, a, n)
    <3>1. F = UniTransferToAta(A, u, a, n) /\ D = SyncNative(F, a)
      BY <1>3, <2>1
    <3> HIDE DEF F
    <3>2. Sound(F, Owners) /\ Extends(A, F, {a}, Owners) /\ Spares(A, F, W, W)
      BY <1>2, <1>6, <3>1, UniTransferToAtaFact, SparesFund
    <3>3. Sound(D, Owners) /\ Extends(F, D, {a}, Owners) /\ Spares(F, D, W, W)
      BY <1>2, <3>1, <3>2, SyncNativeFact, SparesSync
    <3>4. Spares(A, D, W, W)
      BY <1>2, <1>6, <3>2, <3>3, SparesTransitive
    <3> QED BY <1>4, <3>2, <3>3, <3>4 DEF Extends
  <2>2. CASE ~Terms[o].asset_is_native
    <3>1. D = UniTransferToken(A, b, a, n)
      BY <1>3, <2>2
    <3>2. /\ Sound(D, Owners) /\ Extends(A, D, {b, a}, Owners)
          /\ (D.ok /\ A.ata[b].live) => D.ata[b].live
      <4>1. Sound(A, Owners)
        BY <1>6
      <4>2. n \in Nat /\ a # b /\ a \in Atas(Owners) /\ b \in Atas(Owners)
        BY <1>2
      <4> QED BY <3>1, <4>1, <4>2, UniTransferTokenFact
    <3>3. Spares(A, D, W, W)
      BY <1>2, <1>6, <3>1, SparesTransfer
    <3> QED BY <1>4, <3>2, <3>3 DEF Extends
  <2> QED BY <2>1, <2>2
<1>9. Spares(bank, D, W, W)
  BY <1>2, <1>6, <1>7, <1>8, SoundFact, SparesTransitive
<1>10. KeepsAtas(u)
  BY <1>1, <1>4, <1>7, <1>8 DEF KeepsAtas, Commit, Extends
<1>11. \A z \in W : SolGain(z) >= 0 /\ KeepsTokens(z)
  BY <1>1, <1>2, <1>8, <1>9, SparedUser
<1> QED BY <1>10, <1>11 DEF u, W

\* The close of an order's accounts takes from nobody else.
LEMMA CloseOrderSpares ==
  ASSUME NEW o \in Orders, NEW L, Sound(L, Owners), NEW u \in Owners,
         NEW U \in SUBSET Users, NEW V \in SUBSET Users,
         NEW R, R = CloseOrder(L, o, u)
  PROVE  Sound(R, Owners) /\ Spares(L, R, U, V)
<1> DEFINE C == CloseAta(L, OrderAta(o), u)
<1>1. /\ o \in Owners /\ o \notin U /\ U \in SUBSET Owners /\ V \in SUBSET Owners
      /\ OrderAta(o) \in Atas(Owners) /\ OrderAta(o) \notin Atas(V)
  BY OrderFact, Disjoint DEF Atas
<1>2. C = CloseAta(L, OrderAta(o), u) /\ R = CloseAccount(C, o, u)
  BY DEF CloseOrder
<1> HIDE DEF C
<1>3. Sound(C, Owners) /\ Spares(L, C, U, V)
  BY <1>1, <1>2, CloseAtaFact, SparesCloseAta
<1>4. Sound(R, Owners) /\ Spares(C, R, U, V)
  BY <1>1, <1>2, <1>3, CloseAccountFact, SparesCloseAccount
<1> QED BY <1>1, <1>3, <1>4, SparesTransitive

\* create_escrow takes lamports from the taker.
LEMMA CreateEscrowSpares ==
  ASSUME TypeInv, NEW k \in EscrowKeys, NEW proof \in Proofs(k.order), CreateEscrow(k, proof)
  PROVE  /\ \A u \in Users \ {k.taker} : SolGain(u) >= 0 /\ KeepsTokens(u)
         /\ KeepsTokens(k.taker)
<1> DEFINE u == k.taker
           U == Users \ {u}
           a == OrderAta(k.order)
           b == EscrowAta(k)
           n == AmountToTransfer(k.order, k.amount)
           I == InitAccount(bank, u, k, RENT_ESCROW)
           A == InitIfNeededAta(I, u, b)
           T == UniTransferToken(A, a, b, n)
           M == FillBank(k)
<1>1. Commit(M)
  BY DEF CreateEscrow
<1>2. /\ u \in Owners /\ u \notin U /\ U \in SUBSET Users /\ U \in SUBSET Owners
      /\ Users \in SUBSET Owners /\ k \in Owners /\ k.order \in Orders
      /\ a \in Atas(Owners) /\ b \in Atas(Owners) /\ a # b /\ a \notin Atas(Users)
      /\ RENT_ESCROW \in Nat /\ Maker(k) \in Owners /\ k.amount \in Nat
  BY OrderFact, EscrowKeyFact, Disjoint, EscrowSrcAssumption DEF Atas
<1>3. bank.ata[a].amount \in Nat
  BY <1>2, SoundFact, BankParts
<1>4. n \in Nat
  BY <1>2, <1>3 DEF AmountToTransfer
<1>5. /\ I = InitAccount(bank, u, k, RENT_ESCROW) /\ A = InitIfNeededAta(I, u, b)
      /\ T = UniTransferToken(A, a, b, n)
      /\ M = IF LastFill(k.order, k.amount) THEN CloseOrder(T, k.order, Maker(k)) ELSE T
  BY DEF FillBank, FillAccounts
<1> HIDE DEF u, U, a, b, n, I, A, T, M
<1>6. Sound(I, Owners) /\ Spares(bank, I, U, Users)
  BY <1>2, <1>5, SoundFact, MoveLamportsFact, SparesMove DEF InitAccount
<1>7. Sound(A, Owners) /\ Spares(I, A, U, Users)
  BY <1>2, <1>5, <1>6, InitIfNeededAtaFact, SparesOpen
<1>8. Sound(T, Owners) /\ Spares(A, T, U, Users)
  BY <1>2, <1>4, <1>5, <1>7, UniTransferTokenFact, SparesTransfer
<1>9. Spares(bank, T, U, Users)
  <2>1. Spares(bank, A, U, Users)
    BY <1>2, <1>6, <1>7, SoundFact, SparesTransitive
  <2> QED BY <1>2, <1>7, <1>8, <2>1, SoundFact, SparesTransitive
<1>10. Sound(M, Owners) /\ Spares(bank, M, U, Users)
  <2>1. CASE LastFill(k.order, k.amount)
    <3>1. Sound(M, Owners) /\ Spares(T, M, U, Users)
      BY <1>2, <1>5, <1>8, <2>1, CloseOrderSpares
    <3> QED BY <1>2, <1>8, <1>9, <3>1, SoundFact, SparesTransitive
  <2>2. CASE ~LastFill(k.order, k.amount)
    BY <1>5, <1>8, <1>9, <2>2
  <2> QED BY <2>1, <2>2
<1>11. Spares(bank, M, U, U) /\ Spares(bank, M, {}, Users)
  BY <1>2, <1>10 DEF Spares, Atas
<1>12. \A z \in U : SolGain(z) >= 0 /\ KeepsTokens(z)
  BY <1>1, <1>2, <1>10, <1>11, SparedUser
<1>13. KeepsTokens(u)
  <2>1. bank' = M /\ \A m \in Mints : Ata(u, m) \in Atas(Users)
    BY <1>1, EscrowKeyFact DEF Commit, Ata, Atas, u
  <2>2. \A m \in Mints : bank.ata[Ata(u, m)].live =>
          M.ata[Ata(u, m)].live /\ M.ata[Ata(u, m)].amount >= bank.ata[Ata(u, m)].amount
    BY <1>1, <1>10, <2>1 DEF Spares, Commit
  <2>3. \A m \in Mints : bank.ata[Ata(u, m)].amount \in Nat /\ M.ata[Ata(u, m)].amount \in Nat
    <3>1. \A c \in Atas(Users) : c \in Atas(Owners)
      BY <1>2 DEF Atas
    <3> QED BY <1>10, <2>1, <3>1, SoundFact, BankParts
  <2> QED BY <2>1, <2>2, <2>3 DEF KeepsTokens, TokenGain
<1> QED BY <1>12, <1>13 DEF u, U

\* A withdrawal and a cancellation take from no user.
LEMMA EndEscrowSpares ==
  ASSUME TypeInv, NEW k \in EscrowKeys, NEW u \in Users,
         CancelTo(k, u) \/ \E s \in Secrets : WithdrawWith(k, s, u)
  PROVE  \A z \in Users : SolGain(z) >= 0 /\ KeepsTokens(z)
<1> DEFINE t == Terms[k.order]
           d == t.safety_deposit
           a == EscrowAta(k)
           b == AtaOf(k.taker, k.order)
<1>1. /\ Users \in SUBSET Owners /\ Users \in SUBSET Users /\ k \in Owners /\ k \notin Users
      /\ k.taker \in Owners /\ u \in Owners /\ k.amount \in Nat /\ d \in Nat
      /\ t.creator \in Owners /\ k # t.creator
      /\ a \in Atas(Owners) /\ b \in Atas(Owners) /\ a # b /\ a \notin Atas(Users)
  BY EscrowKeyFact, OrderFact, Disjoint DEF AtaOf, Ata, Atas
<1>2. t.asset_is_native \in BOOLEAN /\ t.token \in Mints
  BY EscrowKeyFact, OrderFact DEF Token
<1>3. Sound(bank, Owners)
  BY SoundFact
<1>4. ASSUME NEW P, Sound(P, Owners), Spares(bank, P, Users, Users),
             NEW M, M = CloseAccount(PaySafetyDeposit(P, k, d, k.taker, u), k, k.taker),
             Commit(M)
      PROVE  \A z \in Users : SolGain(z) >= 0 /\ KeepsTokens(z)
  <2> DEFINE D == PaySafetyDeposit(P, k, d, k.taker, u)
  <2>1. D = PaySafetyDeposit(P, k, d, k.taker, u) /\ M = CloseAccount(D, k, k.taker)
    BY <1>4
  <2> HIDE DEF D, d
  <2>2. Sound(D, Owners) /\ Spares(P, D, Users, Users)
    BY <1>1, <1>4, <2>1, PaySafetyDepositFact, SparesDeposit
  <2>3. Sound(M, Owners) /\ Spares(D, M, Users, Users)
    BY <1>1, <2>1, <2>2, CloseAccountFact, SparesCloseAccount
  <2>4. Spares(bank, D, Users, Users)
    BY <1>1, <1>3, <1>4, <2>2, SparesTransitive
  <2>5. Spares(bank, M, Users, Users)
    BY <1>1, <1>3, <2>2, <2>3, <2>4, SparesTransitive
  <2> QED BY <1>1, <1>4, <2>3, <2>5, SparedUser
<1>5. CASE \E s \in Secrets : WithdrawWith(k, s, u)
  <2> DEFINE W == WithdrawAndCloseTokenAta(bank, a, b, k.taker)
             M == CloseAccount(PaySafetyDeposit(W, k, d, k.taker, u), k, k.taker)
  <2>1. Commit(M) /\ W = WithdrawAndCloseTokenAta(bank, a, b, k.taker)
    BY <1>5 DEF WithdrawWith, WithdrawBank
  <2>2. M = CloseAccount(PaySafetyDeposit(W, k, d, k.taker, u), k, k.taker)
    OBVIOUS
  <2> HIDE DEF W, M, a, b
  <2>3. Sound(W, Owners) /\ Spares(bank, W, Users, Users)
    BY <1>1, <1>3, <2>1, WithdrawAndCloseFact, SparesWithdrawAndClose
  <2> HIDE DEF d
  <2> QED BY <1>4, <2>1, <2>2, <2>3
<1>6. CASE CancelTo(k, u)
  <2> DEFINE P == ProcessPayout(bank, k, t.token, t.asset_is_native, k.amount, t.creator, k.taker)
             M == CloseAccount(PaySafetyDeposit(P, k, d, k.taker, u), k, k.taker)
  <2>1. /\ Commit(M)
        /\ P = ProcessPayout(bank, k, t.token, t.asset_is_native, k.amount, t.creator, k.taker)
    BY <1>6 DEF CancelTo, CancelBank
  <2>2. M = CloseAccount(PaySafetyDeposit(P, k, d, k.taker, u), k, k.taker)
    OBVIOUS
  <2> HIDE DEF P, M, d, t
  <2>3. Sound(P, Owners) /\ Spares(bank, P, Users, Users)
    BY <1>1, <1>2, <1>3, <2>1, ProcessPayoutFact, SparesPayout
  <2> QED BY <1>4, <2>1, <2>2, <2>3
<1> QED BY <1>5, <1>6

\* Nor does the refund of an order.
LEMMA RefundSpares ==
  ASSUME TypeInv, NEW o \in Orders, NEW T, T = RefundTokens(bank, o)
  PROVE  Sound(T, Owners) /\ Spares(bank, T, Users, Users)
<1> DEFINE a == OrderAta(o)
           b == AtaOf(Terms[o].creator, o)
           n == bank.ata[a].amount
<1>1. /\ a \in Atas(Owners) /\ b \in Atas(Owners) /\ a # b /\ a \notin Atas(Users)
      /\ Users \in SUBSET Owners
  BY OrderFact, Disjoint DEF AtaOf, Ata, Atas
<1>2. Sound(bank, Owners) /\ n \in Nat /\ \A u \in Users : bank.sol[u] \in Nat
  BY <1>1, SoundFact, BankParts
<1>3. T = IF Terms[o].asset_is_native THEN bank ELSE UniTransferToken(bank, a, b, n)
  BY DEF RefundTokens
<1>4. Sound(T, Owners)
  BY <1>2, RefundTokensFact
<1> HIDE DEF a, b, n
<1>5. CASE T = bank
  <2>1. Extends(bank, bank, {}, Owners)
    BY DEF Extends
  <2> QED BY <1>1, <1>2, <1>4, <1>5, <2>1, SparesBy
<1>6. CASE T = UniTransferToken(bank, a, b, n)
  BY <1>1, <1>2, <1>4, <1>6, SparesTransfer
<1> QED BY <1>3, <1>5, <1>6

\* cancel_order.
LEMMA CancelOrderSpares ==
  ASSUME TypeInv, NEW o \in Orders, CancelOrder(o)
  PROVE  \A z \in Users : SolGain(z) >= 0 /\ KeepsTokens(z)
<1> DEFINE T == RefundTokens(bank, o)
           M == CloseOrder(T, o, Terms[o].creator)
<1>1. Commit(M) /\ T = RefundTokens(bank, o) /\ M = CloseOrder(T, o, Terms[o].creator)
  BY DEF CancelOrder
<1> HIDE DEF T, M
<1>2. Sound(T, Owners) /\ Spares(bank, T, Users, Users)
  BY <1>1, RefundSpares
<1>3. Users \in SUBSET Users /\ Users \in SUBSET Owners /\ Terms[o].creator \in Owners
  BY OrderFact, Disjoint
<1>4. Sound(M, Owners) /\ Spares(T, M, Users, Users)
  BY <1>1, <1>2, <1>3, CloseOrderSpares
<1>5. Spares(bank, M, Users, Users)
  BY <1>2, <1>3, <1>4, SoundFact, SparesTransitive
<1> QED BY <1>1, <1>3, <1>4, <1>5, SparedUser

\* The resolver that cancels an order gets more from the order's token account
\* than it passes on to the maker.
LEMMA RewardSpares ==
  ASSUME NEW T, Sound(T, Owners), NEW a \in Atas(Owners), a \notin Atas(Users),
         NEW u \in Users, NEW refunded \in Users, NEW reward \in Nat,
         NEW lamports, lamports = T.ata[a].lamports,
         NEW C, C = CloseAta(T, a, u),
         NEW M, M = Attempt(C, reward <= lamports,
                            UniTransferNative(C, u, refunded, lamports - reward))
  PROVE  Sound(M, Owners) /\ Spares(T, M, Users, Users)
<1>1. /\ Users \in SUBSET Owners /\ u \in Owners /\ refunded \in Owners
      /\ lamports \in Nat /\ \A z \in Users : T.sol[z] \in Nat
  BY Disjoint, BankParts
<1>2. Sound(C, Owners) /\ Extends(T, C, {a}, Owners)
  BY <1>1, CloseAtaFact
<1>3. C.ok => /\ C.sol[u] = T.sol[u] + lamports
              /\ \A z \in Owners \ {u} : C.sol[z] = T.sol[z]
  BY <1>1, CloseAtaEffect
<1>4. CASE C.ok /\ reward <= lamports
  <2> DEFINE rest == lamports - reward
  <2>1. rest \in Nat /\ rest <= lamports /\ M = UniTransferNative(C, u, refunded, rest)
    BY <1>1, <1>4 DEF Attempt
  <2> HIDE DEF rest
  <2>2. Sound(M, Owners) /\ Extends(C, M, {}, Owners)
    BY <1>1, <1>2, <2>1, UniTransferNativeFact
  <2>3. /\ (M.ok /\ u # refunded) => /\ M.sol[u] = C.sol[u] - rest
                                  /\ M.sol[refunded] = C.sol[refunded] + rest
        /\ (M.ok /\ u = refunded) => M.sol[u] = C.sol[u]
        /\ M.ok => \A z \in Owners \ {u, refunded} : M.sol[z] = C.sol[z]
    BY <1>1, <1>2, <2>1, UniTransferNativeEffect
  <2>4. M.ok => M.sol[u] >= T.sol[u] /\ M.sol[refunded] >= T.sol[refunded]
    BY <1>1, <1>3, <1>4, <2>1, <2>3
  <2>5. M.ok => \A z \in Users : M.sol[z] >= T.sol[z]
    BY <1>1, <1>3, <1>4, <2>3, <2>4
  <2>6. Extends(T, M, {a}, Owners)
    BY <1>2, <2>2 DEF Extends
  <2> QED BY <1>1, <2>2, <2>5, <2>6, SparesBy
<1>5. CASE ~(C.ok /\ reward <= lamports)
  <2>1. M = [C EXCEPT !.ok = FALSE]
    BY <1>5 DEF Attempt
  <2>2. Sound(M, Owners) /\ ~M.ok
    BY <1>2, <2>1, Fail DEF Sound, Backed
  <2> QED BY <2>2 DEF Spares
<1> QED BY <1>4, <1>5

\* cancel_order_by_resolver.
LEMMA ResolverCancelSpares ==
  ASSUME TypeInv, NEW o \in Orders, NEW u \in Users, NEW limit \in RewardLimits,
         CancelOrderByResolver(o, u, limit)
  PROVE  \A z \in Users : SolGain(z) >= 0 /\ KeepsTokens(z)
<1> DEFINE refunded == Terms[o].creator
           a == OrderAta(o)
           T == RefundTokens(bank, o)
           lamports == T.ata[a].lamports
           reward == ResolverReward(o, limit)
           C == CloseAta(T, a, u)
           M == Attempt(C, reward <= lamports, UniTransferNative(C, u, refunded, lamports - reward))
           F == CloseAccount(M, o, refunded)
<1>1. /\ Users \in SUBSET Users /\ Users \in SUBSET Owners /\ o \in Owners /\ o \notin Users
      /\ refunded \in Users /\ refunded \in Owners /\ a \in Atas(Owners) /\ a \notin Atas(Users)
  BY OrderFact, Disjoint DEF Atas
<1>2. reward \in Nat
  BY SoundFact, PremiumFact, EscrowSrcAssumption DEF ResolverReward
<1>3. Commit(F)
  BY DEF CancelOrderByResolver, ResolverCancelBank
<1>4. /\ T = RefundTokens(bank, o) /\ C = CloseAta(T, a, u)
      /\ M = Attempt(C, reward <= lamports, UniTransferNative(C, u, refunded, lamports - reward))
      /\ F = CloseAccount(M, o, refunded) /\ lamports = T.ata[a].lamports
  OBVIOUS
<1> HIDE DEF refunded, a, T, lamports, reward, C, M, F
<1>5. Sound(T, Owners) /\ Spares(bank, T, Users, Users)
  BY <1>4, RefundSpares
<1>6. Sound(M, Owners) /\ Spares(T, M, Users, Users)
  BY <1>1, <1>2, <1>4, <1>5, RewardSpares
<1>7. Sound(F, Owners) /\ Spares(M, F, Users, Users)
  BY <1>1, <1>4, <1>6, CloseAccountFact, SparesCloseAccount
<1>8. Spares(bank, M, Users, Users)
  BY <1>1, <1>5, <1>6, SoundFact, SparesTransitive
<1>9. Spares(bank, F, Users, Users)
  BY <1>1, <1>6, <1>7, <1>8, SoundFact, SparesTransitive
<1> QED BY <1>1, <1>3, <1>7, <1>9, SparedUser

\* rescue_funds_for_escrow and rescue_funds_for_order.
LEMMA RescueSpares ==
  ASSUME TypeInv, NEW x \in Orders \cup EscrowKeys, NEW u \in Users, NEW m \in Mints,
         NEW n \in 0..bank.ata[Ata(x, m)].amount, Rescue(x, u, m, n)
  PROVE  \A z \in Users : SolGain(z) >= 0 /\ KeepsTokens(z)
<1> DEFINE M == RescueFunds(bank, x, u, m, n)
<1>1. Commit(M)
  BY DEF Rescue
<1>2. /\ x \in Owners /\ u \in Owners /\ x # u /\ x \notin Users /\ n \in Nat
      /\ Users \in SUBSET Users /\ Users \in SUBSET Owners
  BY Disjoint
<1>3. Sound(M, Owners) /\ Spares(bank, M, Users, Users)
  BY <1>2, SoundFact, RescueFundsFact, SparesRescue
<1> HIDE DEF M
<1> QED BY <1>1, <1>2, <1>3, SparedUser

\* An outsider transfers what is its own.
LEMMA OutsideSpares ==
  ASSUME TypeInv, NEW u \in Outsiders, NEW a \in Atas(Owners), a[1] # u, OutsideStep(u, a)
  PROVE  \A z \in Users \ {u} : SolGain(z) >= 0 /\ KeepsTokens(z)
<1> DEFINE b == Ata(u, a[2])
           W == Users \ {u}
<1>1. /\ u \in Owners /\ u \notin W /\ b \in Atas(Owners) /\ a # b /\ b \notin Atas(W)
      /\ W \in SUBSET Users /\ W \in SUBSET Owners
  BY Disjoint, EscrowSrcAssumption DEF Atas, Ata
<1>2. Sound(bank, Owners)
  BY SoundFact
<1> HIDE DEF b, W
<1>3. ASSUME NEW M, Sound(M, Owners), Spares(bank, M, W, W), Commit(M)
      PROVE  \A z \in W : SolGain(z) >= 0 /\ KeepsTokens(z)
  BY <1>1, <1>3, SparedUser
<1>4. CASE OutsideOpen(u, a)
  <2> DEFINE M == OpenAta(bank, u, a)
  <2>1. Commit(M)
    BY <1>4 DEF OutsideOpen
  <2>2. Sound(M, Owners) /\ Spares(bank, M, W, W)
    BY <1>1, <1>2, OpenAtaFact, SparesOpen
  <2> QED BY <1>3, <2>1, <2>2 DEF W
<1>5. ASSUME NEW n \in 1..bank.ata[b].amount, OutsideDeposit(u, a, n)
      PROVE  \A z \in W : SolGain(z) >= 0 /\ KeepsTokens(z)
  <2> DEFINE M == TransferTokens(bank, b, a, n)
  <2>1. Commit(M) /\ n \in Nat
    BY <1>5 DEF OutsideDeposit, b
  <2>2. Sound(M, Owners) /\ Spares(bank, M, W, W)
    BY <1>1, <1>2, <2>1, TransferTokensFact, SparesTransfer
  <2> QED BY <1>3, <2>1, <2>2
<1>6. ASSUME NEW n \in 1..bank.sol[u], OutsideLamports(u, a, n)
      PROVE  \A z \in W : SolGain(z) >= 0 /\ KeepsTokens(z)
  <2> DEFINE M == FundAta(bank, u, a, n)
  <2>1. Commit(M) /\ n \in Nat
    BY <1>6 DEF OutsideLamports
  <2>2. Sound(M, Owners) /\ Spares(bank, M, W, W)
    BY <1>1, <1>2, <2>1, FundAtaFact, SparesFund
  <2> QED BY <1>3, <2>1, <2>2
<1>7. CASE OutsideSync(a)
  <2> DEFINE M == SyncNative(bank, a)
  <2>1. Commit(M)
    BY <1>7 DEF OutsideSync
  <2>2. Sound(M, Owners) /\ Spares(bank, M, W, W)
    BY <1>1, <1>2, SyncNativeFact, SparesSync
  <2> QED BY <1>3, <2>1, <2>2 DEF W
<1> QED BY <1>4, <1>5, <1>6, <1>7 DEF OutsideStep, b, W

\* A user opens token accounts with lamports of its own and closes its own.
LEMMA UserAtaSpares ==
  ASSUME TypeInv, NEW u \in Closers, NEW a \in Users \X Mints, UserAtaStep(u, a)
  PROVE  \A z \in Users \ {u} : SolGain(z) >= 0 /\ KeepsTokens(z)
<1> DEFINE W == Users \ {u}
<1>1. /\ u \in Owners /\ u \notin W /\ a \in Atas(Owners)
      /\ W \in SUBSET Users /\ W \in SUBSET Owners /\ Sound(bank, Owners)
  BY Disjoint, SoundFact, EscrowSrcAssumption DEF Atas
<1>2. CASE OutsideOpen(u, a)
  <2> DEFINE M == OpenAta(bank, u, a)
  <2>1. Commit(M)
    BY <1>2 DEF OutsideOpen
  <2> HIDE DEF W
  <2>2. Sound(M, Owners) /\ Spares(bank, M, W, W)
    BY <1>1, OpenAtaFact, SparesOpen
  <2> HIDE DEF M
  <2>3. \A z \in W : SolGain(z) >= 0 /\ KeepsTokens(z)
    BY <1>1, <2>1, <2>2, SparedUser
  <2> QED BY <2>3 DEF W
<1>3. CASE a[1] = u /\ CloseOwnAta(a)
  <2> DEFINE M == CloseAta(bank, a, u)
  <2>1. Commit(M)
    BY <1>3 DEF CloseOwnAta
  <2>2. a \notin Atas(W)
    BY <1>3 DEF Atas
  <2> HIDE DEF W
  <2>3. Sound(M, Owners) /\ Spares(bank, M, W, W)
    BY <1>1, <2>2, CloseAtaFact, SparesCloseAta
  <2> HIDE DEF M
  <2>4. \A z \in W : SolGain(z) >= 0 /\ KeepsTokens(z)
    BY <1>1, <2>1, <2>3, SparedUser
  <2> QED BY <2>4 DEF W
<1> QED BY <1>2, <1>3 DEF UserAtaStep

\* Every step takes from nobody but makers, takers and those that act outside.
LEMMA NextPays ==
  ASSUME TypeInv, [Next]_vars
  PROVE  CreatorsPay
<1>1. ASSUME \A u \in Users : SolGain(u) >= 0 /\ KeepsTokens(u)
      PROVE  CreatorsPay
  BY <1>1 DEF CreatorsPay
<1>2. CASE \/ Tick \/ \E s \in Secrets : RevealSecret(s)
           \/ \E u \in Resolvers : Register(u) \/ Deregister(u)
           \/ UNCHANGED vars
  <2>1. bank' = bank
    BY <1>2 DEF Tick, RevealSecret, Register, Deregister, vars
  <2>2. \A u \in Users : bank.sol[u] \in Nat /\ \A m \in Mints : bank.ata[Ata(u, m)].amount \in Nat
    BY SoundFact, Disjoint, BankParts DEF Ata, Atas
  <2> QED BY <1>1, <2>1, <2>2 DEF SolGain, TokenGain, KeepsTokens
<1>3. ASSUME NEW o \in Orders, OrderStep(o) PROVE CreatorsPay
  <2>1. CASE Create(o)
    <3>1. ~order[o].live /\ order'[o].live
      BY <2>1 DEF Create, TypeInv, TypeOK
    <3> QED BY <2>1, <3>1, CreateSpares DEF CreatorsPay
  <2>2. CASE CancelOrder(o)
    BY <1>1, <2>2, CancelOrderSpares
  <2>3. CASE \E r \in Users, limit \in RewardLimits : CancelOrderByResolver(o, r, limit)
    BY <1>1, <2>3, ResolverCancelSpares
  <2>4. ASSUME NEW r \in Users, NEW m \in Mints, NEW n \in 0..bank.ata[Ata(o, m)].amount,
               RescueFundsForOrder(o, r, m, n)
        PROVE  CreatorsPay
    BY <1>1, <2>4, RescueSpares DEF RescueFundsForOrder
  <2> QED BY <1>3, <2>1, <2>2, <2>3, <2>4 DEF OrderStep
<1>4. ASSUME NEW k \in EscrowKeys, EscrowStep(k) PROVE CreatorsPay
  <2>1. ASSUME NEW proof \in Proofs(k.order), CreateEscrow(k, proof) PROVE CreatorsPay
    <3>1. ~escrow[k].live /\ escrow'[k].live
      BY <2>1 DEF CreateEscrow, TypeInv, TypeOK
    <3> QED BY <2>1, <3>1, CreateEscrowSpares DEF CreatorsPay
  <2>2. CASE \/ \E s \in Secrets : Withdraw(k, s)
             \/ \E s \in Secrets, payer \in Users : PublicWithdraw(k, s, payer)
             \/ CancelEscrow(k)
             \/ \E payer \in Users : PublicCancelEscrow(k, payer)
    <3>1. PICK u \in Users : CancelTo(k, u) \/ \E s \in Secrets : WithdrawWith(k, s, u)
      BY <2>2, EscrowKeyFact DEF Withdraw, PublicWithdraw, CancelEscrow, PublicCancelEscrow
    <3> QED BY <1>1, <3>1, EndEscrowSpares
  <2>3. ASSUME NEW m \in Mints, NEW n \in 0..bank.ata[Ata(k, m)].amount,
               RescueFundsForEscrow(k, m, n)
        PROVE  CreatorsPay
    BY <1>1, <2>3, EscrowKeyFact, RescueSpares DEF RescueFundsForEscrow
  <2> QED BY <1>4, <2>1, <2>2, <2>3 DEF EscrowStep
<1>5. ASSUME UNCHANGED <<order, escrow>>, NEW u \in Outsiders \cup Closers,
             \A z \in Users \ {u} : SolGain(z) >= 0 /\ KeepsTokens(z)
      PROVE  CreatorsPay
  BY <1>5 DEF CreatorsPay
<1>6. ASSUME NEW u \in Outsiders, NEW a \in (Orders \cup EscrowKeys) \X Mints, OutsideStep(u, a)
      PROVE  CreatorsPay
  <2>1. a \in Atas(Owners) /\ a[1] # u
    BY Disjoint, EscrowSrcAssumption DEF Atas
  <2>2. UNCHANGED <<order, escrow>>
    BY <1>6 DEF OutsideStep, OutsideOpen, OutsideDeposit, OutsideLamports, OutsideSync, BankOnly
  <2> QED BY <1>5, <1>6, <2>1, <2>2, OutsideSpares
<1>7. ASSUME NEW u \in Closers, NEW a \in Users \X Mints, UserAtaStep(u, a)
      PROVE  CreatorsPay
  <2>1. UNCHANGED <<order, escrow>>
    BY <1>7, UserAtaTouches DEF BankOnly
  <2> QED BY <1>5, <1>7, <2>1, UserAtaSpares
<1> QED BY <1>2, <1>3, <1>4, <1>6, <1>7 DEF Next

\* An instruction of the program takes nothing from anybody but the maker of the
\* order that it creates and, lamports only, the taker of the escrow that it
\* creates; it closes no user's token account (every handler of the program).
THEOREM OthersPayNothing == Spec => OnlyCreatorsPay
<1>1. TypeInv /\ [Next]_vars => CreatorsPay
  BY NextPays
<1> QED BY <1>1, TypesInvariant, PTL DEF Spec, OnlyCreatorsPay

=============================================================================
