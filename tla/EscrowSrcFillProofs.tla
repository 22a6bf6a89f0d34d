------------------------- MODULE EscrowSrcFillProofs -------------------------
(***************************************************************************)
(* The proofs that no secret of an order serves two fills, that every fill *)
(* pays its share of the order's dst_amount, and that what remains of an   *)
(* order can be taken, for every order, number of parts, auction and       *)
(* sequence of fills.                                                      *)
(*                                                                         *)
(* DistinctSecrets is not inductive.  What makes the next fill's index     *)
(* larger than all before it is how they relate to remaining_amount: none  *)
(* exceeds the index of the last token that is gone.  FillsInv adds that.  *)
(***************************************************************************)
EXTENDS EscrowSrcProofs, AuctionProofs

\* The index of the last token that a live order has given away.
LastIndex(o) ==
  PrevCalculatedIndex(order[o].remaining_amount, Terms[o].amount, Terms[o].parts)

\* The history of a live order of multiple fills, against what remains of it.
HistoryAt(o) ==
  (order[o].live /\ Terms[o].allow_multiple_fills) =>
    /\ order[o].remaining_amount \in 1..Terms[o].amount
    /\ \A i \in DOMAIN fills[o] :
         order[o].remaining_amount < Terms[o].amount /\ fills[o][i].index <= LastIndex(o)

DistinctAt(o) ==
  Terms[o].allow_multiple_fills =>
    \A i, j \in DOMAIN fills[o] : i < j => fills[o][i].index < fills[o][j].index

FillsInv == \A o \in Orders : HistoryAt(o) /\ DistinctAt(o)

-----------------------------------------------------------------------------
\* Arithmetic.

\* Division by a constant is monotone.
LEMMA DivMonotone ==
  ASSUME NEW x \in Nat, NEW y \in Nat, x <= y, NEW d \in Nat \ {0}
  PROVE  x \div d <= y \div d
OBVIOUS

\* So is multiplication.
LEMMA TimesMonotone ==
  ASSUME NEW x \in Nat, NEW y \in Nat, x <= y, NEW p \in Nat
  PROVE  x * p <= y * p
OBVIOUS

\* Later tokens lie in the same part or in a later one.
LEMMA PartMonotone ==
  ASSUME NEW m \in Nat \ {0}, NEW n \in Nat, m <= n, NEW total \in Nat \ {0},
         NEW parts \in Nat
  PROVE  /\ PartOf(m, total, parts) \in Nat /\ PartOf(n, total, parts) \in Nat
         /\ PartOf(m, total, parts) <= PartOf(n, total, parts)
<1>1. m - 1 \in Nat /\ n - 1 \in Nat /\ m - 1 <= n - 1
  OBVIOUS
<1>2. /\ (m - 1) * parts \in Nat /\ (n - 1) * parts \in Nat
      /\ (m - 1) * parts <= (n - 1) * parts
  BY <1>1, TimesFact, TimesMonotone
<1> QED BY <1>2, DivFact, DivMonotone DEF PartOf

-----------------------------------------------------------------------------
\* The steps.

\* A step that leaves an order and its history alone leaves the invariant of
\* that order alone.
LEMMA FillsKept ==
  ASSUME FillsInv, UNCHANGED <<order, fills>>
  PROVE  FillsInv'
BY DEF FillsInv, HistoryAt, DistinctAt, LastIndex

\* A dropped order has no history to relate to what remains.
LEMMA FillsDropped ==
  ASSUME TypeInv, FillsInv, NEW o \in Orders, DropOrder(o), UNCHANGED fills
  PROVE  FillsInv'
<1> SUFFICES ASSUME NEW p \in Orders PROVE HistoryAt(p)' /\ DistinctAt(p)'
  BY DEF FillsInv
<1>1. DistinctAt(p)'
  BY DEF FillsInv, DistinctAt
<1>2. CASE p = o
  BY <1>1, <1>2 DEF DropOrder, NoOrder, TypeInv, TypeOK, HistoryAt
<1>3. CASE p # o
  BY <1>1, <1>3 DEF DropOrder, TypeInv, TypeOK, FillsInv, HistoryAt, LastIndex
<1> QED BY <1>2, <1>3

\* create begins an empty history, with a non-zero amount.
LEMMA FillsCreated ==
  ASSUME TypeInv, FillsInv, NEW o \in Orders, Create(o)
  PROVE  FillsInv'
<1> SUFFICES ASSUME NEW p \in Orders PROVE HistoryAt(p)' /\ DistinctAt(p)'
  BY DEF FillsInv
<1>1. CASE p = o
  <2>1. Terms[o].amount \in 1..Terms[o].amount
    BY OrderFact DEF Create, CreateAllowed
  <2>2. order'[o].remaining_amount = Terms[o].amount /\ fills'[o] = <<>>
    BY DEF Create, TypeInv, TypeOK
  <2> QED BY <1>1, <2>1, <2>2 DEF HistoryAt, DistinctAt
<1>2. CASE p # o
  <2>1. order'[p] = order[p] /\ fills'[p] = fills[p]
    BY <1>2 DEF Create, TypeInv, TypeOK
  <2> QED BY <2>1 DEF FillsInv, HistoryAt, DistinctAt, LastIndex
<1> QED BY <1>1, <1>2

\* What is_valid_partial_fill gives: a fill's index exceeds those before it and,
\* unless it completes the order, is the index of its own last token.
LEMMA NextIndex ==
  ASSUME TypeInv, FillsInv, NEW k \in EscrowKeys, NEW proof \in Proofs(k.order),
         CreateEscrow(k, proof), Terms[k.order].allow_multiple_fills
  PROVE  LET o == k.order
             left == order[o].remaining_amount - k.amount
         IN  /\ \A i \in DOMAIN fills[o] : fills[o][i].index < proof.index
             /\ ~LastFill(o, k.amount) =>
                  /\ left \in 1..(Terms[o].amount - 1)
                  /\ proof.index = PrevCalculatedIndex(left, Terms[o].amount, Terms[o].parts)
<1> DEFINE o == k.order
           total == Terms[o].amount
           parts == Terms[o].parts
           r == order[o].remaining_amount
           m == k.amount
           n == total - r + m
<1>1. o \in Orders /\ m \in Nat /\ total \in Nat /\ proof.index \in Nat
  BY EscrowKeyFact, OrderFact
<1>2. parts \in Nat
  BY <1>1, TermsAssumption DEF TermsSet
<1>3. r \in 1..total
  BY <1>1 DEF FillsInv, HistoryAt, CreateEscrow
<1>4. m <= r
  BY DEF CreateEscrow, FillAmountAllowed
<1>5. IsValidPartialFill(m, r, total, parts, proof.index)
  BY DEF CreateEscrow, FillIndexAllowed
<1>6. n >= 1 /\ n \in Nat /\ total \in Nat \ {0} /\ total - r \in Nat /\ total - r <= n
      /\ total - (r - m) = n
  BY <1>1, <1>3, <1>4, <1>5 DEF IsValidPartialFill, PartFits
<1>7. PartOf(n, total, parts) \in Nat
  <2>1. n \in Nat \ {0} /\ n <= n
    BY <1>6
  <2> HIDE DEF n, total, parts
  <2> QED BY <1>2, <1>6, <2>1, PartMonotone
<1>8. IF r = m THEN proof.index = PartOf(n, total, parts) + 1
      ELSE /\ proof.index = PartOf(n, total, parts)
           /\ total # r => PartOf(n, total, parts) # PartOf(total - r, total, parts)
  BY <1>5 DEF IsValidPartialFill, CalculatedIndex, PrevCalculatedIndex
<1>9. ASSUME NEW i \in DOMAIN fills[o]
      PROVE  fills[o][i].index < proof.index
  <2>1. r < total /\ fills[o][i].index <= PartOf(total - r, total, parts)
    BY <1>1, <1>9 DEF FillsInv, HistoryAt, LastIndex, PrevCalculatedIndex, CreateEscrow
  <2>2. fills[o][i].index \in Nat
    <3>1. fills[o] \in Seq(Fill)
      BY <1>1 DEF TypeInv, TypeOK
    <3>2. fills[o][i] \in Fill
      BY <1>9, <3>1
    <3> QED BY <3>2 DEF Fill
  <2>3. total - r \in Nat \ {0}
    BY <1>1, <1>3, <2>1
  <2>4. /\ PartOf(total - r, total, parts) \in Nat
        /\ PartOf(total - r, total, parts) <= PartOf(n, total, parts)
    <3> HIDE DEF n, total, parts, r
    <3> QED BY <1>2, <1>6, <2>3, PartMonotone
  <2> HIDE DEF n
  <2>5. CASE r = m
    BY <1>7, <1>8, <2>1, <2>2, <2>4, <2>5
  <2>6. CASE r # m
    <3>1. total # r
      BY <1>1, <1>3, <2>1
    <3>2. /\ proof.index = PartOf(n, total, parts)
          /\ PartOf(n, total, parts) # PartOf(total - r, total, parts)
      BY <1>8, <2>6, <3>1
    <3> HIDE DEF total, parts, r, m, o
    <3> QED BY <1>7, <2>1, <2>2, <2>4, <3>2
  <2> QED BY <2>5, <2>6
<1>10. ASSUME ~LastFill(o, m)
       PROVE  r - m \in 1..(total - 1) /\ proof.index = PrevCalculatedIndex(r - m, total, parts)
  <2>1. r # m
    BY <1>10 DEF LastFill, Completes
  <2>2. r - m \in 1..(total - 1)
    <3>1. r \in Int /\ m \in Int /\ total \in Int /\ 1 <= r
      BY <1>1, <1>3
    <3> HIDE DEF r, m, total
    <3> QED BY <1>4, <1>6, <2>1, <3>1
  <2> QED BY <1>6, <1>8, <2>1, <2>2 DEF PrevCalculatedIndex
<1> QED BY <1>9, <1>10

\* create_escrow extends the history by an index above all others.
LEMMA FillsExtended ==
  ASSUME TypeInv, FillsInv, NEW k \in EscrowKeys, NEW proof \in Proofs(k.order),
         CreateEscrow(k, proof)
  PROVE  FillsInv'
<1> SUFFICES ASSUME NEW p \in Orders PROVE HistoryAt(p)' /\ DistinctAt(p)'
  BY DEF FillsInv
<1> DEFINE o == k.order
           left == order[o].remaining_amount - k.amount
<1>1. o \in Orders
  BY EscrowKeyFact
<1>2. CASE p # o
  <2>1. order'[p] = order[p] /\ fills'[p] = fills[p]
    BY <1>1, <1>2 DEF CreateEscrow, TypeInv, TypeOK
  <2> QED BY <2>1 DEF FillsInv, HistoryAt, DistinctAt, LastIndex
<1>3. CASE p = o /\ ~Terms[o].allow_multiple_fills
  BY <1>3 DEF HistoryAt, DistinctAt
<1>4. CASE p = o /\ Terms[o].allow_multiple_fills
  <2> DEFINE len == Len(fills[o])
  <2>1. PICK new : new.index = proof.index /\ fills' = [fills EXCEPT ![o] = Append(fills[o], new)]
    BY DEF CreateEscrow
  <2>2. fills[o] \in Seq(Fill) /\ fills'[o] = Append(fills[o], new)
    BY <1>1, <2>1 DEF TypeInv, TypeOK
  <2>3. /\ len \in Nat /\ DOMAIN fills[o] = 1..len /\ DOMAIN fills'[o] = 1..(len + 1)
        /\ \A i \in 1..len : fills'[o][i] = fills[o][i] /\ fills[o][i].index \in Nat
        /\ fills'[o][len + 1] = new
    <3>1. len \in Nat /\ DOMAIN fills[o] = 1..len /\ \A i \in 1..len : fills[o][i] \in Fill
      BY <2>2
    <3>2. \A i \in 1..len : fills[o][i].index \in Nat
      BY <3>1 DEF Fill
    <3>3. fills[o] \in Seq(Fill \cup {new}) /\ new \in Fill \cup {new}
      BY <3>1, <2>2
    <3>4. /\ DOMAIN fills'[o] = 1..(len + 1) /\ fills'[o][len + 1] = new
          /\ \A i \in 1..len : fills'[o][i] = fills[o][i]
      BY <2>2, <3>3
    <3> QED BY <3>1, <3>2, <3>4
  <2>4. /\ \A i \in 1..len : fills[o][i].index < proof.index
        /\ ~LastFill(o, k.amount) =>
             /\ left \in 1..(Terms[o].amount - 1)
             /\ proof.index = PrevCalculatedIndex(left, Terms[o].amount, Terms[o].parts)
    BY <1>4, <2>3, NextIndex
  <2>5. proof.index \in Nat /\ Terms[o].amount \in Nat
    BY <1>1, OrderFact
  <2>6. DistinctAt(o)'
    <3> SUFFICES ASSUME NEW i \in 1..(len + 1), NEW j \in 1..(len + 1), i < j
                 PROVE  fills'[o][i].index < fills'[o][j].index
      BY <2>3 DEF DistinctAt
    <3>1. i \in 1..len
      BY <2>3
    <3>2. CASE j \in 1..len
      <4>1. fills[o][i].index < fills[o][j].index
        BY <1>1, <1>4, <2>3, <3>1, <3>2 DEF FillsInv, DistinctAt
      <4>2. fills'[o][i] = fills[o][i] /\ fills'[o][j] = fills[o][j]
        BY <2>3, <3>1, <3>2
      <4> QED BY <4>1, <4>2
    <3>3. CASE j = len + 1
      BY <2>1, <2>3, <2>4, <3>1, <3>3
    <3>4. j \in 1..len \/ j = len + 1
      <4>1. len \in Nat
        BY <2>3
      <4> HIDE DEF len
      <4> QED BY <4>1
    <3> QED BY <3>2, <3>3, <3>4
  <2>7. HistoryAt(o)'
    <3>1. CASE LastFill(o, k.amount)
      <4>1. order'[o] = NoOrder
        BY <1>1, <3>1 DEF CreateEscrow, TypeInv, TypeOK
      <4> QED BY <4>1 DEF HistoryAt, NoOrder
    <3>2. CASE ~LastFill(o, k.amount)
      <4>1. order'[o].remaining_amount = left
        BY <1>1, <3>2 DEF CreateEscrow, TypeInv, TypeOK, OrderState
      <4>2. left \in 1..Terms[o].amount /\ left < Terms[o].amount
        BY <2>4, <2>5, <3>2
      <4>3. LastIndex(o)' = proof.index
        BY <2>4, <3>2, <4>1 DEF LastIndex
      <4>4. \A i \in DOMAIN fills'[o] : fills'[o][i].index <= proof.index
        <5> SUFFICES ASSUME NEW i \in 1..(len + 1) PROVE fills'[o][i].index <= proof.index
          BY <2>3
        <5>1. CASE i \in 1..len
          BY <2>3, <2>4, <2>5, <5>1
        <5>2. CASE i = len + 1
          BY <2>1, <2>3, <2>5, <5>2
        <5> QED BY <2>3, <5>1, <5>2
      <4> HIDE DEF left
      <4> QED BY <4>1, <4>2, <4>3, <4>4 DEF HistoryAt
    <3> QED BY <3>1, <3>2
  <2> QED BY <1>4, <2>6, <2>7
<1> QED BY <1>2, <1>3, <1>4

-----------------------------------------------------------------------------
\* Every step keeps the invariant.
LEMMA NextFills ==
  ASSUME TypeInv, FillsInv, [Next]_vars
  PROVE  FillsInv'
<1>1. ASSUME NEW o \in Orders, OrderStep(o) PROVE FillsInv'
  <2>1. CASE Create(o)
    BY <2>1, FillsCreated
  <2>2. CASE CancelOrder(o)
    BY <2>2, FillsDropped DEF CancelOrder
  <2>3. CASE \E r \in Users, limit \in RewardLimits : CancelOrderByResolver(o, r, limit)
    BY <2>3, FillsDropped DEF CancelOrderByResolver
  <2>4. CASE \E r \in Users, m \in Mints : \E n \in 0..bank.ata[Ata(o, m)].amount :
               RescueFundsForOrder(o, r, m, n)
    BY <2>4, FillsKept DEF RescueFundsForOrder, Rescue
  <2> QED BY <1>1, <2>1, <2>2, <2>3, <2>4 DEF OrderStep
<1>2. ASSUME NEW k \in EscrowKeys, EscrowStep(k) PROVE FillsInv'
  <2>1. CASE \E proof \in Proofs(k.order) : CreateEscrow(k, proof)
    BY <2>1, FillsExtended
  <2>2. CASE ~\E proof \in Proofs(k.order) : CreateEscrow(k, proof)
    <3>1. UNCHANGED <<order, fills>>
      BY <1>2, <2>2
      DEF EscrowStep, Withdraw, PublicWithdraw, WithdrawWith, CancelEscrow, PublicCancelEscrow,
          CancelTo, RescueFundsForEscrow, Rescue
    <3> QED BY <3>1, FillsKept
  <2> QED BY <2>1, <2>2
<1>3. ASSUME NEW u, NEW a, OutsideStep(u, a) \/ UserAtaStep(u, a) PROVE FillsInv'
  BY <1>3, FillsKept
  DEF OutsideStep, UserAtaStep, OutsideOpen, OutsideDeposit, OutsideLamports, OutsideSync,
      CloseOwnAta, BankOnly
<1>4. CASE \/ Tick
           \/ \E s \in Secrets : RevealSecret(s)
           \/ \E u \in Resolvers : Register(u) \/ Deregister(u)
           \/ UNCHANGED vars
  BY <1>4, FillsKept DEF Tick, RevealSecret, Register, Deregister, vars
<1> QED BY <1>1, <1>2, <1>3, <1>4 DEF Next

\* FillsInv is an invariant.
THEOREM FillsInvariant == Spec => []FillsInv
<1>1. Init => FillsInv
  BY DEF Init, NoOrder, FillsInv, HistoryAt, DistinctAt
<1>2. TypeInv /\ FillsInv /\ [Next]_vars => FillsInv'
  BY NextFills
<1> QED BY <1>1, <1>2, TypesInvariant, PTL DEF Spec

\* However an order is cut into parts and filled, the secret that its maker
\* discloses for one fill opens no other: is_valid_partial_fill makes the
\* indices of an order's fills strictly increasing, so no leaf of its Merkle
\* tree serves twice.
THEOREM SecretsStayDistinct == Spec => []DistinctSecrets
<1>1. FillsInv => DistinctSecrets
  BY DEF FillsInv, DistinctAt, DistinctSecrets
<1> QED BY <1>1, FillsInvariant, PTL

-----------------------------------------------------------------------------
\* The prices.

\* What "create" checks of the amount and of the parts that it is cut into.
CheckedAt(o) ==
  order[o].live => /\ Terms[o].amount # 0
                   /\ Terms[o].allow_multiple_fills => Terms[o].parts > 1

\* FillsPayTheirShare for one fill; a share is of an amount that is not zero.
Pays(o, f) == f.dst_amount * Terms[o].amount >= Terms[o].dst_amount * (f.upto - f.from)

PaidAt(o) ==
  /\ CheckedAt(o)
  /\ \A i \in DOMAIN fills[o] : Pays(o, fills[o][i])

PaidInv == \A o \in Orders : PaidAt(o)

\* A step that makes no order and no fill keeps it.
LEMMA PaidKept ==
  ASSUME PaidInv, UNCHANGED fills, \A o \in Orders : order'[o].live => order[o].live
  PROVE  PaidInv'
BY DEF PaidInv, PaidAt, CheckedAt, Pays

\* A new order has no fills yet.
LEMMA PaidCreated ==
  ASSUME TypeInv, PaidInv, NEW o \in Orders, Create(o)
  PROVE  PaidInv'
<1> SUFFICES ASSUME NEW p \in Orders PROVE PaidAt(p)'
  BY DEF PaidInv
<1>1. CASE p = o
  <2>1. /\ Terms[o].amount # 0 /\ fills'[o] = <<>>
        /\ Terms[o].allow_multiple_fills => Terms[o].parts > 1
    BY DEF Create, CreateAllowed, TypeInv, TypeOK
  <2> QED BY <1>1, <2>1 DEF PaidAt, CheckedAt
<1>2. CASE p # o
  <2>1. order'[p] = order[p] /\ fills'[p] = fills[p]
    BY <1>2 DEF Create, TypeInv, TypeOK
  <2> QED BY <2>1 DEF PaidInv, PaidAt, CheckedAt, Pays
<1> QED BY <1>1, <1>2

\* The fill that create_escrow records is as large as the escrow, and pays for it.
LEMMA NewFillPays ==
  ASSUME TypeInv, PaidInv, NEW k \in EscrowKeys, NEW proof \in Proofs(k.order),
         CreateEscrow(k, proof)
  PROVE  \E f \in Fill : /\ fills' = [fills EXCEPT ![k.order] = Append(fills[k.order], f)]
                         /\ Pays(k.order, f)
<1> DEFINE o == k.order
           t == Terms[o]
           gone == t.amount - order[o].remaining_amount
           f == [index |-> proof.index, from |-> gone, upto |-> gone + k.amount,
                 dst_amount |-> FillDst(k)]
<1>1. /\ o \in Orders /\ k.amount \in Nat /\ t.amount \in Nat /\ proof.index \in Nat
      /\ order[o].remaining_amount \in Nat /\ now \in Nat
  BY EscrowKeyFact, OrderFact, SoundFact DEF TypeInv, TypeOK, OrderState
<1>2. t.dst_amount \in Nat /\ t.auction \in AuctionDatas
  BY <1>1, TermsAssumption, WidthsAssumption DEF TermsSet, U256
<1>3. t.amount # 0
  BY <1>1 DEF CreateEscrow, PaidInv, PaidAt, CheckedAt
<1>4. FillDst(k) * t.amount >= t.dst_amount * k.amount
  <2>1. FillDst(k) = GetDstAmount(ScaledDstAmount(t.dst_amount, k.amount, t.amount), now, t.auction)
    BY DEF FillDst
  <2>2. t.amount \in Nat \ {0}
    BY <1>1, <1>3
  <2> HIDE DEF t
  <2> QED BY <1>1, <1>2, <2>1, <2>2, ShareFact
<1>5. FillDst(k) \in U256
  BY FillDstFact DEF CreateEscrow
<1>6. f \in Fill
  BY <1>1, <1>5 DEF Fill
<1>7. f.upto - f.from = k.amount
  <2>1. gone \in Int
    BY <1>1
  <2> HIDE DEF gone
  <2>2. (gone + k.amount) - gone = k.amount
    BY <1>1, <2>1
  <2> QED BY <2>2
<1>8. Pays(o, f)
  BY <1>4, <1>7 DEF Pays
<1>9. fills' = [fills EXCEPT ![o] = Append(fills[o], f)]
  BY DEF CreateEscrow
<1> HIDE DEF f
<1> QED BY <1>6, <1>8, <1>9

\* create_escrow appends it to the fills before, which pay already.
LEMMA PaidExtended ==
  ASSUME TypeInv, PaidInv, NEW k \in EscrowKeys, NEW proof \in Proofs(k.order),
         CreateEscrow(k, proof)
  PROVE  PaidInv'
<1> SUFFICES ASSUME NEW p \in Orders PROVE PaidAt(p)'
  BY DEF PaidInv
<1> DEFINE o == k.order
<1>1. o \in Orders /\ order[o].live
  BY EscrowKeyFact DEF CreateEscrow
<1>2. PICK f \in Fill : fills' = [fills EXCEPT ![o] = Append(fills[o], f)] /\ Pays(o, f)
  BY NewFillPays
<1>3. CheckedAt(p)'
  <2>1. p # o => order'[p] = order[p]
    BY <1>1 DEF CreateEscrow, TypeInv, TypeOK
  <2> QED BY <1>1, <2>1 DEF PaidInv, PaidAt, CheckedAt
<1>4. CASE p # o
  <2>1. fills'[p] = fills[p]
    BY <1>1, <1>2, <1>4 DEF TypeInv, TypeOK
  <2> QED BY <1>3, <2>1 DEF PaidInv, PaidAt, Pays
<1>5. CASE p = o
  <2>1. fills[o] \in Seq(Fill) /\ fills'[o] = Append(fills[o], f)
    BY <1>1, <1>2 DEF TypeInv, TypeOK
  <2>2. ASSUME NEW s \in Seq(Fill), NEW i \in DOMAIN Append(s, f)
        PROVE  (i \in DOMAIN s /\ Append(s, f)[i] = s[i]) \/ Append(s, f)[i] = f
    OBVIOUS
  <2>3. ASSUME NEW i \in DOMAIN fills'[o]
        PROVE  (i \in DOMAIN fills[o] /\ fills'[o][i] = fills[o][i]) \/ fills'[o][i] = f
    BY <2>1, <2>2, <2>3
  <2>4. \A i \in DOMAIN fills'[o] : Pays(o, fills'[o][i])
    BY <1>1, <1>2, <2>3 DEF PaidInv, PaidAt
  <2> QED BY <1>3, <1>5, <2>4 DEF PaidAt, Pays
<1> QED BY <1>4, <1>5

\* Every step keeps it.
LEMMA NextPaid ==
  ASSUME TypeInv, PaidInv, [Next]_vars
  PROVE  PaidInv'
<1>1. ASSUME NEW o \in Orders, DropOrder(o), UNCHANGED fills PROVE PaidInv'
  <2>1. \A p \in Orders : order'[p].live => order[p].live
    BY <1>1 DEF DropOrder, NoOrder, TypeInv, TypeOK
  <2> QED BY <1>1, <2>1, PaidKept
<1>2. ASSUME UNCHANGED <<order, fills>> PROVE PaidInv'
  BY <1>2, PaidKept
<1>3. ASSUME NEW o \in Orders, OrderStep(o) PROVE PaidInv'
  <2>1. CASE Create(o)
    BY <2>1, PaidCreated
  <2>2. CASE CancelOrder(o)
    BY <1>1, <2>2 DEF CancelOrder
  <2>3. CASE \E r \in Users, limit \in RewardLimits : CancelOrderByResolver(o, r, limit)
    BY <1>1, <2>3 DEF CancelOrderByResolver
  <2>4. CASE \E r \in Users, m \in Mints : \E n \in 0..bank.ata[Ata(o, m)].amount :
               RescueFundsForOrder(o, r, m, n)
    BY <1>2, <2>4 DEF RescueFundsForOrder, Rescue
  <2> QED BY <1>3, <2>1, <2>2, <2>3, <2>4 DEF OrderStep
<1>4. ASSUME NEW k \in EscrowKeys, EscrowStep(k) PROVE PaidInv'
  <2>1. CASE \E proof \in Proofs(k.order) : CreateEscrow(k, proof)
    BY <2>1, PaidExtended
  <2>2. CASE ~\E proof \in Proofs(k.order) : CreateEscrow(k, proof)
    <3>1. UNCHANGED <<order, fills>>
      BY <1>4, <2>2
      DEF EscrowStep, Withdraw, PublicWithdraw, WithdrawWith, CancelEscrow, PublicCancelEscrow,
          CancelTo, RescueFundsForEscrow, Rescue
    <3> QED BY <1>2, <3>1
  <2> QED BY <2>1, <2>2
<1>5. ASSUME NEW u, NEW a, OutsideStep(u, a) \/ UserAtaStep(u, a) PROVE PaidInv'
  BY <1>2, <1>5
  DEF OutsideStep, UserAtaStep, OutsideOpen, OutsideDeposit, OutsideLamports, OutsideSync,
      CloseOwnAta, BankOnly
<1>6. CASE \/ Tick
           \/ \E s \in Secrets : RevealSecret(s)
           \/ \E u \in Resolvers : Register(u) \/ Deregister(u)
           \/ UNCHANGED vars
  BY <1>2, <1>6 DEF Tick, RevealSecret, Register, Deregister, vars
<1> QED BY <1>3, <1>4, <1>5, <1>6 DEF Next

\* PaidInv is an invariant.
LEMMA PaidInvariant == Spec => []PaidInv
<1>1. Init => PaidInv
  BY DEF Init, NoOrder, PaidInv, PaidAt, CheckedAt
<1>2. TypeInv /\ PaidInv /\ [Next]_vars => PaidInv'
  BY NextPaid
<1> QED BY <1>1, <1>2, TypesInvariant, PTL DEF Spec

\* However an order is filled and whatever its auction, no fill pays less than
\* its share of the order's dst_amount, so that fills of the whole order pay all
\* of it: both divisions round up, and the rate is never negative (create_escrow,
\* get_dst_amount).
THEOREM FillsPay == Spec => []FillsPayTheirShare
<1>1. PaidInv => FillsPayTheirShare
  BY DEF PaidInv, PaidAt, Pays, FillsPayTheirShare
<1> QED BY <1>1, PaidInvariant, PTL

-----------------------------------------------------------------------------
\* The rest of an order.

\* is_valid_partial_fill multiplies the number of a token, from 0, by the number of
\* parts, in 64 bits.  For an order too large for that the fill that would complete
\* it aborts; nothing in "create" prevents such an order.
PartsFit ==
  \A o \in Orders : Terms[o].allow_multiple_fills =>
    (Terms[o].amount - 1) * Terms[o].parts <= MAX_U64

\* The last token is in one of the parts.
LEMMA LastPart ==
  ASSUME NEW total \in Nat \ {0}, NEW parts \in Nat \ {0}
  PROVE  PartOf(total, total, parts) \in 0..(parts - 1)
<1> DEFINE w == (total - 1) * parts
           q == w \div total
<1>1. total - 1 \in Nat /\ w \in Nat /\ w < parts * total
  <2>1. total - 1 \in Nat /\ total = (total - 1) + 1
    OBVIOUS
  <2>2. w \in Nat /\ ((total - 1) + 1) * parts = w + 1 * parts /\ 1 * parts = parts
    BY <2>1, ProductFact
  <2>3. total * parts = parts * total
    BY ProductFact
  <2> HIDE DEF w
  <2> QED BY <2>1, <2>2, <2>3
<1> HIDE DEF w
<1>2. q \in Nat /\ total * q <= w
  BY <1>1
<1> HIDE DEF q
<1>3. ~(parts <= q)
  <2> SUFFICES ASSUME parts <= q PROVE FALSE
    OBVIOUS
  <2>1. parts * total <= q * total /\ q * total = total * q
    BY <1>2, ProductFact
  <2>2. parts * total \in Nat /\ total * q \in Nat
    BY <1>2, ProductFact
  <2> QED BY <1>1, <1>2, <2>1, <2>2
<1>4. PartOf(total, total, parts) = q
  BY DEF PartOf, q, w
<1> QED BY <1>2, <1>3, <1>4

\* Whatever has been filled, the secret of the leaf after that of the last token, which
\* the maker's tree has, opens a fill of all that remains (is_valid_partial_fill).
THEOREM OrdersCompletable ==
  ASSUME PartsFit
  PROVE  Spec => []AlwaysCompletable
<1>1. ASSUME FillsInv, PaidInv, NEW o \in Orders, order[o].live, Terms[o].allow_multiple_fills
      PROVE  \E index \in 0..Terms[o].parts : FillIndexAllowed(o, order[o].remaining_amount, index)
  <2> DEFINE total == Terms[o].amount
             parts == Terms[o].parts
             rest == order[o].remaining_amount
             index == PartOf(total, total, parts) + 1
  <2>1. total \in Nat \ {0} /\ parts \in Nat \ {0} /\ rest \in 1..total
    <3>1. total \in Nat /\ parts \in Nat
      BY TermsAssumption, WidthsAssumption DEF TermsSet, U64
    <3>2. total # 0 /\ parts > 1 /\ rest \in 1..total
      BY <1>1 DEF PaidInv, PaidAt, CheckedAt, FillsInv, HistoryAt
    <3> HIDE DEF total, parts, rest
    <3> QED BY <3>1, <3>2
  <2>2. (total - 1) * parts <= MAX_U64
    BY <1>1 DEF PartsFit
  <2> HIDE DEF total, parts, rest
  <2>3. total - rest + rest = total
    BY <2>1
  <2>4. PartFits(total, parts)
    BY <2>1, <2>2 DEF PartFits
  <2>5. index \in 0..parts
    BY <2>1, LastPart
  <2>6. IsValidPartialFill(rest, rest, total, parts, index)
    BY <2>3, <2>4 DEF IsValidPartialFill, CalculatedIndex
  <2>7. FillIndexAllowed(o, rest, index)
    BY <2>6 DEF FillIndexAllowed, total, parts, rest
  <2> HIDE DEF index
  <2> QED BY <2>5, <2>7 DEF parts, rest
<1>2. FillsInv /\ PaidInv => AlwaysCompletable
  BY <1>1 DEF AlwaysCompletable
<1> QED BY <1>2, FillsInvariant, PaidInvariant, PTL

=============================================================================
