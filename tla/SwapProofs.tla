------------------------------ MODULE SwapProofs ------------------------------
(***************************************************************************)
(* The proofs that a swap takes nothing from its maker or its taker, and   *)
(* that both can use a disclosed secret to the last moment, for any number *)
(* of orders, fills and escrows, any terms and any offers.                 *)
(*                                                                         *)
(* What ties the two escrows of a fill together differs before and after   *)
(* its secret is out.  Before, a destination escrow that can still pay is  *)
(* covered by a source escrow that lasts no less long (Linked).  The       *)
(* secret comes out when every source escrow it opens has such a partner,  *)
(* and from then on each payment is matched by one made or still possible  *)
(* (Balanced); no source escrow is added to those it opens, because no     *)
(* later fill of the order has its index (UsedIfOut).                      *)
(*                                                                         *)
(* A swap is a behaviour of both programs (ProgramsCompose), so what is    *)
(* proved of one holds of its half.  With it, a watcher that could pay for *)
(* the recipients' accounts at the start still can when it is needed, and  *)
(* no call that a withdrawal makes fails (LastCallsAnswered).  An escrow   *)
(* that a secret opens is over before its rescue starts: by the maker's    *)
(* terms on the source chain, and since "create" compares the cancellation *)
(* times on the destination chain.                                         *)
(***************************************************************************)
EXTENDS Swap, Sequences, FiniteSetTheorems, TLAPS

-----------------------------------------------------------------------------
\* The steps, without what they do to banks and to the whitelist.

Quiet == UNCHANGED <<now, revealed, src_order, src_escrow, fills, dst_escrow, paid>>

Passes ==
  /\ now < MaxTime /\ now' = now + 1
  /\ \A k \in SrcKeys : ~LastCallSrc(k)
  /\ \A d \in DstKeys : ~LastCallDst(d)
  /\ UNCHANGED <<revealed, src_order, src_escrow, fills, dst_escrow, paid>>

Disclosed(s) ==
  /\ revealed' = revealed \cup {s}
  /\ Opens(s) # {} /\ \A k \in Opens(s) : PartnerPays(k)
  /\ UNCHANGED <<now, src_order, src_escrow, fills, dst_escrow, paid>>

Created(o) ==
  /\ \A h \in SecretsOf(o) :
       ~Out(h) /\ \A k \in SrcKeys : k.hashlock = h => ~src_escrow[k].live
  /\ Terms[o].amount # 0
  /\ src_order' = [src_order EXCEPT ![o] =
                     [live             |-> TRUE,
                      remaining_amount |-> Terms[o].amount,
                      timelocks        |-> Src!SetDeployedAt(Terms[o].timelocks, now)]]
  /\ fills' = [fills EXCEPT ![o] = <<>>]
  /\ UNCHANGED <<now, revealed, src_escrow, dst_escrow, paid>>

Dropped(o) ==
  /\ src_order' = [src_order EXCEPT ![o] = Src!NoOrder]
  /\ UNCHANGED <<now, revealed, src_escrow, fills, dst_escrow, paid>>

Filled(k, proof) ==
  LET o == k.order
  IN  /\ src_order[o].live /\ ~src_escrow[k].live
      /\ Src!FillAmountAllowed(o, k.amount)
      /\ proof \in Src!Proofs(o) /\ k.hashlock = proof.hashed_secret
      /\ Src!FillIndexAllowed(o, k.amount, proof.index)
      /\ \E n : src_escrow' = [src_escrow EXCEPT ![k] =
                                 [live |-> TRUE, timelocks |-> Src!EscrowTimelocks(o),
                                  dst_amount |-> n]]
      /\ src_order' = [src_order EXCEPT ![o] =
                         IF Src!LastFill(o, k.amount) THEN Src!NoOrder
                         ELSE [src_order[o] EXCEPT !.remaining_amount = @ - k.amount]]
      /\ \E new : new.index = proof.index /\ fills' = [fills EXCEPT ![o] = Append(@, new)]
      /\ UNCHANGED <<now, revealed, dst_escrow, paid>>

SrcEnded(k) ==
  /\ src_escrow[k].live
  /\ src_escrow' = [src_escrow EXCEPT ![k] = Src!NoEscrow]
  /\ UNCHANGED <<now, revealed, src_order, fills, dst_escrow>>

SrcPaid(k) ==
  /\ SrcEnded(k) /\ CountPaid(k) /\ Out(k.hashlock)
  /\ Src!Before(src_escrow[k].timelocks, "SrcCancellation", now)

SrcBack(k) ==
  /\ SrcEnded(k) /\ UNCHANGED paid
  /\ \/ Src!Reached(src_escrow[k].timelocks, "SrcCancellation", now)
     \/ Src!Reached(src_escrow[k].timelocks, "SrcPublicCancellation", now)

Locked(k, offer) ==
  LET tl == Dst!SetDeployedAt(offer.timelocks, now)
  IN  /\ src_escrow[k].live /\ ~Out(k.hashlock)
      /\ Dst!StageTime(tl, "DstCancellation") <= offer.src_cancellation_timestamp
      /\ offer.src_cancellation_timestamp =
           Src!StageTime(src_escrow[k].timelocks, "SrcCancellation")
      /\ \E e : /\ dst_escrow' = [dst_escrow EXCEPT ![Partner[k]] = e]
                /\ e.live = TRUE /\ e.timelocks = tl
      /\ UNCHANGED <<now, revealed, src_order, src_escrow, fills, paid>>

DstEnded(d) ==
  /\ dst_escrow[d].live
  /\ dst_escrow' = [dst_escrow EXCEPT ![d] = Dst!NoEscrow(d)]
  /\ UNCHANGED <<now, revealed, src_order, src_escrow, fills>>

DstPaid(d) ==
  /\ DstEnded(d) /\ CountPaid(d) /\ Out(d.hashlock)
  /\ Dst!Before(dst_escrow[d].timelocks, "DstCancellation", now)

DstBack(d) ==
  /\ DstEnded(d) /\ UNCHANGED paid
  /\ Dst!Reached(dst_escrow[d].timelocks, "DstCancellation", now)

Step ==
  \/ Quiet \/ Passes
  \/ \E s \in Secrets : Disclosed(s)
  \/ \E o \in Orders : Created(o) \/ Dropped(o)
  \/ \E k \in SrcKeys : SrcPaid(k) \/ SrcBack(k)
  \/ \E k \in SrcKeys : \E proof \in Src!Proofs(k.order) : Filled(k, proof)
  \/ \E k \in SrcKeys, offer \in Offers : Locked(k, offer)
  \/ \E d \in DstKeys : DstPaid(d) \/ DstBack(d)

\* Rescues and the strangers' transactions move what the accounts hold only.
SrcAside ==
  \/ \E o \in Orders : OrderRescued(o)
  \/ \E k \in SrcKeys : SrcRescued(k)
  \/ \E u \in Strangers : SrcStranger(u)
DstAside ==
  \/ \E d \in DstKeys : DstRescued(d)
  \/ \E u \in Strangers : DstStranger(u)

LEMMA SrcAsideFact ==
  ASSUME SrcAside
  PROVE  /\ Src!Next /\ OnSrc
         /\ UNCHANGED <<now, revealed, src_order, src_escrow, fills, late, paid>>
<1>1. ASSUME NEW o \in Orders, OrderRescued(o)
      PROVE  /\ Src!Next /\ OnSrc
             /\ UNCHANGED <<now, revealed, src_order, src_escrow, fills, late, paid>>
  <2>1. PICK r \in Users, m \in Mints : \E n \in 0..src_bank.ata[Src!Ata(o, m)].amount :
          Src!RescueFundsForOrder(o, r, m, n)
    BY <1>1 DEF OrderRescued
  <2>2. Src!OrderStep(o)
    BY <2>1 DEF Src!OrderStep
  <2>3. UNCHANGED <<now, revealed, src_order, src_escrow, fills, late>>
    BY <2>1 DEF Src!RescueFundsForOrder, Src!Rescue
  <2> QED BY <1>1, <2>2, <2>3 DEF OrderRescued, Src!Next
<1>2. ASSUME NEW k \in SrcKeys, SrcRescued(k)
      PROVE  /\ Src!Next /\ OnSrc
             /\ UNCHANGED <<now, revealed, src_order, src_escrow, fills, late, paid>>
  <2>1. PICK m \in Mints : \E n \in 0..src_bank.ata[Src!Ata(k, m)].amount :
          Src!RescueFundsForEscrow(k, m, n)
    BY <1>2 DEF SrcRescued
  <2>2. Src!EscrowStep(k)
    BY <2>1 DEF Src!EscrowStep
  <2>3. UNCHANGED <<now, revealed, src_order, src_escrow, fills, late>>
    BY <2>1 DEF Src!RescueFundsForEscrow, Src!Rescue
  <2> QED BY <1>2, <2>2, <2>3 DEF SrcRescued, Src!Next
<1>3. ASSUME NEW u \in Strangers, SrcStranger(u)
      PROVE  /\ Src!Next /\ OnSrc
             /\ UNCHANGED <<now, revealed, src_order, src_escrow, fills, late, paid>>
  <2>1. PICK a \in (Orders \cup SrcKeys) \X Mints : Src!OutsideStep(u, a)
    BY <1>3 DEF SrcStranger
  <2>2. UNCHANGED <<now, revealed, src_order, src_escrow, fills, late>>
    BY <2>1 DEF Src!OutsideStep, Src!OutsideOpen, Src!OutsideDeposit, Src!OutsideLamports,
                Src!OutsideSync, Src!BankOnly
  <2> QED BY <1>3, <2>1, <2>2 DEF SrcStranger, Src!Next
<1> QED BY <1>1, <1>2, <1>3 DEF SrcAside

LEMMA DstAsideFact ==
  ASSUME DstAside
  PROVE  Dst!Next /\ OnDst /\ UNCHANGED <<now, revealed, dst_escrow, paid>>
<1>1. ASSUME NEW d \in DstKeys, DstRescued(d)
      PROVE  Dst!Next /\ OnDst /\ UNCHANGED <<now, revealed, dst_escrow, paid>>
  <2>1. PICK m \in Mints : \E n \in 0..dst_bank.ata[Dst!Ata(d, m)].amount :
          Dst!RescueFundsForEscrow(d, m, n)
    BY <1>1 DEF DstRescued
  <2>2. Dst!EscrowStep(d)
    BY <2>1 DEF Dst!EscrowStep
  <2>3. UNCHANGED <<now, revealed, dst_escrow>>
    BY <2>1 DEF Dst!RescueFundsForEscrow
  <2> QED BY <1>1, <2>2, <2>3 DEF DstRescued, Dst!Next
<1>2. ASSUME NEW u \in Strangers, DstStranger(u)
      PROVE  Dst!Next /\ OnDst /\ UNCHANGED <<now, revealed, dst_escrow, paid>>
  <2>1. \/ \E a \in DstKeys \X Mints : Dst!OutsideStep(u, a)
        \/ \E a \in Users \X Mints : Dst!OutsideOpen(u, a)
    BY <1>2 DEF DstStranger
  <2>2. UNCHANGED <<now, revealed, dst_escrow>>
    BY <2>1 DEF Dst!OutsideStep, Dst!OutsideOpen, Dst!OutsideDeposit, Dst!OutsideLamports,
                Dst!OutsideSync, Dst!BankOnly
  <2> QED BY <1>2, <2>1, <2>2 DEF DstStranger, Dst!Next
<1> QED BY <1>1, <1>2 DEF DstAside

\* A taker locks its side only against a live source escrow, for no longer than it.
LEMMA TakerLocked ==
  ASSUME NEW k \in SrcKeys, NEW offer \in Offers, TakerLocks(k, offer)
  PROVE  Locked(k, offer)
<1> DEFINE d == Partner[k]
           tl == Dst!SetDeployedAt(offer.timelocks, now)
           e == [live |-> TRUE, recipient |-> offer.recipient, token |-> offer.token,
                 asset_is_native |-> offer.asset_is_native,
                 safety_deposit |-> offer.safety_deposit, timelocks |-> tl]
<1>1. /\ UNCHANGED <<src_order, src_escrow, fills, paid>>
      /\ src_escrow[k].live /\ ~Out(k.hashlock)
      /\ offer.src_cancellation_timestamp =
           Src!StageTime(src_escrow[k].timelocks, "SrcCancellation")
      /\ Dst!Create(d, offer)
  BY DEF TakerLocks, OnDst, srcVars
<1>2. /\ Dst!CreateAllowed(d, offer)
      /\ dst_escrow' = [dst_escrow EXCEPT ![d] = e]
      /\ UNCHANGED <<now, revealed>>
  BY <1>1 DEF Dst!Create
<1>3. e.live = TRUE /\ e.timelocks = tl
  OBVIOUS
<1> HIDE DEF e
<1>4. Dst!StageTime(tl, "DstCancellation") <= offer.src_cancellation_timestamp
  BY <1>2 DEF Dst!CreateAllowed
<1> QED BY <1>1, <1>2, <1>3, <1>4 DEF Locked

\* Every step is one of these.
LEMMA Steps ==
  ASSUME [Next]_vars
  PROVE  Step
<1>1. CASE UNCHANGED vars
  BY <1>1 DEF vars, srcVars, dstVars, whitelistVars, Step, Quiet
<1>2. CASE Tick
  BY <1>2 DEF Tick, Src!Tick, srcVars, dstVars, whitelistVars, Step, Passes
<1>3. CASE Authority
  BY <1>3 DEF Authority, srcVars, dstVars, Step, Quiet
<1>4. ASSUME NEW s \in Secrets, MakerDiscloses(s) PROVE Step
  <2>1. Disclosed(s)
    BY <1>4 DEF MakerDiscloses, Src!RevealSecret, srcVars, dstVars, whitelistVars, Disclosed
  <2> QED BY <2>1 DEF Step
<1>5. ASSUME NEW o \in Orders, MakerCreates(o) PROVE Step
  <2>1. Created(o)
    BY <1>5 DEF MakerCreates, OnSrc, dstVars, whitelistVars, Src!Create, Src!CreateAllowed, Created
  <2> QED BY <2>1 DEF Step
<1>6. ASSUME NEW o \in Orders, OrderCancelled(o) PROVE Step
  <2>1. Src!DropOrder(o) /\ UNCHANGED <<now, src_escrow, revealed, fills, dst_escrow, paid>>
    BY <1>6 DEF OrderCancelled, OnSrc, dstVars, Src!CancelOrder, Src!CancelOrderByResolver
  <2>2. Dropped(o)
    BY <2>1 DEF Src!DropOrder, Dropped
  <2> QED BY <2>2 DEF Step
<1>7. ASSUME NEW k \in SrcKeys, TakerFills(k) PROVE Step
  <2>1. PICK proof \in Src!Proofs(k.order) : Src!CreateEscrow(k, proof)
    BY <1>7 DEF TakerFills
  <2>2. UNCHANGED <<dst_escrow, paid>>
    BY <1>7 DEF TakerFills, OnSrc, dstVars
  <2>3. Filled(k, proof)
    BY <2>1, <2>2 DEF Src!CreateEscrow, Filled
  <2> QED BY <2>3 DEF Step
<1>8. ASSUME NEW k \in SrcKeys, TakerWithdraws(k) \/ TakerIsPaid(k) PROVE Step
  <2>1. PICK s \in Secrets :
          Src!Withdraw(k, s) \/ \E payer \in Users : Src!PublicWithdraw(k, s, payer)
    BY <1>8 DEF TakerWithdraws, TakerIsPaid
  <2>2. CountPaid(k) /\ UNCHANGED dst_escrow
    BY <1>8 DEF TakerWithdraws, TakerIsPaid, OnSrc, dstVars
  <2>3. /\ Src!Before(src_escrow[k].timelocks, "SrcCancellation", now)
        /\ src_escrow[k].live /\ s \in revealed /\ Src!HashlockOpened(k, s) /\ Src!CloseEscrow(k)
        /\ UNCHANGED <<now, src_order, revealed, fills>>
    BY <2>1 DEF Src!Withdraw, Src!PublicWithdraw, Src!WithdrawOpen, Src!WithdrawWith
  <2>4. SrcPaid(k)
    BY <2>2, <2>3 DEF Src!HashlockOpened, Src!CloseEscrow, Out, SrcPaid, SrcEnded
  <2> QED BY <2>4 DEF Step
<1>9. ASSUME NEW k \in SrcKeys, SrcReturned(k) PROVE Step
  <2>1. Src!CancelEscrow(k) \/ \E payer \in Users : Src!PublicCancelEscrow(k, payer)
    BY <1>9 DEF SrcReturned
  <2>2. UNCHANGED <<dst_escrow, paid>>
    BY <1>9 DEF SrcReturned, OnSrc, dstVars
  <2>3. /\ \/ Src!CancelOpen(k, "SrcCancellation")
           \/ Src!CancelOpen(k, "SrcPublicCancellation")
        /\ src_escrow[k].live /\ Src!CloseEscrow(k)
        /\ UNCHANGED <<now, src_order, revealed, fills>>
    BY <2>1 DEF Src!CancelEscrow, Src!PublicCancelEscrow, Src!CancelTo
  <2>4. SrcBack(k)
    BY <2>2, <2>3 DEF Src!CancelOpen, Src!CloseEscrow, SrcBack, SrcEnded
  <2> QED BY <2>4 DEF Step
<1>10. ASSUME NEW k \in SrcKeys, NEW offer \in Offers, TakerLocks(k, offer) PROVE Step
  BY <1>10, TakerLocked DEF Step
<1>11. ASSUME NEW d \in DstKeys, TakerPaysMaker(d) \/ \E u \in Users : MakerIsPaid(d, u)
       PROVE  Step
  <2>1. PICK s \in Secrets, with_ata \in BOOLEAN :
          \/ Dst!Withdraw(d, s, with_ata)
          \/ \E payer \in Users : Dst!PublicWithdraw(d, s, payer, with_ata)
    BY <1>11 DEF TakerPaysMaker, MakerIsPaid
  <2>2. CountPaid(d) /\ UNCHANGED <<src_order, src_escrow, fills>>
    BY <1>11 DEF TakerPaysMaker, MakerIsPaid, OnDst, srcVars
  <2>3. /\ Dst!Before(dst_escrow[d].timelocks, "DstCancellation", now)
        /\ dst_escrow[d].live /\ s \in revealed /\ Dst!HashlockOpened(d, s) /\ Dst!CloseEscrow(d)
        /\ UNCHANGED <<now, revealed>>
    BY <2>1 DEF Dst!Withdraw, Dst!PublicWithdraw, Dst!WithdrawOpen, Dst!WithdrawBy
  <2>4. DstPaid(d)
    BY <2>2, <2>3 DEF Dst!HashlockOpened, Dst!CloseEscrow, Out, DstPaid, DstEnded
  <2> QED BY <2>4 DEF Step
<1>12. ASSUME NEW d \in DstKeys, DstReturned(d) PROVE Step
  <2>1. Dst!Cancel(d) /\ UNCHANGED <<src_order, src_escrow, fills, paid>>
    BY <1>12 DEF DstReturned, OnDst, srcVars
  <2>2. DstBack(d)
    BY <2>1 DEF Dst!Cancel, Dst!CloseEscrow, DstBack, DstEnded
  <2> QED BY <2>2 DEF Step
<1>13. CASE SrcAside
  BY <1>13, SrcAsideFact DEF OnSrc, dstVars, Step, Quiet
<1>14. CASE DstAside
  BY <1>14, DstAsideFact DEF OnDst, srcVars, Step, Quiet
<1> QED
  BY <1>1, <1>2, <1>3, <1>4, <1>5, <1>6, <1>7, <1>8, <1>9, <1>10, <1>11, <1>12, <1>13, <1>14
  DEF Next, SrcAside, DstAside

-----------------------------------------------------------------------------
\* Types of what the steps change.

IsHistory(f) == f \in Seq({f[i] : i \in DOMAIN f}) /\ \A i \in DOMAIN f : f[i].index \in Nat

Typed ==
  /\ now \in 0..MaxTime
  /\ src_order \in [Orders -> Src!OrderState]
  /\ src_escrow = [k \in SrcKeys |-> src_escrow[k]]
  /\ \A k \in SrcKeys :
       src_escrow[k].live \in BOOLEAN /\ src_escrow[k].timelocks \in Src!TimelockWords
  /\ dst_escrow = [d \in DstKeys |-> dst_escrow[d]]
  /\ \A d \in DstKeys :
       dst_escrow[d].live \in BOOLEAN /\ dst_escrow[d].timelocks \in Dst!TimelockWords
  /\ fills = [o \in Orders |-> fills[o]]
  /\ \A o \in Orders : IsHistory(fills[o])
  /\ paid \in [SrcKeys \cup DstKeys -> Nat]

\* A partner is an escrow of the other chain, with the same hashlock.
LEMMA PartnerFact ==
  /\ \A k \in SrcKeys :
       Partner[k] \in DstKeys /\ Partner[k] \notin SrcKeys /\ Partner[k].hashlock = k.hashlock
  /\ \A k, l \in SrcKeys : Partner[k] = Partner[l] => k = l
BY SwapAssumption

\* The parts of an address that the steps use.
LEMMA KeyFact ==
  ASSUME NEW k \in SrcKeys
  PROVE  k.order \in Orders /\ k.amount \in Nat
BY SwapTypesAssumption

\* The types of what an order's terms fix.
LEMMA TermsFact ==
  ASSUME NEW o \in Orders
  PROVE  /\ Terms[o].amount \in Nat /\ Terms[o].parts \in Nat
         /\ Terms[o].timelocks \in Src!TimelockWords
         /\ Terms[o].allow_multiple_fills \in BOOLEAN
         /\ \A proof \in Src!Proofs(o) : proof.index \in Nat
<1>1. Terms[o] \in Src!TermsSet
  BY SwapTypesAssumption
<1>2. /\ Terms[o].amount \in Nat /\ Terms[o].parts \in Nat
      /\ Terms[o].timelocks \in Src!TimelockWords
      /\ Terms[o].allow_multiple_fills \in BOOLEAN
  BY <1>1 DEF Src!TermsSet, Src!U64
<1>3. \A proof \in Terms[o].leaves : proof.index \in Nat
  BY <1>1 DEF Src!TermsSet
<1>4. \A proof \in Src!Proofs(o) : proof.index \in Nat
  BY <1>3 DEF Src!Proofs
<1> QED BY <1>2, <1>4

\* A stage of a word, and what the time of deployment does to it.
LEMMA WordFact ==
  ASSUME NEW tl \in Src!TimelockWords, NEW stage \in Src!Stages
  PROVE  /\ tl[stage] \in Nat /\ tl["DeployedAt"] \in Nat
         /\ Src!StageTime(tl, stage) \in Nat
         /\ \A t \in 0..MaxTime : /\ Src!SetDeployedAt(tl, t) \in Src!TimelockWords
                                  /\ Src!SetDeployedAt(tl, t)[stage] = tl[stage]
                                  /\ Src!SetDeployedAt(tl, t)["DeployedAt"] = t
<1>1. stage # "DeployedAt" /\ MAX_U32 \in Nat /\ MaxTime \in 0..MAX_U32
  BY SwapTypesAssumption DEF Src!Stages
<1>2. tl[stage] \in Nat /\ tl["DeployedAt"] \in Nat
  BY <1>1 DEF Src!TimelockWords, Src!U32
<1>3. ASSUME NEW t \in 0..MaxTime
      PROVE  /\ Src!SetDeployedAt(tl, t) \in Src!TimelockWords
             /\ Src!SetDeployedAt(tl, t)[stage] = tl[stage]
             /\ Src!SetDeployedAt(tl, t)["DeployedAt"] = t
  <2>1. t \in 0..MAX_U32
    BY <1>1
  <2> QED BY <1>1, <2>1 DEF Src!SetDeployedAt, Src!TimelockWords, Src!U32
<1> QED BY <1>2, <1>3 DEF Src!StageTime

\* The stages that bound withdrawals; both programs read the same words.
LEMMA StagesFact ==
  /\ {"SrcWithdrawal", "SrcCancellation", "SrcPublicCancellation", "DstPublicWithdrawal",
       "DstCancellation"} \subseteq Src!Stages
  /\ Dst!TimelockWords = Src!TimelockWords
  /\ \A tl, t : Dst!SetDeployedAt(tl, t) = Src!SetDeployedAt(tl, t)
  /\ \A tl, stage : Dst!StageTime(tl, stage) = Src!StageTime(tl, stage)
BY DEF Src!Stages, Dst!Stages, Src!TimelockWords, Dst!TimelockWords, Src!U32, Dst!U32,
       Src!SetDeployedAt, Dst!SetDeployedAt, Src!StageTime, Dst!StageTime

\* A history with one more fill.
LEMMA HistoryFact ==
  ASSUME NEW f, IsHistory(f), NEW new, new.index \in Nat
  PROVE  /\ IsHistory(Append(f, new))
         /\ \A i \in DOMAIN f : i \in DOMAIN Append(f, new) /\ Append(f, new)[i] = f[i]
         /\ \E i \in DOMAIN Append(f, new) : Append(f, new)[i] = new
         /\ \A i \in DOMAIN Append(f, new) : i \in DOMAIN f \/ Append(f, new)[i] = new
<1> DEFINE R == {f[i] : i \in DOMAIN f}
           g == Append(f, new)
           T == {g[i] : i \in DOMAIN g}
           n == Len(f)
<1>1. f \in Seq(R)
  BY DEF IsHistory
<1>2. f \in Seq(R \cup {new})
  <2> HIDE DEF R
  <2> QED BY <1>1
<1>3. n \in Nat /\ DOMAIN f = 1..n
  <2> HIDE DEF R
  <2> QED BY <1>1
<1>4. /\ g \in Seq(R \cup {new}) /\ DOMAIN g = 1..(n + 1) /\ g[n + 1] = new
      /\ Len(g) = n + 1 /\ \A i \in 1..n : g[i] = f[i]
  <2> HIDE DEF R
  <2> QED BY <1>2
<1> HIDE DEF R, g, n
<1>5. g \in Seq(T)
  <2>1. g = [i \in 1..(n + 1) |-> g[i]]
    BY <1>4
  <2>2. \A i \in 1..(n + 1) : g[i] \in T
    BY <1>4
  <2> HIDE DEF T
  <2>3. g \in [1..(n + 1) -> T]
    BY <2>1, <2>2
  <2> QED BY <1>3, <2>3
<1>6. \A i \in 1..(n + 1) : i \in 1..n \/ i = n + 1
  BY <1>3
<1>7. n + 1 \in 1..(n + 1) /\ \A i \in 1..n : i \in 1..(n + 1)
  BY <1>3
<1>8. \A i \in DOMAIN g : g[i].index \in Nat
  BY <1>3, <1>4, <1>6 DEF IsHistory
<1>9. IsHistory(g)
  BY <1>5, <1>8 DEF IsHistory
<1>10. \A i \in DOMAIN f : i \in DOMAIN g /\ g[i] = f[i]
  BY <1>3, <1>4, <1>7
<1>11. \E i \in DOMAIN g : g[i] = new
  BY <1>4, <1>7
<1>12. \A i \in DOMAIN g : i \in DOMAIN f \/ g[i] = new
  BY <1>3, <1>4, <1>6
<1> QED BY <1>9, <1>10, <1>11, <1>12 DEF g

\* Nothing is live at the start, and nothing has been paid.
LEMMA InitTyped == Init => Typed
<1> SUFFICES ASSUME Init PROVE Typed
  OBVIOUS
<1>1. /\ now = 0 /\ src_order = [o \in Orders |-> Src!NoOrder]
      /\ src_escrow = [k \in SrcKeys |-> Src!NoEscrow]
      /\ dst_escrow = [d \in DstKeys |-> Dst!NoEscrow(d)]
      /\ fills = [o \in Orders |-> <<>>]
      /\ paid = [x \in SrcKeys \cup DstKeys |-> 0]
  BY DEF Init, Src!Init, Dst!Init
<1>2. Src!NoTimelocks \in Src!TimelockWords /\ Dst!NoTimelocks \in Dst!TimelockWords
  BY SwapTypesAssumption
  DEF Src!NoTimelocks, Src!TimelockWords, Src!U32, Dst!NoTimelocks, Dst!TimelockWords, Dst!U32
<1>3. 0 \in 0..MaxTime
  BY SwapTypesAssumption
<1>4. IsHistory(<<>>)
  BY DEF IsHistory
<1> QED BY <1>1, <1>2, <1>3, <1>4 DEF Typed, Src!NoOrder, Src!OrderState, Src!NoEscrow, Dst!NoEscrow

\* Every step keeps the types.
LEMMA NextTyped ==
  ASSUME Typed, Step
  PROVE  Typed'
<1>1. CASE Quiet
  BY <1>1 DEF Quiet, Typed
<1>2. CASE Passes
  <2>1. now' \in 0..MaxTime
    BY <1>2, SwapTypesAssumption DEF Passes, Typed
  <2> QED BY <1>2, <2>1 DEF Passes, Typed
<1>3. ASSUME NEW s \in Secrets, Disclosed(s) PROVE Typed'
  BY <1>3 DEF Disclosed, Typed
<1>4. ASSUME NEW o \in Orders, Created(o) PROVE Typed'
  <2>1. Src!SetDeployedAt(Terms[o].timelocks, now) \in Src!TimelockWords
    BY TermsFact, WordFact, StagesFact DEF Typed
  <2>2. src_order' \in [Orders -> Src!OrderState]
    BY <1>4, <2>1, TermsFact DEF Created, Typed, Src!OrderState
  <2>3. fills' = [p \in Orders |-> fills'[p]] /\ \A p \in Orders : IsHistory(fills'[p])
    <3>1. IsHistory(<<>>)
      BY DEF IsHistory
    <3>2. fills' = [fills EXCEPT ![o] = <<>>]
      BY <1>4 DEF Created
    <3>3. \A p \in Orders : fills'[p] = IF p = o THEN <<>> ELSE fills[p]
      BY <3>2 DEF Typed
    <3> QED BY <3>1, <3>2, <3>3 DEF Typed
  <2> QED BY <1>4, <2>2, <2>3 DEF Created, Typed
<1>5. ASSUME NEW o \in Orders, Dropped(o) PROVE Typed'
  <2>1. Src!NoOrder \in Src!OrderState
    BY SwapTypesAssumption
    DEF Src!NoOrder, Src!OrderState, Src!NoTimelocks, Src!TimelockWords, Src!U32
  <2>2. src_order' \in [Orders -> Src!OrderState]
    <3> HIDE DEF Src!NoOrder
    <3> QED BY <1>5, <2>1 DEF Dropped, Typed
  <2> QED BY <1>5, <2>2 DEF Dropped, Typed
<1>6. ASSUME NEW k \in SrcKeys, SrcPaid(k) \/ SrcBack(k) PROVE Typed'
  <2>1. src_escrow' = [src_escrow EXCEPT ![k] = Src!NoEscrow]
    BY <1>6 DEF SrcPaid, SrcBack, SrcEnded
  <2>2. /\ src_escrow' = [l \in SrcKeys |-> src_escrow'[l]]
        /\ \A l \in SrcKeys : src_escrow'[l] = IF l = k THEN Src!NoEscrow ELSE src_escrow[l]
    BY <2>1 DEF Typed
  <2>3. Src!NoEscrow.live = FALSE /\ Src!NoEscrow.timelocks \in Src!TimelockWords
    BY SwapTypesAssumption DEF Src!NoEscrow, Src!NoTimelocks, Src!TimelockWords, Src!U32
  <2>4. \A l \in SrcKeys :
          src_escrow'[l].live \in BOOLEAN /\ src_escrow'[l].timelocks \in Src!TimelockWords
    BY <2>2, <2>3 DEF Typed
  <2>5. paid' \in [SrcKeys \cup DstKeys -> Nat]
    BY <1>6 DEF SrcPaid, SrcBack, CountPaid, Typed
  <2> QED BY <1>6, <2>2, <2>4, <2>5 DEF SrcPaid, SrcBack, SrcEnded, Typed
<1>7. ASSUME NEW k \in SrcKeys, NEW proof \in Src!Proofs(k.order), Filled(k, proof) PROVE Typed'
  <2> DEFINE o == k.order
  <2>1. o \in Orders /\ k.amount \in Nat /\ proof.index \in Nat
    BY KeyFact, TermsFact
  <2>2. src_order[o].timelocks \in Src!TimelockWords
    BY <2>1 DEF Typed, Src!OrderState
  <2>3. Src!EscrowTimelocks(o) \in Src!TimelockWords
    BY <2>2, WordFact, StagesFact DEF Typed, Src!EscrowTimelocks
  <2>4. PICK n : src_escrow' = [src_escrow EXCEPT ![k] =
                   [live |-> TRUE, timelocks |-> Src!EscrowTimelocks(o), dst_amount |-> n]]
    BY <1>7 DEF Filled
  <2>5. /\ src_escrow' = [l \in SrcKeys |-> src_escrow'[l]]
        /\ \A l \in SrcKeys :
             src_escrow'[l].live \in BOOLEAN /\ src_escrow'[l].timelocks \in Src!TimelockWords
    BY <2>3, <2>4 DEF Typed
  <2>6. src_order' \in [Orders -> Src!OrderState]
    <3>1. CASE Src!LastFill(o, k.amount)
      <4>1. Src!NoOrder \in Src!OrderState
        BY SwapTypesAssumption
        DEF Src!NoOrder, Src!OrderState, Src!NoTimelocks, Src!TimelockWords, Src!U32
      <4>2. src_order' = [src_order EXCEPT ![o] = Src!NoOrder]
        BY <1>7, <3>1 DEF Filled
      <4> QED BY <2>1, <4>1, <4>2 DEF Typed
    <3>2. CASE ~Src!LastFill(o, k.amount)
      <4>1. k.amount <= src_order[o].remaining_amount
        BY <1>7, <2>1, <3>2, TermsFact
        DEF Filled, Src!FillAmountAllowed, Src!LastFill
      <4>2. src_order[o].remaining_amount - k.amount \in Nat
        BY <2>1, <4>1 DEF Typed, Src!OrderState
      <4>3. src_order' = [src_order EXCEPT ![o] =
                            [src_order[o] EXCEPT !.remaining_amount = @ - k.amount]]
        BY <1>7, <3>2 DEF Filled
      <4> QED BY <2>1, <4>2, <4>3 DEF Typed, Src!OrderState
    <3> QED BY <3>1, <3>2
  <2>7. fills' = [p \in Orders |-> fills'[p]] /\ \A p \in Orders : IsHistory(fills'[p])
    <3>1. PICK new : new.index = proof.index /\ fills' = [fills EXCEPT ![o] = Append(@, new)]
      BY <1>7 DEF Filled
    <3>2. IsHistory(Append(fills[o], new))
      BY <2>1, <3>1, HistoryFact DEF Typed
    <3>3. \A p \in Orders : fills'[p] = IF p = o THEN Append(fills[o], new) ELSE fills[p]
      BY <2>1, <3>1 DEF Typed
    <3>4. fills' = [p \in Orders |-> fills'[p]]
      BY <3>1 DEF Typed
    <3> QED BY <3>2, <3>3, <3>4 DEF Typed
  <2> QED BY <1>7, <2>5, <2>6, <2>7 DEF Filled, Typed
<1>8. ASSUME NEW k \in SrcKeys, NEW offer \in Offers, Locked(k, offer) PROVE Typed'
  <2> DEFINE tl == Dst!SetDeployedAt(offer.timelocks, now)
             d == Partner[k]
  <2>1. offer.timelocks \in Dst!TimelockWords
    BY SwapTypesAssumption DEF Dst!OfferSet
  <2>2. tl \in Dst!TimelockWords
    BY <2>1, WordFact, StagesFact DEF Typed
  <2>3. PICK e : dst_escrow' = [dst_escrow EXCEPT ![d] = e] /\ e.live = TRUE /\ e.timelocks = tl
    BY <1>8 DEF Locked
  <2> HIDE DEF tl
  <2>4. /\ dst_escrow' = [x \in DstKeys |-> dst_escrow'[x]]
        /\ \A x \in DstKeys : dst_escrow'[x] = IF x = d THEN e ELSE dst_escrow[x]
    BY <2>3 DEF Typed
  <2>5. \A x \in DstKeys :
          dst_escrow'[x].live \in BOOLEAN /\ dst_escrow'[x].timelocks \in Dst!TimelockWords
    BY <2>2, <2>3, <2>4 DEF Typed
  <2> QED BY <1>8, <2>4, <2>5 DEF Locked, Typed
<1>9. ASSUME NEW d \in DstKeys, DstPaid(d) \/ DstBack(d) PROVE Typed'
  <2>1. dst_escrow' = [dst_escrow EXCEPT ![d] = Dst!NoEscrow(d)]
    BY <1>9 DEF DstPaid, DstBack, DstEnded
  <2>2. /\ dst_escrow' = [x \in DstKeys |-> dst_escrow'[x]]
        /\ \A x \in DstKeys : dst_escrow'[x] = IF x = d THEN Dst!NoEscrow(d) ELSE dst_escrow[x]
    BY <2>1 DEF Typed
  <2>3. Dst!NoEscrow(d).live = FALSE /\ Dst!NoEscrow(d).timelocks \in Dst!TimelockWords
    BY SwapTypesAssumption DEF Dst!NoEscrow, Dst!NoTimelocks, Dst!TimelockWords, Dst!U32
  <2>4. \A x \in DstKeys :
          dst_escrow'[x].live \in BOOLEAN /\ dst_escrow'[x].timelocks \in Dst!TimelockWords
    BY <2>2, <2>3 DEF Typed
  <2>5. paid' \in [SrcKeys \cup DstKeys -> Nat]
    BY <1>9 DEF DstPaid, DstBack, CountPaid, Typed
  <2> QED BY <1>9, <2>2, <2>4, <2>5 DEF DstPaid, DstBack, DstEnded, Typed
<1> QED BY <1>1, <1>2, <1>3, <1>4, <1>5, <1>6, <1>7, <1>8, <1>9 DEF Step

-----------------------------------------------------------------------------
\* A secret opens one fill of one order.

LastIndex(o) ==
  Src!PrevCalculatedIndex(src_order[o].remaining_amount, Terms[o].amount, Terms[o].parts)

\* The fills of a live order, against what remains of it.
HistoryAt(o) ==
  src_order[o].live =>
    IF Terms[o].allow_multiple_fills
    THEN /\ src_order[o].remaining_amount \in 1..Terms[o].amount
         /\ \A i \in DOMAIN fills[o] :
              /\ src_order[o].remaining_amount < Terms[o].amount
              /\ fills[o][i].index <= LastIndex(o)
    ELSE DOMAIN fills[o] = {}

\* A secret's leaf has been used for a fill of the order.
Used(o, h) ==
  \E i \in DOMAIN fills[o], proof \in Src!Proofs(o) :
    proof.hashed_secret = h /\ proof.index = fills[o][i].index

\* The secrets of a live order that are out have been used.
UsedIfOut(o) == src_order[o].live => \A h \in SecretsOf(o) : Out(h) => Used(o, h)

Stamped(tl, o) ==
  \A stage \in {"SrcWithdrawal", "SrcCancellation", "SrcPublicCancellation"} :
    tl[stage] = Terms[o].timelocks[stage]

\* A live escrow has its order's stages, and has used a secret of its order.
OrderAt(o) == src_order[o].live => Stamped(src_order[o].timelocks, o)
EscrowAt(k) ==
  src_escrow[k].live =>
    /\ Stamped(src_escrow[k].timelocks, k.order)
    /\ k.hashlock \in SecretsOf(k.order)
    /\ src_order[k.order].live => Used(k.order, k.hashlock)

SecretsInv ==
  /\ \A o \in Orders : HistoryAt(o) /\ UsedIfOut(o) /\ OrderAt(o)
  /\ \A k \in SrcKeys : EscrowAt(k)

\* Multiplication is monotone.
LEMMA TimesFact ==
  ASSUME NEW x \in Nat, NEW y \in Nat, x <= y, NEW p \in Nat
  PROVE  x * p \in Nat /\ y * p \in Nat /\ x * p <= y * p
OBVIOUS

\* So is division.
LEMMA DivFact ==
  ASSUME NEW x \in Nat, NEW y \in Nat, x <= y, NEW c \in Nat \ {0}
  PROVE  x \div c \in Nat /\ y \div c \in Nat /\ x \div c <= y \div c
OBVIOUS

\* Later tokens lie in the same part or in a later one.
LEMMA PartFact ==
  ASSUME NEW m \in Nat \ {0}, NEW n \in Nat, m <= n, NEW total \in Nat \ {0}, NEW parts \in Nat
  PROVE  /\ Src!PartOf(m, total, parts) \in Nat /\ Src!PartOf(n, total, parts) \in Nat
         /\ Src!PartOf(m, total, parts) <= Src!PartOf(n, total, parts)
<1>1. m - 1 \in Nat /\ n - 1 \in Nat /\ m - 1 <= n - 1
  OBVIOUS
<1>2. /\ (m - 1) * parts \in Nat /\ (n - 1) * parts \in Nat
      /\ (m - 1) * parts <= (n - 1) * parts
  BY <1>1, TimesFact
<1> QED BY <1>2, DivFact DEF Src!PartOf

\* What is_valid_partial_fill gives: an index beyond that of the last token gone,
\* which is that of the fill's own last token unless it completes the order.
LEMMA IndexGrows ==
  ASSUME NEW total \in Nat, NEW r \in 1..total, NEW m \in Nat, m <= r, NEW parts \in Nat,
         NEW index \in Nat, Src!IsValidPartialFill(m, r, total, parts, index)
  PROVE  /\ r < total => /\ Src!PrevCalculatedIndex(r, total, parts) \in Nat
                         /\ Src!PrevCalculatedIndex(r, total, parts) < index
         /\ r # m => /\ r - m \in 1..total /\ r - m < total
                     /\ index = Src!PrevCalculatedIndex(r - m, total, parts)
<1> DEFINE n == total - r + m
           P(x) == Src!PartOf(x, total, parts)
<1>1. n >= 1
  BY DEF Src!IsValidPartialFill, Src!PartFits
<1>2. n \in Nat \ {0} /\ total \in Nat \ {0} /\ total - (r - m) = n /\ total - r \in Nat /\ total - r <= n
  BY <1>1
<1>3. P(n) \in Nat
  <2> HIDE DEF n
  <2> QED BY <1>2, PartFact
<1>4. IF r = m THEN index = P(n) + 1
      ELSE index = P(n) /\ (total # r => P(n) # P(total - r))
  BY DEF Src!IsValidPartialFill, Src!CalculatedIndex, Src!PrevCalculatedIndex
<1>5. ASSUME r < total PROVE P(total - r) \in Nat /\ P(total - r) < index
  <2>1. total - r \in Nat \ {0} /\ total # r
    BY <1>5
  <2>2. P(total - r) \in Nat /\ P(total - r) <= P(n)
    <3> HIDE DEF n
    <3> QED BY <1>2, <2>1, PartFact
  <2> HIDE DEF P, n
  <2> QED BY <1>3, <1>4, <2>1, <2>2
<1>6. ASSUME r # m PROVE r - m \in 1..total /\ r - m < total /\ index = P(total - (r - m))
  <2>1. r - m \in 1..total /\ r - m < total
    BY <1>1, <1>6
  <2> HIDE DEF P, n
  <2> QED BY <1>2, <1>4, <1>6, <2>1
<1> QED BY <1>5, <1>6 DEF Src!PrevCalculatedIndex

\* A fill's index is not that of an earlier one, and what remains of the order
\* goes with it.
LEMMA FillFact ==
  ASSUME Typed, SecretsInv, NEW k \in SrcKeys, NEW proof \in Src!Proofs(k.order), Filled(k, proof)
  PROVE  LET o == k.order
             left == src_order[o].remaining_amount - k.amount
         IN  /\ \A i \in DOMAIN fills[o] : fills[o][i].index < proof.index
             /\ ~Src!LastFill(o, k.amount) =>
                  /\ left \in 1..Terms[o].amount /\ left < Terms[o].amount
                  /\ proof.index = Src!PrevCalculatedIndex(left, Terms[o].amount, Terms[o].parts)
<1> DEFINE o == k.order
           total == Terms[o].amount
           parts == Terms[o].parts
           r == src_order[o].remaining_amount
           m == k.amount
<1>1. /\ o \in Orders /\ m \in Nat /\ total \in Nat /\ parts \in Nat /\ proof.index \in Nat
      /\ Terms[o].allow_multiple_fills \in BOOLEAN
  BY KeyFact, TermsFact
<1>2. src_order[o].live /\ HistoryAt(o)
  BY <1>1 DEF Filled, SecretsInv
<1>3. CASE ~Terms[o].allow_multiple_fills
  <2>1. DOMAIN fills[o] = {}
    BY <1>2, <1>3 DEF HistoryAt
  <2>2. Src!LastFill(o, m)
    BY <1>3 DEF Src!LastFill
  <2> QED BY <2>1, <2>2
<1>4. CASE Terms[o].allow_multiple_fills
  <2>1. r \in 1..total /\ m <= r /\ Src!IsValidPartialFill(m, r, total, parts, proof.index)
    BY <1>2, <1>4 DEF HistoryAt, Filled, Src!FillAmountAllowed, Src!FillIndexAllowed
  <2>2. /\ r < total => /\ Src!PrevCalculatedIndex(r, total, parts) \in Nat
                        /\ Src!PrevCalculatedIndex(r, total, parts) < proof.index
        /\ r # m => /\ r - m \in 1..total /\ r - m < total
                    /\ proof.index = Src!PrevCalculatedIndex(r - m, total, parts)
    <3> HIDE DEF r, m, total, parts
    <3> QED BY <1>1, <2>1, IndexGrows
  <2>3. ASSUME NEW i \in DOMAIN fills[o] PROVE fills[o][i].index < proof.index
    <3>1. r < total /\ fills[o][i].index <= Src!PrevCalculatedIndex(r, total, parts)
      BY <1>2, <1>4, <2>3 DEF HistoryAt, LastIndex
    <3>2. fills[o][i].index \in Nat
      BY <1>1, <2>3 DEF Typed, IsHistory
    <3> HIDE DEF r, total, parts
    <3> QED BY <1>1, <2>2, <3>1, <3>2
  <2>4. ~Src!LastFill(o, m) => r # m
    BY DEF Src!LastFill, Src!Completes
  <2> QED BY <2>2, <2>3, <2>4
<1> QED BY <1>1, <1>3, <1>4

\* So its secret has not been used.
LEMMA FillUnused ==
  ASSUME Typed, SecretsInv, NEW k \in SrcKeys, NEW proof \in Src!Proofs(k.order), Filled(k, proof)
  PROVE  ~Used(k.order, k.hashlock)
<1> DEFINE o == k.order
<1> SUFFICES ASSUME NEW i \in DOMAIN fills[o], NEW q \in Src!Proofs(o),
                    q.hashed_secret = k.hashlock, q.index = fills[o][i].index
             PROVE  FALSE
  BY DEF Used
<1>1. o \in Orders /\ k.hashlock = proof.hashed_secret
  BY KeyFact DEF Filled
<1>2. q.index = proof.index
  BY <1>1, MakersAssumption
<1>3. q.index < proof.index
  BY FillFact
<1>4. proof.index \in Nat
  BY <1>1, TermsFact
<1> QED BY <1>2, <1>3, <1>4

\* What a fill makes of its order, of its history and of its escrow.
LEMMA FillParts ==
  ASSUME Typed, NEW k \in SrcKeys, NEW proof \in Src!Proofs(k.order), Filled(k, proof)
  PROVE  LET o == k.order
         IN  /\ o \in Orders
             /\ \A p \in Orders \ {o} : src_order'[p] = src_order[p] /\ fills'[p] = fills[p]
             /\ src_order'[o].live => ~Src!LastFill(o, k.amount)
             /\ src_order'[o].live =>
                  /\ src_order'[o].remaining_amount = src_order[o].remaining_amount - k.amount
                  /\ src_order'[o].timelocks = src_order[o].timelocks
             /\ \A i \in DOMAIN fills[o] : i \in DOMAIN fills'[o] /\ fills'[o][i] = fills[o][i]
             /\ \E i \in DOMAIN fills'[o] : fills'[o][i].index = proof.index
             /\ \A i \in DOMAIN fills'[o] :
                  i \in DOMAIN fills[o] \/ fills'[o][i].index = proof.index
             /\ \A l \in SrcKeys \ {k} : src_escrow'[l] = src_escrow[l]
             /\ src_escrow'[k].live = TRUE /\ src_escrow'[k].timelocks = Src!EscrowTimelocks(o)
<1> DEFINE o == k.order
<1>1. o \in Orders /\ proof.index \in Nat
  BY KeyFact, TermsFact
<1>2. PICK new : new.index = proof.index /\ fills' = [fills EXCEPT ![o] = Append(@, new)]
  BY DEF Filled
<1>3. /\ \A i \in DOMAIN fills[o] : i \in DOMAIN fills'[o] /\ fills'[o][i] = fills[o][i]
      /\ \E i \in DOMAIN fills'[o] : fills'[o][i] = new
      /\ \A i \in DOMAIN fills'[o] : i \in DOMAIN fills[o] \/ fills'[o][i] = new
  <2>1. fills'[o] = Append(fills[o], new)
    BY <1>1, <1>2 DEF Typed
  <2>2. IsHistory(fills[o])
    BY <1>1 DEF Typed
  <2>3. new.index \in Nat
    BY <1>1, <1>2
  <2> DEFINE f == fills[o]
  <2>4. IsHistory(f)
    BY <2>2
  <2> HIDE DEF f
  <2>5. /\ \A i \in DOMAIN f : i \in DOMAIN Append(f, new) /\ Append(f, new)[i] = f[i]
        /\ \E i \in DOMAIN Append(f, new) : Append(f, new)[i] = new
        /\ \A i \in DOMAIN Append(f, new) : i \in DOMAIN f \/ Append(f, new)[i] = new
    BY ONLY <2>3, <2>4, HistoryFact, Zenon
  <2>6. fills'[o] = Append(f, new) /\ fills[o] = f
    BY <2>1 DEF f
  <2> QED BY ONLY <2>5, <2>6, Zenon
<1>4. \A p \in Orders \ {o} : fills'[p] = fills[p]
  BY <1>2 DEF Typed
<1>5. src_order' = [src_order EXCEPT ![o] =
                      IF Src!LastFill(o, k.amount) THEN Src!NoOrder
                      ELSE [src_order[o] EXCEPT !.remaining_amount = @ - k.amount]]
  BY DEF Filled
<1>6. \A p \in Orders \ {o} : src_order'[p] = src_order[p]
  BY <1>5 DEF Typed
<1>7. src_order'[o] = IF Src!LastFill(o, k.amount) THEN Src!NoOrder
                      ELSE [src_order[o] EXCEPT !.remaining_amount = @ - k.amount]
  BY <1>1, <1>5 DEF Typed
<1>8. ~Src!NoOrder.live
  BY DEF Src!NoOrder
<1>9. src_order[o] \in Src!OrderState
  BY <1>1 DEF Typed
<1>10. /\ src_order'[o].live => ~Src!LastFill(o, k.amount)
       /\ src_order'[o].live =>
            /\ src_order'[o].remaining_amount = src_order[o].remaining_amount - k.amount
            /\ src_order'[o].timelocks = src_order[o].timelocks
  BY <1>7, <1>8, <1>9 DEF Src!OrderState
<1>11. PICK n : src_escrow' = [src_escrow EXCEPT ![k] =
                  [live |-> TRUE, timelocks |-> Src!EscrowTimelocks(o), dst_amount |-> n]]
  BY DEF Filled
<1>12. /\ \A l \in SrcKeys \ {k} : src_escrow'[l] = src_escrow[l]
       /\ src_escrow'[k].live = TRUE /\ src_escrow'[k].timelocks = Src!EscrowTimelocks(o)
  BY <1>11 DEF Typed
<1> QED BY <1>1, <1>2, <1>3, <1>4, <1>6, <1>10, <1>12

\* A step that leaves orders, fills and escrows alone, and tells no secret.
LEMMA SecretsKept ==
  ASSUME SecretsInv, UNCHANGED <<revealed, src_order, src_escrow, fills>>
  PROVE  SecretsInv'
BY DEF SecretsInv, HistoryAt, UsedIfOut, OrderAt, EscrowAt, LastIndex, Used, Out

\* A secret comes out only for live escrows, whose fills are in the history.
LEMMA SecretsDisclosed ==
  ASSUME Typed, SecretsInv, NEW s \in Secrets, Disclosed(s)
  PROVE  SecretsInv'
<1>1. /\ UNCHANGED <<src_order, src_escrow, fills>>
      /\ revealed' = revealed \cup {s} /\ Opens(s) # {}
  BY DEF Disclosed
<1>2. /\ \A o \in Orders : HistoryAt(o)' /\ OrderAt(o)'
      /\ \A k \in SrcKeys : EscrowAt(k)'
  BY <1>1 DEF SecretsInv, HistoryAt, OrderAt, EscrowAt, LastIndex, Used
<1>3. ASSUME NEW o \in Orders, src_order'[o].live, NEW h \in SecretsOf(o), Out(h)'
      PROVE  Used(o, h)'
  <2>1. Out(h) \/ Keccak[s] = h
    BY <1>1, <1>3 DEF Out
  <2>2. CASE Out(h)
    BY <1>1, <1>3, <2>2 DEF SecretsInv, UsedIfOut, Used
  <2>3. CASE Keccak[s] = h
    <3>1. PICK k \in SrcKeys : k.hashlock = h /\ src_escrow[k].live
      BY <1>1, <2>3 DEF Opens
    <3>2. k.hashlock \in SecretsOf(k.order) /\ (src_order[k.order].live => Used(k.order, h))
      BY <3>1 DEF SecretsInv, EscrowAt
    <3>3. k.order = o
      <4>1. PICK a \in Src!Proofs(k.order), b \in Src!Proofs(o) :
              a.hashed_secret = h /\ b.hashed_secret = h
        BY <1>3, <3>1, <3>2 DEF SecretsOf
      <4> QED BY <4>1, KeyFact, MakersAssumption
    <3> QED BY <1>1, <1>3, <3>2, <3>3 DEF Used
  <2> QED BY <2>1, <2>2, <2>3
<1> QED BY <1>2, <1>3 DEF SecretsInv, UsedIfOut, SecretsOf

\* A created order starts a new history, with secrets that are not out and open no
\* live escrow.
LEMMA SecretsCreated ==
  ASSUME Typed, SecretsInv, NEW o \in Orders, Created(o)
  PROVE  SecretsInv'
<1>1. /\ \A p \in Orders \ {o} : src_order'[p] = src_order[p] /\ fills'[p] = fills[p]
      /\ src_order'[o].remaining_amount = Terms[o].amount
      /\ src_order'[o].timelocks = Src!SetDeployedAt(Terms[o].timelocks, now)
      /\ fills'[o] = <<>>
      /\ UNCHANGED <<revealed, src_escrow>>
  BY DEF Created, Typed
<1>2. ASSUME NEW p \in Orders, p # o PROVE HistoryAt(p)' /\ UsedIfOut(p)' /\ OrderAt(p)'
  BY <1>1, <1>2 DEF SecretsInv, HistoryAt, UsedIfOut, OrderAt, LastIndex, Used, Out, SecretsOf
<1>3. HistoryAt(o)'
  <2>1. Terms[o].amount \in 1..Terms[o].amount
    BY TermsFact DEF Created
  <2> QED BY <1>1, <2>1 DEF HistoryAt
<1>4. UsedIfOut(o)'
  BY <1>1 DEF Created, UsedIfOut, Out, SecretsOf
<1>5. OrderAt(o)'
  <2>1. now \in 0..MaxTime /\ Terms[o].timelocks \in Src!TimelockWords
    BY TermsFact DEF Typed
  <2>2. Stamped(Src!SetDeployedAt(Terms[o].timelocks, now), o)
    BY <2>1, WordFact, StagesFact DEF Stamped
  <2> QED BY <1>1, <2>2 DEF OrderAt, Stamped
<1>6. ASSUME NEW k \in SrcKeys, src_escrow'[k].live
      PROVE  /\ Stamped(src_escrow'[k].timelocks, k.order)
             /\ k.hashlock \in SecretsOf(k.order)
             /\ src_order'[k.order].live => Used(k.order, k.hashlock)'
  <2>1. /\ Stamped(src_escrow[k].timelocks, k.order) /\ k.hashlock \in SecretsOf(k.order)
        /\ src_order[k.order].live => Used(k.order, k.hashlock)
    BY <1>1, <1>6 DEF SecretsInv, EscrowAt
  <2>2. k.order # o
    BY <1>1, <1>6, <2>1 DEF Created
  <2>3. src_order'[k.order] = src_order[k.order] /\ fills'[k.order] = fills[k.order]
    BY <1>1, <2>2, KeyFact
  <2> QED BY <1>1, <2>1, <2>3 DEF Used
<1>7. \A k \in SrcKeys : EscrowAt(k)'
  BY <1>6 DEF EscrowAt, Stamped, SecretsOf
<1> QED BY <1>2, <1>3, <1>4, <1>5, <1>7 DEF SecretsInv

\* A cancelled order admits no more fills.
LEMMA SecretsDropped ==
  ASSUME Typed, SecretsInv, NEW o \in Orders, Dropped(o)
  PROVE  SecretsInv'
<1>1. /\ \A p \in Orders \ {o} : src_order'[p] = src_order[p]
      /\ ~src_order'[o].live
      /\ UNCHANGED <<revealed, src_escrow, fills>>
  BY DEF Dropped, Typed, Src!NoOrder
<1>2. ASSUME NEW p \in Orders PROVE HistoryAt(p)' /\ UsedIfOut(p)' /\ OrderAt(p)'
  <2>1. CASE p = o
    BY <1>1, <2>1 DEF HistoryAt, UsedIfOut, OrderAt
  <2>2. CASE p # o
    BY <1>1, <2>2 DEF SecretsInv, HistoryAt, UsedIfOut, OrderAt, LastIndex, Used, Out, SecretsOf
  <2> QED BY <2>1, <2>2
<1>3. ASSUME NEW k \in SrcKeys PROVE EscrowAt(k)'
  <2>1. src_order'[k.order].live => src_order[k.order].live
    BY <1>1, KeyFact
  <2> QED BY <1>1, <2>1 DEF SecretsInv, EscrowAt, Used, SecretsOf, Stamped
<1> QED BY <1>2, <1>3 DEF SecretsInv

\* An escrow that ends leaves the histories as they are.
LEMMA SecretsEnded ==
  ASSUME Typed, SecretsInv, NEW k \in SrcKeys, SrcEnded(k)
  PROVE  SecretsInv'
<1>1. /\ \A l \in SrcKeys \ {k} : src_escrow'[l] = src_escrow[l]
      /\ ~src_escrow'[k].live
      /\ UNCHANGED <<revealed, src_order, fills>>
  BY DEF SrcEnded, Typed, Src!NoEscrow
<1>2. \A p \in Orders : HistoryAt(p)' /\ UsedIfOut(p)' /\ OrderAt(p)'
  BY <1>1 DEF SecretsInv, HistoryAt, UsedIfOut, OrderAt, LastIndex, Used, Out, SecretsOf
<1>3. ASSUME NEW l \in SrcKeys PROVE EscrowAt(l)'
  <2>1. CASE l = k
    BY <1>1, <2>1 DEF EscrowAt
  <2>2. CASE l # k
    BY <1>1, <2>2 DEF SecretsInv, EscrowAt, Used, SecretsOf, Stamped
  <2> QED BY <2>1, <2>2
<1> QED BY <1>2, <1>3 DEF SecretsInv

\* A fill is added to its order's history, with an index above those before it.
LEMMA SecretsFilled ==
  ASSUME Typed, SecretsInv, NEW k \in SrcKeys, NEW proof \in Src!Proofs(k.order), Filled(k, proof)
  PROVE  SecretsInv'
<1> DEFINE o == k.order
<1>1. /\ o \in Orders
      /\ \A p \in Orders \ {o} : src_order'[p] = src_order[p] /\ fills'[p] = fills[p]
      /\ src_order'[o].live => ~Src!LastFill(o, k.amount)
      /\ src_order'[o].live =>
           /\ src_order'[o].remaining_amount = src_order[o].remaining_amount - k.amount
           /\ src_order'[o].timelocks = src_order[o].timelocks
      /\ \A i \in DOMAIN fills[o] : i \in DOMAIN fills'[o] /\ fills'[o][i] = fills[o][i]
      /\ \E i \in DOMAIN fills'[o] : fills'[o][i].index = proof.index
      /\ \A i \in DOMAIN fills'[o] : i \in DOMAIN fills[o] \/ fills'[o][i].index = proof.index
      /\ \A l \in SrcKeys \ {k} : src_escrow'[l] = src_escrow[l]
      /\ src_escrow'[k].live = TRUE /\ src_escrow'[k].timelocks = Src!EscrowTimelocks(o)
  BY FillParts
<1>2. revealed' = revealed /\ src_order[o].live /\ k.hashlock = proof.hashed_secret
  BY DEF Filled
<1>3. \A p \in Orders : \A h : Used(p, h) => Used(p, h)'
  <2> SUFFICES ASSUME NEW p \in Orders, NEW h, Used(p, h) PROVE Used(p, h)'
    OBVIOUS
  <2>1. CASE p = o
    BY <1>1, <2>1 DEF Used
  <2>2. CASE p # o
    BY <1>1, <2>2 DEF Used
  <2> QED BY <2>1, <2>2
<1>4. Used(o, k.hashlock)'
  BY <1>1, <1>2 DEF Used
<1>5. ASSUME NEW p \in Orders, p # o PROVE HistoryAt(p)'
  BY <1>1, <1>5 DEF SecretsInv, HistoryAt, LastIndex
<1>6. HistoryAt(o)'
  <2> SUFFICES ASSUME src_order'[o].live PROVE HistoryAt(o)'
    BY DEF HistoryAt
  <2> DEFINE left == src_order[o].remaining_amount - k.amount
  <2>1. ~Src!LastFill(o, k.amount) /\ src_order'[o].remaining_amount = left
    BY <1>1
  <2>2. Terms[o].allow_multiple_fills
    BY <2>1 DEF Src!LastFill
  <2>3. /\ \A i \in DOMAIN fills[o] : fills[o][i].index < proof.index
        /\ left \in 1..Terms[o].amount /\ left < Terms[o].amount
        /\ proof.index = Src!PrevCalculatedIndex(left, Terms[o].amount, Terms[o].parts)
    BY <2>1, FillFact
  <2>4. LastIndex(o)' = proof.index
    BY <2>1, <2>3 DEF LastIndex
  <2>5. ASSUME NEW i \in DOMAIN fills'[o] PROVE fills'[o][i].index <= proof.index
    <3>1. proof.index \in Nat /\ \A j \in DOMAIN fills[o] : fills[o][j].index \in Nat
      BY <1>1, TermsFact DEF Typed, IsHistory
    <3> QED BY <1>1, <2>3, <2>5, <3>1
  <2> HIDE DEF left
  <2> QED BY <2>1, <2>2, <2>3, <2>4, <2>5 DEF HistoryAt
<1>7. \A p \in Orders : src_order'[p].live => src_order[p].live
  BY <1>1, <1>2
<1>8. \A p \in Orders : UsedIfOut(p)'
  BY <1>2, <1>3, <1>7 DEF SecretsInv, UsedIfOut, Out, SecretsOf
<1>9. ASSUME NEW p \in Orders PROVE OrderAt(p)'
  <2>1. src_order'[p].live => src_order'[p].timelocks = src_order[p].timelocks
    BY <1>1
  <2> QED BY <1>7, <2>1 DEF SecretsInv, OrderAt, Stamped
<1>10. EscrowAt(k)'
  <2>1. Stamped(Src!EscrowTimelocks(o), o)
    <3>1. src_order[o].timelocks \in Src!TimelockWords
      BY <1>1 DEF Typed, Src!OrderState
    <3>2. Stamped(src_order[o].timelocks, o)
      BY <1>1, <1>2 DEF SecretsInv, OrderAt
    <3> QED BY <3>1, <3>2, WordFact, StagesFact DEF Typed, Stamped, Src!EscrowTimelocks
  <2>2. k.hashlock \in SecretsOf(o)
    BY <1>2 DEF SecretsOf
  <2> QED BY <1>1, <1>4, <2>1, <2>2 DEF EscrowAt, Stamped, SecretsOf
<1>11. ASSUME NEW l \in SrcKeys, l # k PROVE EscrowAt(l)'
  BY <1>1, <1>3, <1>7, <1>11, KeyFact DEF SecretsInv, EscrowAt, Stamped, SecretsOf
<1> QED BY <1>5, <1>6, <1>8, <1>9, <1>10, <1>11 DEF SecretsInv

\* Every step keeps the secrets in order.
LEMMA NextSecrets ==
  ASSUME Typed, SecretsInv, Step
  PROVE  SecretsInv'
<1>1. CASE Quiet \/ Passes
  BY <1>1, SecretsKept DEF Quiet, Passes
<1>2. ASSUME NEW k \in SrcKeys, NEW offer \in Offers, Locked(k, offer) PROVE SecretsInv'
  BY <1>2, SecretsKept DEF Locked
<1>3. ASSUME NEW d \in DstKeys, DstPaid(d) \/ DstBack(d) PROVE SecretsInv'
  BY <1>3, SecretsKept DEF DstPaid, DstBack, DstEnded
<1>4. ASSUME NEW k \in SrcKeys, SrcPaid(k) \/ SrcBack(k) PROVE SecretsInv'
  BY <1>4, SecretsEnded DEF SrcPaid, SrcBack
<1> QED
  BY <1>1, <1>2, <1>3, <1>4, SecretsDisclosed, SecretsCreated, SecretsDropped, SecretsFilled
  DEF Step

-----------------------------------------------------------------------------
\* The two escrows of a fill.

SrcTime(k) == Src!StageTime(src_escrow[k].timelocks, "SrcCancellation")
DstTime(d) == Dst!StageTime(dst_escrow[d].timelocks, "DstCancellation")
SrcOpen(k) == src_escrow[k].live /\ Src!Before(src_escrow[k].timelocks, "SrcCancellation", now)
DstOpen(d) == dst_escrow[d].live /\ Dst!Before(dst_escrow[d].timelocks, "DstCancellation", now)

\* Before the secret is out nobody is paid, and what can still pay the maker is
\* covered by what will pay the taker no less long.
Linked(k) ==
  ~Out(k.hashlock) =>
    /\ paid[k] = 0 /\ paid[Partner[k]] = 0
    /\ DstOpen(Partner[k]) => /\ src_escrow[k].live /\ SrcTime(k) <= MAX_U32
                              /\ DstTime(Partner[k]) <= SrcTime(k)

\* Afterwards the payments made and those still possible are as many on both sides.
Balanced(k) ==
  Out(k.hashlock) =>
    paid[k] + One(SrcOpen(k)) = paid[Partner[k]] + One(DstOpen(Partner[k]))

PairsInv == \A k \in SrcKeys : Linked(k) /\ Balanced(k)

\* A window is open up to its cancellation time, if that is one.
LEMMA TimeFact ==
  ASSUME Typed
  PROVE  /\ now \in Nat /\ MAX_U32 \in Nat
         /\ \A k \in SrcKeys :
              /\ SrcTime(k) \in Nat /\ paid[k] \in Nat /\ paid[Partner[k]] \in Nat
              /\ SrcOpen(k) <=> src_escrow[k].live /\ SrcTime(k) <= MAX_U32 /\ now < SrcTime(k)
         /\ \A d \in DstKeys :
              /\ DstTime(d) \in Nat
              /\ DstOpen(d) <=> dst_escrow[d].live /\ DstTime(d) <= MAX_U32 /\ now < DstTime(d)
<1>1. now \in Nat /\ MAX_U32 \in Nat
  BY SwapTypesAssumption DEF Typed
<1>2. \A k \in SrcKeys : SrcTime(k) \in Nat
  BY WordFact, StagesFact DEF Typed, SrcTime
<1>3. \A d \in DstKeys : DstTime(d) \in Nat
  <2> TAKE d \in DstKeys
  <2>1. dst_escrow[d].timelocks \in Src!TimelockWords
    BY StagesFact DEF Typed
  <2>2. Src!StageTime(dst_escrow[d].timelocks, "DstCancellation") \in Nat
    BY <2>1, WordFact, StagesFact
  <2> QED BY <2>2, StagesFact DEF DstTime
<1>4. \A k \in SrcKeys : paid[k] \in Nat /\ paid[Partner[k]] \in Nat
  BY PartnerFact DEF Typed
<1> QED BY <1>1, <1>2, <1>3, <1>4
        DEF SrcOpen, DstOpen, SrcTime, DstTime, Src!Before, Dst!Before, Src!StageFits, Dst!StageFits

\* A pair that a step does not touch.
LEMMA PairKept ==
  ASSUME NEW k \in SrcKeys, Linked(k), Balanced(k), UNCHANGED <<now, revealed>>,
         src_escrow'[k] = src_escrow[k], dst_escrow'[Partner[k]] = dst_escrow[Partner[k]],
         paid'[k] = paid[k], paid'[Partner[k]] = paid[Partner[k]]
  PROVE  Linked(k)' /\ Balanced(k)'
BY DEF Linked, Balanced, Out, SrcOpen, DstOpen, SrcTime, DstTime, One

\* Steps that touch no escrow, payment or secret keep the pairs.
LEMMA PairsKept ==
  ASSUME PairsInv, UNCHANGED <<now, revealed, src_escrow, dst_escrow, paid>>
  PROVE  PairsInv'
<1>1. ASSUME NEW k \in SrcKeys PROVE Linked(k)' /\ Balanced(k)'
  BY PairKept DEF PairsInv
<1> QED BY <1>1 DEF PairsInv

\* The clock: no payment that a disclosed secret still allows is timed out.
LEMMA PairsPass ==
  ASSUME Typed, Typed', PairsInv, Passes
  PROVE  PairsInv'
<1> SUFFICES ASSUME NEW k \in SrcKeys PROVE Linked(k)' /\ Balanced(k)'
  BY DEF PairsInv
<1> DEFINE d == Partner[k]
<1>1. d \in DstKeys /\ d.hashlock = k.hashlock
  BY PartnerFact
<1>2. /\ now' = now + 1 /\ ~LastCallSrc(k) /\ ~LastCallDst(d)
      /\ UNCHANGED <<revealed, src_escrow, dst_escrow, paid>>
  BY <1>1 DEF Passes
<1>3. Out(k.hashlock)' = Out(k.hashlock) /\ SrcTime(k)' = SrcTime(k) /\ DstTime(d)' = DstTime(d)
  BY <1>2 DEF Out, SrcTime, DstTime
<1>4. /\ now \in Nat /\ SrcTime(k) \in Nat /\ DstTime(d) \in Nat
      /\ SrcOpen(k) <=> src_escrow[k].live /\ SrcTime(k) <= MAX_U32 /\ now < SrcTime(k)
      /\ DstOpen(d) <=> dst_escrow[d].live /\ DstTime(d) <= MAX_U32 /\ now < DstTime(d)
  BY <1>1, TimeFact
<1>5. /\ SrcOpen(k)' <=> src_escrow[k].live /\ SrcTime(k) <= MAX_U32 /\ now + 1 < SrcTime(k)
      /\ DstOpen(d)' <=> dst_escrow[d].live /\ DstTime(d) <= MAX_U32 /\ now + 1 < DstTime(d)
  <2>1. /\ SrcOpen(k)' <=> src_escrow'[k].live /\ SrcTime(k)' <= MAX_U32 /\ now' < SrcTime(k)'
        /\ DstOpen(d)' <=> dst_escrow'[d].live /\ DstTime(d)' <= MAX_U32 /\ now' < DstTime(d)'
    <3> HIDE DEF d
    <3> QED BY <1>1, <1>2, TimeFact
         DEF SrcOpen, DstOpen, SrcTime, DstTime, Src!Before, Dst!Before, Src!StageFits,
             Dst!StageFits
  <2> QED BY <1>2, <1>3, <2>1
<1>6. DstOpen(d)' => DstOpen(d)
  BY <1>4, <1>5
<1>7. Linked(k)'
  BY <1>2, <1>3, <1>6 DEF PairsInv, Linked
<1>8. ASSUME Out(k.hashlock) PROVE SrcOpen(k)' = SrcOpen(k) /\ DstOpen(d)' = DstOpen(d)
  <2>1. /\ src_escrow[k].live /\ SrcTime(k) <= MAX_U32 => now + 1 # SrcTime(k)
        /\ dst_escrow[d].live /\ DstTime(d) <= MAX_U32 => now + 1 # DstTime(d)
    BY <1>1, <1>2, <1>8
    DEF LastCallSrc, LastCallDst, SrcTime, DstTime, Src!StageFits, Dst!StageFits
  <2>2. /\ SrcOpen(k)' <=> SrcOpen(k)
        /\ DstOpen(d)' <=> DstOpen(d)
    BY <1>4, <1>5, <2>1
  <2>3. /\ SrcOpen(k) \in BOOLEAN /\ DstOpen(d) \in BOOLEAN
        /\ SrcOpen(k)' \in BOOLEAN /\ DstOpen(d)' \in BOOLEAN
    BY <1>1 DEF SrcOpen, DstOpen, Typed
  <2> QED BY <2>2, <2>3
<1>9. Balanced(k)'
  BY <1>2, <1>3, <1>8 DEF PairsInv, Balanced, One
<1> QED BY <1>7, <1>9

\* A secret comes out.
LEMMA PairsDisclosed ==
  ASSUME Typed, PairsInv, NEW s \in Secrets, Disclosed(s)
  PROVE  PairsInv'
<1> SUFFICES ASSUME NEW k \in SrcKeys PROVE Linked(k)' /\ Balanced(k)'
  BY DEF PairsInv
<1> DEFINE d == Partner[k]
<1>1. /\ UNCHANGED <<now, src_escrow, dst_escrow, paid>>
      /\ revealed' = revealed \cup {s} /\ \A l \in Opens(s) : PartnerPays(l)
  BY DEF Disclosed
<1>2. Out(k.hashlock)' <=> Out(k.hashlock) \/ Keccak[s] = k.hashlock
  BY <1>1 DEF Out
<1>3. Linked(k) /\ Balanced(k)
  BY DEF PairsInv
<1>4. /\ SrcOpen(k)' = SrcOpen(k) /\ DstOpen(d)' = DstOpen(d)
      /\ SrcTime(k)' = SrcTime(k) /\ DstTime(d)' = DstTime(d)
  BY <1>1 DEF SrcOpen, DstOpen, SrcTime, DstTime
<1>5. Linked(k)'
  BY <1>1, <1>2, <1>3, <1>4 DEF Linked
<1>6. ASSUME ~Out(k.hashlock), Keccak[s] = k.hashlock
      PROVE  paid[k] + One(SrcOpen(k)) = paid[d] + One(DstOpen(d))
  <2>1. /\ paid[k] = 0 /\ paid[d] = 0
        /\ DstOpen(d) => src_escrow[k].live /\ SrcTime(k) <= MAX_U32 /\ DstTime(d) <= SrcTime(k)
    BY <1>3, <1>6 DEF Linked
  <2>2. src_escrow[k].live => DstOpen(d)
    BY <1>1, <1>6 DEF Opens, PartnerPays, DstOpen
  <2>3. DstOpen(d) => SrcOpen(k)
    BY <2>1, TimeFact, PartnerFact
  <2>4. SrcOpen(k) => DstOpen(d)
    BY <2>2 DEF SrcOpen
  <2>5. One(SrcOpen(k)) = One(DstOpen(d)) /\ One(DstOpen(d)) \in Nat
    BY <2>3, <2>4 DEF One
  <2> QED BY <2>1, <2>5
<1>7. Balanced(k)'
  <2>1. ASSUME Out(k.hashlock)' PROVE paid[k] + One(SrcOpen(k)) = paid[d] + One(DstOpen(d))
    BY <1>2, <1>3, <1>6, <2>1 DEF Balanced
  <2> QED BY <1>1, <1>4, <2>1 DEF Balanced, One
<1> QED BY <1>5, <1>7

\* No fill is opened by a secret that is out, or added to a partner that pays.
LEMMA PairsFilled ==
  ASSUME Typed, SecretsInv, PairsInv, NEW l \in SrcKeys, NEW proof \in Src!Proofs(l.order),
         Filled(l, proof)
  PROVE  PairsInv'
<1> SUFFICES ASSUME NEW k \in SrcKeys PROVE Linked(k)' /\ Balanced(k)'
  BY DEF PairsInv
<1>1. UNCHANGED <<now, revealed, dst_escrow, paid>> /\ Linked(k) /\ Balanced(k)
  BY DEF Filled, PairsInv
<1>2. CASE k # l
  <2>1. src_escrow'[k] = src_escrow[k]
    BY <1>2, FillParts
  <2> QED BY <1>1, <2>1, PairKept
<1>3. CASE k = l
  <2>1. ~Out(k.hashlock)
    <3>1. l.order \in Orders /\ src_order[l.order].live /\ l.hashlock \in SecretsOf(l.order)
      BY KeyFact DEF Filled, SecretsOf
    <3>2. ~Used(l.order, l.hashlock)
      BY FillUnused
    <3> QED BY <1>3, <3>1, <3>2 DEF SecretsInv, UsedIfOut
  <2>2. ~DstOpen(Partner[k])
    BY <1>1, <1>3, <2>1 DEF Linked, Filled
  <2>3. ~Out(k.hashlock)' /\ ~DstOpen(Partner[k])'
    BY <1>1, <2>1, <2>2 DEF Out, DstOpen
  <2> QED BY <1>1, <2>1, <2>3 DEF Linked, Balanced
<1> QED BY <1>2, <1>3

\* A taker locks its side.
LEMMA PairsLocked ==
  ASSUME Typed, PairsInv, NEW l \in SrcKeys, NEW offer \in Offers, Locked(l, offer)
  PROVE  PairsInv'
<1> SUFFICES ASSUME NEW k \in SrcKeys PROVE Linked(k)' /\ Balanced(k)'
  BY DEF PairsInv
<1> DEFINE tl == Dst!SetDeployedAt(offer.timelocks, now)
<1>1. UNCHANGED <<now, revealed, src_escrow, paid>> /\ Linked(k) /\ Balanced(k)
  BY DEF Locked, PairsInv
<1>2. PICK e : dst_escrow' = [dst_escrow EXCEPT ![Partner[l]] = e] /\ e.timelocks = tl
  BY DEF Locked
<1>3. Partner[l] \in DstKeys /\ Partner[k] \in DstKeys
  BY PartnerFact
<1>4. CASE k # l
  <2>1. Partner[k] # Partner[l]
    BY <1>4, PartnerFact
  <2>2. dst_escrow'[Partner[k]] = dst_escrow[Partner[k]]
    BY <1>2, <1>3, <2>1 DEF Typed
  <2> QED BY <1>1, <2>2, PairKept
<1>5. CASE k = l
  <2>1. /\ src_escrow[k].live /\ ~Out(k.hashlock)
        /\ Dst!StageTime(tl, "DstCancellation") <= offer.src_cancellation_timestamp
        /\ offer.src_cancellation_timestamp = SrcTime(k)
    BY <1>5 DEF Locked, SrcTime
  <2>2. offer.src_cancellation_timestamp <= MAX_U32
    <3>1. offer.src_cancellation_timestamp \in 0..MAX_U32
      BY SwapTypesAssumption DEF Dst!OfferSet, Dst!U32
    <3> QED BY <3>1, SwapTypesAssumption
  <2>3. dst_escrow'[Partner[k]].timelocks = tl
    BY <1>2, <1>3, <1>5 DEF Typed
  <2>4. DstTime(Partner[k])' <= SrcTime(k)' /\ SrcTime(k)' <= MAX_U32 /\ src_escrow'[k].live
    BY <1>1, <2>1, <2>2, <2>3 DEF DstTime, SrcTime
  <2>5. ~Out(k.hashlock)' /\ paid'[k] = paid[k] /\ paid'[Partner[k]] = paid[Partner[k]]
    BY <1>1, <2>1 DEF Out
  <2> QED BY <1>1, <2>1, <2>4, <2>5 DEF Linked, Balanced
<1> QED BY <1>4, <1>5

\* The end of a source escrow.
LEMMA PairsSrcEnded ==
  ASSUME Typed, SecretsInv, PairsInv, NEW l \in SrcKeys, SrcPaid(l) \/ SrcBack(l)
  PROVE  PairsInv'
<1> SUFFICES ASSUME NEW k \in SrcKeys PROVE Linked(k)' /\ Balanced(k)'
  BY DEF PairsInv
<1> DEFINE d == Partner[k]
<1>1. /\ UNCHANGED <<now, revealed, dst_escrow>> /\ src_escrow[l].live
      /\ src_escrow' = [src_escrow EXCEPT ![l] = Src!NoEscrow]
      /\ Linked(k) /\ Balanced(k)
  BY DEF SrcPaid, SrcBack, SrcEnded, PairsInv
<1>2. d \in DstKeys /\ d # l
  BY PartnerFact
<1>3. /\ paid'[d] = paid[d]
      /\ paid'[k] = IF k = l /\ SrcPaid(l) THEN paid[k] + 1 ELSE paid[k]
  <2>1. CASE SrcPaid(l)
    <3>1. paid' = [paid EXCEPT ![l] = @ + 1]
      BY <2>1 DEF SrcPaid, CountPaid
    <3> QED BY <1>2, <2>1, <3>1 DEF Typed
  <2>2. CASE ~SrcPaid(l)
    BY <2>2 DEF SrcBack
  <2> QED BY <2>1, <2>2
<1>4. CASE k # l
  <2>1. src_escrow'[k] = src_escrow[k]
    BY <1>1, <1>4 DEF Typed
  <2> QED BY <1>1, <1>3, <1>4, <2>1, PairKept
<1>5. CASE k = l
  <2>1. ~src_escrow'[k].live
    BY <1>1, <1>5 DEF Typed, Src!NoEscrow
  <2>2. ~SrcOpen(k)' /\ DstOpen(d)' = DstOpen(d) /\ Out(k.hashlock)' = Out(k.hashlock)
    BY <1>1, <2>1 DEF SrcOpen, DstOpen, Out
  <2>3. paid[k] \in Nat /\ paid[d] \in Nat
    BY TimeFact
  <2>4. CASE SrcPaid(l)
    <3>1. Out(k.hashlock) /\ SrcOpen(k)
      BY <1>1, <1>5, <2>4 DEF SrcPaid, SrcOpen
    <3>2. paid[k] + 1 = paid[d] + One(DstOpen(d))
      BY <1>1, <3>1 DEF Balanced, One
    <3>3. paid'[k] + One(SrcOpen(k)') = paid'[d] + One(DstOpen(d)')
      BY <1>3, <1>5, <2>2, <2>3, <2>4, <3>2 DEF One
    <3> QED BY <2>2, <3>1, <3>3 DEF Linked, Balanced, One
  <2>5. CASE ~SrcPaid(l)
    <3>1. paid'[k] = paid[k] /\ SrcBack(l)
      BY <1>3, <2>5
    <3>2. /\ SrcTime(k) \in Nat /\ now \in Nat /\ DstTime(d) \in Nat
          /\ SrcOpen(k) => now < SrcTime(k)
          /\ DstOpen(d) => now < DstTime(d)
      BY <1>2, TimeFact
    <3>3. now >= SrcTime(k)
      <4> DEFINE tl == src_escrow[k].timelocks
                 public == Src!StageTime(tl, "SrcPublicCancellation")
      <4>1. now >= SrcTime(k) \/ now >= public
        BY <1>5, <3>1 DEF SrcBack, Src!Reached, SrcTime
      <4>2. /\ tl \in Src!TimelockWords /\ k.order \in Orders
            /\ tl["SrcCancellation"] <= tl["SrcPublicCancellation"]
        BY <1>1, <1>5, KeyFact, MakersAssumption DEF Typed, SecretsInv, EscrowAt, Stamped
      <4>3. SrcTime(k) <= public /\ public \in Nat
        BY <4>2, WordFact, StagesFact DEF SrcTime, Src!StageTime
      <4> HIDE DEF tl, public
      <4> QED BY <3>2, <4>1, <4>3
    <3>4. ~SrcOpen(k)
      BY <3>2, <3>3
    <3>5. ~Out(k.hashlock) => ~DstOpen(d)
      BY <1>1, <3>2, <3>3 DEF Linked
    <3>6. Linked(k)'
      BY <1>1, <1>3, <2>2, <3>1, <3>5 DEF Linked
    <3>7. Balanced(k)'
      BY <1>1, <1>3, <2>2, <3>1, <3>4 DEF Balanced, One
    <3> QED BY <3>6, <3>7
  <2> QED BY <2>4, <2>5
<1> QED BY <1>4, <1>5

\* The end of a destination escrow.
LEMMA PairsDstEnded ==
  ASSUME Typed, PairsInv, NEW x \in DstKeys, DstPaid(x) \/ DstBack(x)
  PROVE  PairsInv'
<1> SUFFICES ASSUME NEW k \in SrcKeys PROVE Linked(k)' /\ Balanced(k)'
  BY DEF PairsInv
<1> DEFINE d == Partner[k]
<1>1. /\ UNCHANGED <<now, revealed, src_escrow>> /\ dst_escrow[x].live
      /\ dst_escrow' = [dst_escrow EXCEPT ![x] = Dst!NoEscrow(x)]
      /\ Linked(k) /\ Balanced(k)
  BY DEF DstPaid, DstBack, DstEnded, PairsInv
<1>2. d \in DstKeys /\ k # x /\ d.hashlock = k.hashlock
  BY PartnerFact, SwapAssumption
<1>3. /\ paid'[k] = paid[k]
      /\ paid'[d] = IF d = x /\ DstPaid(x) THEN paid[d] + 1 ELSE paid[d]
  <2>1. CASE DstPaid(x)
    <3>1. paid' = [paid EXCEPT ![x] = @ + 1]
      BY <2>1 DEF DstPaid, CountPaid
    <3> QED BY <1>2, <2>1, <3>1 DEF Typed
  <2>2. CASE ~DstPaid(x)
    BY <2>2 DEF DstBack
  <2> QED BY <2>1, <2>2
<1>4. CASE d # x
  <2>1. dst_escrow'[d] = dst_escrow[d]
    BY <1>1, <1>2, <1>4 DEF Typed
  <2> QED BY <1>1, <1>3, <1>4, <2>1, PairKept
<1>5. CASE d = x
  <2>1. ~dst_escrow'[d].live
    BY <1>1, <1>2, <1>5 DEF Typed, Dst!NoEscrow
  <2>2. ~DstOpen(d)' /\ SrcOpen(k)' = SrcOpen(k) /\ Out(k.hashlock)' = Out(k.hashlock)
    BY <1>1, <2>1 DEF SrcOpen, DstOpen, Out
  <2>3. paid[k] \in Nat /\ paid[d] \in Nat
    BY TimeFact
  <2>4. CASE DstPaid(x)
    <3>1. Out(k.hashlock) /\ DstOpen(d)
      BY <1>1, <1>2, <1>5, <2>4 DEF DstPaid, DstOpen
    <3>2. paid[k] + One(SrcOpen(k)) = paid[d] + 1
      BY <1>1, <3>1 DEF Balanced, One
    <3>3. paid'[k] + One(SrcOpen(k)') = paid'[d] + One(DstOpen(d)')
      BY <1>3, <1>5, <2>2, <2>3, <2>4, <3>2 DEF One
    <3> QED BY <2>2, <3>1, <3>3 DEF Linked, Balanced, One
  <2>5. CASE ~DstPaid(x)
    <3>1. paid'[d] = paid[d] /\ DstBack(x)
      BY <1>3, <2>5
    <3>2. now >= DstTime(d) /\ now \in Nat /\ DstTime(d) \in Nat
      BY <1>2, <1>5, <3>1, TimeFact DEF DstBack, Dst!Reached, DstTime
    <3>3. ~DstOpen(d)
      BY <1>2, <3>2, TimeFact
    <3>4. Linked(k)'
      BY <1>1, <1>3, <2>2, <3>1 DEF Linked
    <3>5. Balanced(k)'
      BY <1>1, <1>3, <2>2, <3>1, <3>3 DEF Balanced, One
    <3> QED BY <3>4, <3>5
  <2> QED BY <2>4, <2>5
<1> QED BY <1>4, <1>5

\* Every step keeps the pairs.
LEMMA NextPairs ==
  ASSUME Typed, Typed', SecretsInv, PairsInv, Step
  PROVE  PairsInv'
<1>1. CASE Quiet
  BY <1>1, PairsKept DEF Quiet
<1>2. ASSUME NEW o \in Orders, Created(o) \/ Dropped(o) PROVE PairsInv'
  BY <1>2, PairsKept DEF Created, Dropped
<1> QED
  BY <1>1, <1>2, PairsPass, PairsDisclosed, PairsFilled, PairsLocked, PairsSrcEnded,
     PairsDstEnded
  DEF Step

-----------------------------------------------------------------------------
\* The theorems.

SwapInv == Typed /\ SecretsInv /\ PairsInv

\* The invariant holds at the start, when nothing is live.
LEMMA InitSwap == Init => SwapInv
<1> SUFFICES ASSUME Init PROVE SwapInv
  OBVIOUS
<1>1. Typed
  BY InitTyped
<1>2. /\ \A o \in Orders : ~src_order[o].live
      /\ \A k \in SrcKeys : ~src_escrow[k].live /\ paid[k] = 0
      /\ \A d \in DstKeys : ~dst_escrow[d].live /\ paid[d] = 0
      /\ revealed = {}
  BY DEF Init, Src!Init, Dst!Init, Src!NoOrder, Src!NoEscrow, Dst!NoEscrow
<1>3. SecretsInv
  BY <1>2 DEF SecretsInv, HistoryAt, UsedIfOut, OrderAt, EscrowAt
<1>4. PairsInv
  BY <1>2, PartnerFact DEF PairsInv, Linked, Balanced, DstOpen, Out
<1> QED BY <1>1, <1>3, <1>4 DEF SwapInv

\* SwapInv is an invariant.
THEOREM SwapInvariant == Spec => []SwapInv
<1>1. SwapInv /\ [Next]_vars => SwapInv'
  <2> SUFFICES ASSUME SwapInv, [Next]_vars PROVE SwapInv'
    OBVIOUS
  <2>1. Step
    BY Steps
  <2>2. Typed'
    BY <2>1, NextTyped DEF SwapInv
  <2> QED BY <2>1, <2>2, NextSecrets, NextPairs DEF SwapInv
<1> QED BY <1>1, InitSwap, PTL DEF Spec

\* What the balance of a pair says of its two sides.
LEMMA BothWhole ==
  ASSUME SwapInv, NEW k \in SrcKeys
  PROVE  /\ paid[k] <= paid[Partner[k]] + One(DstPayable(Partner[k]))
         /\ paid[Partner[k]] <= paid[k] + One(SrcPayable(k))
<1> DEFINE d == Partner[k]
<1>1. /\ paid[k] \in Nat /\ paid[d] \in Nat /\ Linked(k) /\ Balanced(k)
      /\ d.hashlock = k.hashlock
  BY TimeFact, PartnerFact DEF SwapInv, PairsInv
<1>2. CASE Out(k.hashlock)
  <2>1. One(SrcPayable(k)) = One(SrcOpen(k)) /\ One(DstPayable(d)) = One(DstOpen(d))
    BY <1>1, <1>2 DEF One, SrcPayable, DstPayable, SrcOpen, DstOpen
  <2>2. paid[k] + One(SrcOpen(k)) = paid[d] + One(DstOpen(d))
    BY <1>1, <1>2 DEF Balanced
  <2>3. One(SrcOpen(k)) \in Nat /\ One(DstOpen(d)) \in Nat
    BY DEF One
  <2> HIDE DEF d
  <2> QED BY <1>1, <2>1, <2>2, <2>3 DEF d
<1>3. CASE ~Out(k.hashlock)
  <2>1. paid[k] = 0 /\ paid[d] = 0
    BY <1>1, <1>3 DEF Linked
  <2>2. One(SrcPayable(k)) \in Nat /\ One(DstPayable(d)) \in Nat
    BY DEF One
  <2> QED BY <2>1, <2>2
<1> QED BY <1>2, <1>3

\* Whatever the order of fills, offers, disclosures and endings on the two chains, a
\* maker whose escrow has been withdrawn by its taker has been paid, or can be.
THEOREM MakersStayWhole == Spec => []MakerWhole
<1>1. SwapInv => MakerWhole
  BY BothWhole DEF MakerWhole
<1> QED BY <1>1, SwapInvariant, PTL

\* And a taker that has paid a maker has been paid, or can be: the destination
\* chain's cancellation time is not after the source chain's ("create").
THEOREM TakersStayWhole == Spec => []TakerWhole
<1>1. SwapInv => TakerWhole
  BY BothWhole DEF TakerWhole
<1> QED BY <1>1, SwapInvariant, PTL

-----------------------------------------------------------------------------
\* The two programs in the swap.

\* What a change of the whitelist is to the clients.
LEMMA Registered ==
  ASSUME NEW c, NEW u \in Users, NEW x, resolver_access' = resolver_access \cup {<<c, u>>}
  PROVE  WL!ResolversOf(x)' = IF x = c THEN WL!ResolversOf(x) \cup {u} ELSE WL!ResolversOf(x)
BY DEF WL!ResolversOf

\* The same for a removal.
LEMMA Deregistered ==
  ASSUME NEW c, NEW u \in Users, NEW x, resolver_access' = resolver_access \ {<<c, u>>}
  PROVE  WL!ResolversOf(x)' = IF x = c THEN WL!ResolversOf(x) \ {u} ELSE WL!ResolversOf(x)
BY DEF WL!ResolversOf

\* Steps of the destination chain do not touch the source program.
LEMMA SrcStill ==
  ASSUME UNCHANGED <<now, revealed, srcVars, resolver_access>>
  PROVE  UNCHANGED Src!vars
BY DEF srcVars, Src!vars, WL!ResolversOf

\* Steps of the source chain do not touch the destination program.
LEMMA DstStill ==
  ASSUME UNCHANGED <<now, revealed, dstVars, resolver_access>>
  PROVE  UNCHANGED Dst!vars
BY DEF dstVars, Dst!vars, WL!ResolversOf

\* An instruction about an order is a step that leaves the clock and the secrets alone.
LEMMA OrderInstruction ==
  ASSUME NEW o \in Orders,
         \/ Src!Create(o) \/ Src!CancelOrder(o)
         \/ \E r \in Users, limit \in RewardLimits : Src!CancelOrderByResolver(o, r, limit)
  PROVE  Src!Next /\ UNCHANGED <<now, revealed>>
<1>1. UNCHANGED <<now, revealed>>
  BY DEF Src!Create, Src!CancelOrder, Src!CancelOrderByResolver
<1>2. Src!OrderStep(o)
  BY DEF Src!OrderStep
<1> QED BY <1>1, <1>2 DEF Src!Next

\* So does one of an escrow on the source chain,
LEMMA SrcInstruction ==
  ASSUME NEW k \in SrcKeys,
         \/ \E proof \in Src!Proofs(k.order) : Src!CreateEscrow(k, proof)
         \/ \E s \in Secrets : Src!Withdraw(k, s)
         \/ \E s \in Secrets, payer \in Users : Src!PublicWithdraw(k, s, payer)
         \/ Src!CancelEscrow(k) \/ \E payer \in Users : Src!PublicCancelEscrow(k, payer)
  PROVE  Src!Next /\ UNCHANGED <<now, revealed>>
<1>1. UNCHANGED <<now, revealed>>
  BY DEF Src!CreateEscrow, Src!Withdraw, Src!PublicWithdraw, Src!WithdrawWith,
         Src!CancelEscrow, Src!PublicCancelEscrow, Src!CancelTo
<1>2. Src!EscrowStep(k)
  BY DEF Src!EscrowStep
<1> QED BY <1>1, <1>2 DEF Src!Next

\* and one of the destination program.
LEMMA DstInstruction ==
  ASSUME NEW d \in DstKeys,
         \/ \E offer \in Offers : Dst!Create(d, offer)
         \/ \E s \in Secrets, with_ata \in BOOLEAN : Dst!Withdraw(d, s, with_ata)
         \/ \E s \in Secrets, payer \in Users, with_ata \in BOOLEAN :
              Dst!PublicWithdraw(d, s, payer, with_ata)
         \/ Dst!Cancel(d)
  PROVE  Dst!Next /\ UNCHANGED <<now, revealed>>
<1>1. UNCHANGED <<now, revealed>>
  BY DEF Dst!Create, Dst!Withdraw, Dst!PublicWithdraw, Dst!WithdrawBy, Dst!Cancel
<1>2. Dst!EscrowStep(d)
  BY DEF Dst!EscrowStep
<1> QED BY <1>1, <1>2 DEF Dst!Next

\* A step of the whitelist is, to a client, that of its authority or none.
LEMMA ClientStep ==
  ASSUME Authority, NEW x \in Clients
  PROVE  LET R == WL!ResolversOf(x)
         IN  \/ R' = R
             \/ \E u \in Users : u \notin R /\ R' = R \cup {u}
             \/ \E u \in Users : u \in R /\ R' = R \ {u}
<1> DEFINE R == WL!ResolversOf(x)
<1>1. CASE \E u \in Authorities : WL!Initialize(u) \/ WL!SetAuthority(authority, u)
  BY <1>1 DEF WL!Initialize, WL!SetAuthority, WL!ResolversOf
<1>2. ASSUME NEW r \in Registrations, WL!Register(authority, r[2], r[1])
      PROVE  R' = R \/ \E u \in Users : u \notin R /\ R' = R \cup {u}
  <2>1. /\ r[2] \in Users /\ <<r[1], r[2]>> \notin resolver_access
        /\ resolver_access' = resolver_access \cup {<<r[1], r[2]>>}
    BY <1>2, SwapAssumption DEF WL!Register
  <2>2. R' = IF x = r[1] THEN R \cup {r[2]} ELSE R
    BY <2>1, Registered
  <2>3. x = r[1] => r[2] \notin R
    BY <2>1 DEF WL!ResolversOf
  <2> QED BY <2>1, <2>2, <2>3
<1>3. ASSUME NEW r \in Registrations, WL!Deregister(authority, r[2], r[1])
      PROVE  R' = R \/ \E u \in Users : u \in R /\ R' = R \ {u}
  <2>1. /\ r[2] \in Users /\ <<r[1], r[2]>> \in resolver_access
        /\ resolver_access' = resolver_access \ {<<r[1], r[2]>>}
    BY <1>3, SwapAssumption DEF WL!Deregister
  <2>2. R' = IF x = r[1] THEN R \ {r[2]} ELSE R
    BY <2>1, Deregistered
  <2>3. x = r[1] => r[2] \in R
    BY <2>1 DEF WL!ResolversOf
  <2> QED BY <2>1, <2>2, <2>3
<1> QED BY <1>1, <1>2, <1>3 DEF Authority

\* Every step of a swap is one of the source program, or leaves it alone.
LEMMA SrcNext ==
  ASSUME [Next]_vars
  PROVE  [Src!Next]_(Src!vars)
<1>1. CASE UNCHANGED vars
  BY <1>1, SrcStill DEF vars, whitelistVars
<1>2. CASE Tick
  <2>1. Src!Tick
    BY <1>2 DEF Tick
  <2> QED BY <2>1 DEF Src!Next
<1>3. CASE Authority
  <2> DEFINE R == WL!ResolversOf(SrcClient)
  <2>1. UNCHANGED <<now, revealed, srcVars>>
    BY <1>3 DEF Authority
  <2>2. \/ R' = R
        \/ \E u \in Users : u \notin R /\ R' = R \cup {u}
        \/ \E u \in Users : u \in R /\ R' = R \ {u}
    BY <1>3, ClientStep DEF Clients
  <2> HIDE DEF R
  <2>3. CASE R' = R
    BY <2>1, <2>3 DEF R, srcVars, Src!vars
  <2>4. ASSUME NEW u \in Users, \/ u \notin R /\ R' = R \cup {u}
                                \/ u \in R /\ R' = R \ {u}
        PROVE  Src!Register(u) \/ Src!Deregister(u)
    BY <2>1, <2>4 DEF R, srcVars, Src!Register, Src!Deregister
  <2> QED BY <2>2, <2>3, <2>4 DEF Src!Next
<1>4. ASSUME NEW s \in Secrets, MakerDiscloses(s) PROVE Src!Next
  BY <1>4 DEF MakerDiscloses, Src!Next
<1>5. ASSUME NEW o \in Orders, MakerCreates(o) \/ OrderCancelled(o) PROVE Src!Next
  BY <1>5, OrderInstruction DEF MakerCreates, OrderCancelled
<1>6. ASSUME NEW k \in SrcKeys,
             TakerFills(k) \/ TakerWithdraws(k) \/ TakerIsPaid(k) \/ SrcReturned(k)
      PROVE  Src!Next
  BY <1>6, SrcInstruction DEF TakerFills, TakerWithdraws, TakerIsPaid, SrcReturned
<1>7. ASSUME NEW k \in SrcKeys, NEW offer \in Offers, TakerLocks(k, offer)
      PROVE  UNCHANGED Src!vars
  <2>1. Dst!Create(Partner[k], offer) /\ OnDst
    BY <1>7 DEF TakerLocks
  <2> QED BY <2>1, DstInstruction, PartnerFact, SrcStill DEF OnDst, whitelistVars
<1>8. ASSUME NEW d \in DstKeys,
             TakerPaysMaker(d) \/ DstReturned(d) \/ \E u \in Users : MakerIsPaid(d, u)
      PROVE  UNCHANGED Src!vars
  <2>1. OnDst /\ UNCHANGED <<now, revealed>>
    BY <1>8, DstInstruction DEF TakerPaysMaker, DstReturned, MakerIsPaid
  <2> QED BY <2>1, SrcStill DEF OnDst, whitelistVars
<1>9. CASE SrcAside
  BY <1>9, SrcAsideFact
<1>10. CASE DstAside
  BY <1>10, DstAsideFact, SrcStill DEF OnDst, whitelistVars
<1> QED BY <1>1, <1>2, <1>3, <1>4, <1>5, <1>6, <1>7, <1>8, <1>9, <1>10
        DEF Next, SrcAside, DstAside

\* And the same for the destination program.
LEMMA DstNext ==
  ASSUME [Next]_vars
  PROVE  [Dst!Next]_(Dst!vars)
<1>1. CASE UNCHANGED vars
  BY <1>1, DstStill DEF vars, whitelistVars
<1>2. CASE Tick
  <2>1. Dst!Tick
    BY <1>2 DEF Tick
  <2> QED BY <2>1 DEF Dst!Next
<1>3. CASE Authority
  <2> DEFINE R == WL!ResolversOf(DstClient)
  <2>1. UNCHANGED <<now, revealed, dstVars>>
    BY <1>3 DEF Authority
  <2>2. \/ R' = R
        \/ \E u \in Users : u \notin R /\ R' = R \cup {u}
        \/ \E u \in Users : u \in R /\ R' = R \ {u}
    BY <1>3, ClientStep DEF Clients
  <2> HIDE DEF R
  <2>3. CASE R' = R
    BY <2>1, <2>3 DEF R, dstVars, Dst!vars
  <2>4. ASSUME NEW u \in Users, \/ u \notin R /\ R' = R \cup {u}
                                \/ u \in R /\ R' = R \ {u}
        PROVE  Dst!Register(u) \/ Dst!Deregister(u)
    BY <2>1, <2>4 DEF R, dstVars, Dst!Register, Dst!Deregister
  <2> QED BY <2>2, <2>3, <2>4 DEF Dst!Next
<1>4. ASSUME NEW s \in Secrets, MakerDiscloses(s) PROVE Dst!Next
  BY <1>4 DEF MakerDiscloses, Dst!Next
<1>5. ASSUME NEW o \in Orders, MakerCreates(o) \/ OrderCancelled(o) PROVE UNCHANGED Dst!vars
  <2>1. OnSrc /\ UNCHANGED <<now, revealed>>
    BY <1>5, OrderInstruction DEF MakerCreates, OrderCancelled
  <2> QED BY <2>1, DstStill DEF OnSrc, whitelistVars
<1>6. ASSUME NEW k \in SrcKeys,
             TakerFills(k) \/ TakerWithdraws(k) \/ TakerIsPaid(k) \/ SrcReturned(k)
      PROVE  UNCHANGED Dst!vars
  <2>1. OnSrc /\ UNCHANGED <<now, revealed>>
    BY <1>6, SrcInstruction DEF TakerFills, TakerWithdraws, TakerIsPaid, SrcReturned
  <2> QED BY <2>1, DstStill DEF OnSrc, whitelistVars
<1>7. ASSUME NEW k \in SrcKeys, NEW offer \in Offers, TakerLocks(k, offer) PROVE Dst!Next
  BY <1>7, DstInstruction, PartnerFact DEF TakerLocks
<1>8. ASSUME NEW d \in DstKeys,
             TakerPaysMaker(d) \/ DstReturned(d) \/ \E u \in Users : MakerIsPaid(d, u)
      PROVE  Dst!Next
  BY <1>8, DstInstruction DEF TakerPaysMaker, DstReturned, MakerIsPaid
<1>9. CASE SrcAside
  BY <1>9, SrcAsideFact, DstStill DEF OnSrc, whitelistVars
<1>10. CASE DstAside
  BY <1>10, DstAsideFact
<1> QED BY <1>1, <1>2, <1>3, <1>4, <1>5, <1>6, <1>7, <1>8, <1>9, <1>10
        DEF Next, SrcAside, DstAside

\* A swap is a behaviour of both programs: whatever is proved of one of them, for
\* any constants and any environment, holds in a swap.
THEOREM ProgramsCompose == Spec => Src!Spec /\ Dst!Spec
<1>1. Init => Src!Init /\ Dst!Init
  BY DEF Init
<1>2. [Next]_vars => [Src!Next]_(Src!vars) /\ [Dst!Next]_(Dst!vars)
  BY SrcNext, DstNext
<1> QED BY <1>1, <1>2, PTL DEF Spec, Src!Spec, Dst!Spec

-----------------------------------------------------------------------------
\* The last call.

\* The rescue delay, and a rescue start.
LEMMA RescueFact ==
  ASSUME NEW tl \in Src!TimelockWords
  PROVE  /\ RESCUE_DELAY \in Nat
         /\ Src!RescueStart(tl) \in Nat /\ Src!RescueStart(tl) = tl["DeployedAt"] + RESCUE_DELAY
         /\ Dst!RescueStart(tl) = Src!RescueStart(tl)
<1>1. RESCUE_DELAY \in Nat
  BY ProgramsAssumption, SwapTypesAssumption DEF Src!TimelocksAssumption, Src!U32
<1>2. tl["DeployedAt"] \in Nat
  BY WordFact, StagesFact
<1> QED BY <1>1, <1>2 DEF Src!RescueStart, Dst!RescueStart

\* On the source chain no escrow is made late or in the future, and every taker keeps
\* its token accounts.
DeployedBefore(k) == src_escrow[k].live => src_escrow[k].timelocks["DeployedAt"] <= now

SrcPromises ==
  /\ late = {}
  /\ \A k \in SrcKeys : DeployedBefore(k)
  /\ \A k \in SrcKeys, m \in Mints : src_bank.ata[Src!Ata(k.taker, m)].live

\* Recipients' token accounts that a withdrawal may still have to open.
Missing == {a \in OfferedAtas : ~dst_bank.ata[a].live}

\* An escrow on the destination chain is made of an offer, for a source escrow, and
\* is over before its rescue starts.
Offered(d) ==
  dst_escrow[d].live =>
    /\ \E k \in SrcKeys : d = Partner[k]
    /\ Dst!RecipientAta(d) \in OfferedAtas
    /\ dst_escrow[d].timelocks["DstCancellation"] <= RESCUE_DELAY

\* Once its secret is out, a watcher has access and a window to withdraw.
Served(d) ==
  DstOpen(d) /\ Out(d.hashlock) =>
    /\ WL!ResolversOf(DstClient) \cap DstWatchers # {}
    /\ Dst!StageTime(dst_escrow[d].timelocks, "DstPublicWithdrawal") < DstTime(d)

\* And every watcher has what the recipients' accounts will cost.
DstPromises ==
  /\ \A d \in DstKeys : Offered(d) /\ Served(d)
  /\ \A w \in DstWatchers : dst_bank.sol[w] >= RENT_ATA * Cardinality(Missing)

\* They hold at the start.
LEMMA InitPromises == Init => SrcPromises /\ DstPromises
<1> SUFFICES ASSUME Init PROVE SrcPromises /\ DstPromises
  OBVIOUS
<1>1. SrcPromises
  <2>1. late = {}
    BY DEF Init, Src!Init
  <2>2. ASSUME NEW k \in SrcKeys, NEW m \in Mints PROVE src_bank.ata[Src!Ata(k.taker, m)].live
    <3> DEFINE u == k.taker
    <3>1. u \in Users
      BY SwapTypesAssumption
    <3> HIDE DEF u
    <3>2. <<u, m>> \in Src!Owners \X Mints
      BY <3>1 DEF Src!Owners
    <3>3. src_bank.ata[<<u, m>>].live = TRUE
      BY <3>1, <3>2 DEF Init, Src!Init
    <3> QED BY <3>3 DEF Src!Ata, u
  <2>3. \A k \in SrcKeys : DeployedBefore(k)
    BY DEF Init, Src!Init, Src!NoEscrow, DeployedBefore
  <2> QED BY <2>1, <2>2, <2>3 DEF SrcPromises
<1>2. \A d \in DstKeys : Offered(d) /\ Served(d)
  BY DEF Init, Dst!Init, Dst!NoEscrow, Offered, Served, DstOpen
<1>3. ASSUME NEW w \in DstWatchers PROVE dst_bank.sol[w] >= RENT_ATA * Cardinality(Missing)
  <2>1. OfferedAtas \subseteq Users \X Mints
    BY SwapTypesAssumption DEF OfferedAtas, Dst!OfferSet, Dst!Ata
  <2>2. \A a \in OfferedAtas : dst_bank.ata[a].live <=> a \in DstAtas
    <3> TAKE a \in OfferedAtas
    <3>1. a \in Dst!Owners \X Mints
      BY <2>1 DEF Dst!Owners
    <3> DEFINE open == [live     |-> TRUE,
                        amount   |-> DstTokens[a],
                        lamports |-> RENT_ATA + Dst!TokenLamports(a, DstTokens[a])]
    <3>2. dst_bank.ata[a] = IF a \in DstAtas THEN open ELSE Dst!NoAta
      BY <3>1 DEF Init, Dst!Init
    <3>3. open.live = TRUE /\ Dst!NoAta.live = FALSE
      BY DEF Dst!NoAta
    <3> HIDE DEF open
    <3> QED BY <3>2, <3>3
  <2>3. Missing = OfferedAtas \ DstAtas
    BY <2>2 DEF Missing
  <2>4. w \in Users /\ w \in Dst!Owners
    BY DEF DstWatchers, Dst!Owners
  <2>5. dst_bank.sol[w] = DstSol[w]
    BY <2>4 DEF Init, Dst!Init
  <2> QED BY <2>3, <2>5, WatchersAssumption
<1> QED BY <1>1, <1>2, <1>3 DEF DstPromises

\* An escrow is deployed at the time of its fill, and that time passes.
LEMMA NextDeployed ==
  ASSUME Typed, Typed', Step, NEW k \in SrcKeys, DeployedBefore(k)
  PROVE  DeployedBefore(k)'
<1> SUFFICES ASSUME src_escrow'[k].live PROVE src_escrow'[k].timelocks["DeployedAt"] <= now'
  BY DEF DeployedBefore
<1>1. now \in Nat /\ now' \in Nat /\ (now' = now \/ now' = now + 1)
  <2>1. now' = now \/ now' = now + 1
    BY DEF Step, Quiet, Passes, Disclosed, Created, Dropped, Filled, SrcPaid, SrcBack, SrcEnded,
           Locked, DstPaid, DstBack, DstEnded
  <2> QED BY <2>1, SwapTypesAssumption DEF Typed
<1>2. CASE src_escrow'[k] = src_escrow[k]
  <2>1. src_escrow[k].timelocks["DeployedAt"] \in Nat
    BY WordFact, StagesFact DEF Typed
  <2>2. src_escrow[k].timelocks["DeployedAt"] <= now
    BY <1>2 DEF DeployedBefore
  <2> QED BY <1>1, <1>2, <2>1, <2>2
<1>3. ASSUME NEW proof \in Src!Proofs(k.order), Filled(k, proof)
      PROVE  src_escrow'[k].timelocks["DeployedAt"] <= now'
  <2>1. k.order \in Orders /\ src_escrow'[k].timelocks = Src!EscrowTimelocks(k.order)
    BY <1>3, FillParts
  <2>2. src_order[k.order].timelocks \in Src!TimelockWords /\ now \in 0..MaxTime
    BY <2>1 DEF Typed, Src!OrderState
  <2>3. src_escrow'[k].timelocks["DeployedAt"] = now
    BY <2>1, <2>2, WordFact, StagesFact DEF Src!EscrowTimelocks
  <2> QED BY <1>1, <2>3
<1>4. ASSUME NEW l \in SrcKeys, NEW proof \in Src!Proofs(l.order), Filled(l, proof), l # k
      PROVE  src_escrow'[k] = src_escrow[k]
  BY <1>4, FillParts
<1>5. ASSUME NEW l \in SrcKeys, SrcPaid(l) \/ SrcBack(l)
      PROVE  src_escrow'[k] = src_escrow[k]
  <2>1. src_escrow' = [src_escrow EXCEPT ![l] = Src!NoEscrow]
    BY <1>5 DEF SrcPaid, SrcBack, SrcEnded
  <2> QED BY <2>1 DEF Src!NoEscrow, Typed
<1>6. \/ UNCHANGED src_escrow
      \/ \E l \in SrcKeys : SrcPaid(l) \/ SrcBack(l)
      \/ \E l \in SrcKeys : \E proof \in Src!Proofs(l.order) : Filled(l, proof)
  BY DEF Step, Quiet, Passes, Disclosed, Created, Dropped, Locked, DstPaid, DstBack, DstEnded
<1> QED BY <1>2, <1>3, <1>4, <1>5, <1>6

\* The promises of the source chain last: a taker fills no order that is past its
\* rescue start.
LEMMA NextSrcPromises ==
  ASSUME Typed, Typed', SrcPromises, [Next]_vars, [Src!CreatorsPay]_(Src!vars)
  PROVE  SrcPromises'
<1>1. late' = {}
  <2>1. ASSUME NEW k \in SrcKeys, TakerFills(k) PROVE late' = {}
    <3>1. PICK proof \in Src!Proofs(k.order) : Src!CreateEscrow(k, proof)
      BY <2>1 DEF TakerFills
    <3>2. ~Src!OrderRescuable(k.order)
      BY <2>1 DEF TakerFills
    <3> QED BY <3>1, <3>2 DEF SrcPromises, Src!CreateEscrow, Src!OrderRescuable
  <2>2. ASSUME NEW k \in SrcKeys, TakerWithdraws(k) \/ TakerIsPaid(k) \/ SrcReturned(k)
        PROVE  late' = late
    BY <2>2 DEF TakerWithdraws, TakerIsPaid, SrcReturned, Src!Withdraw, Src!PublicWithdraw,
                Src!WithdrawWith, Src!CancelEscrow, Src!PublicCancelEscrow, Src!CancelTo
  <2>3. ASSUME NEW o \in Orders, MakerCreates(o) \/ OrderCancelled(o) PROVE late' = late
    BY <2>3 DEF MakerCreates, OrderCancelled, Src!Create, Src!CancelOrder,
                Src!CancelOrderByResolver
  <2>4. ASSUME NEW d \in DstKeys,
               TakerPaysMaker(d) \/ DstReturned(d) \/ \E u \in Users : MakerIsPaid(d, u)
        PROVE  late' = late
    BY <2>4 DEF TakerPaysMaker, DstReturned, MakerIsPaid, OnDst, srcVars
  <2>5. ASSUME NEW k \in SrcKeys, NEW offer \in Offers, TakerLocks(k, offer)
        PROVE  late' = late
    BY <2>5 DEF TakerLocks, OnDst, srcVars
  <2>6. ASSUME \/ UNCHANGED vars \/ Tick \/ Authority
               \/ \E s \in Secrets : MakerDiscloses(s)
        PROVE  late' = late
    BY <2>6 DEF vars, Tick, Authority, MakerDiscloses, srcVars
  <2>7. ASSUME SrcAside \/ DstAside PROVE late' = late
    BY <2>7, SrcAsideFact, DstAsideFact DEF OnDst, srcVars
  <2> QED BY <2>1, <2>2, <2>3, <2>4, <2>5, <2>6, <2>7
          DEF Next, SrcAside, DstAside, SrcPromises
<1>2. ASSUME NEW k \in SrcKeys, NEW m \in Mints PROVE src_bank'.ata[Src!Ata(k.taker, m)].live
  <2>1. ASSUME NEW u \in Users, u \notin Strangers, src_bank.ata[Src!Ata(u, m)].live
        PROVE  src_bank'.ata[Src!Ata(u, m)].live
    <3>1. CASE Src!CreatorsPay
      <4>1. Src!KeepsTokens(u) \/ Src!KeepsAtas(u)
        BY <2>1, <3>1 DEF Src!CreatorsPay
      <4> QED BY <2>1, <4>1 DEF Src!KeepsTokens, Src!KeepsAtas
    <3>2. CASE UNCHANGED Src!vars
      BY <2>1, <3>2 DEF Src!vars
    <3> QED BY <3>1, <3>2
  <2>2. k.taker \in Users /\ k.taker \notin Strangers
    BY SwapTypesAssumption, StrangersAssumption
  <2> QED BY <2>1, <2>2 DEF SrcPromises
<1>3. \A k \in SrcKeys : DeployedBefore(k)'
  BY Steps, NextDeployed DEF SrcPromises
<1> QED BY <1>1, <1>2, <1>3 DEF SrcPromises, Src!Ata

\* What a step may do to an escrow of the destination chain.
LEMMA DstChange ==
  ASSUME Typed, [Next]_vars, NEW d \in DstKeys
  PROVE  \/ dst_escrow'[d] = dst_escrow[d]
         \/ ~dst_escrow'[d].live
         \/ /\ ~Out(d.hashlock)'
            /\ \E k \in SrcKeys, offer \in Offers :
                 /\ d = Partner[k] /\ Locked(k, offer)
                 /\ dst_escrow'[d].recipient = offer.recipient
                 /\ dst_escrow'[d].token = offer.token
<1>1. CASE UNCHANGED dst_escrow
  BY <1>1
<1>2. ASSUME NEW k \in SrcKeys, NEW offer \in Offers, TakerLocks(k, offer)
      PROVE  \/ dst_escrow'[d] = dst_escrow[d]
             \/ /\ ~Out(d.hashlock)' /\ d = Partner[k] /\ Locked(k, offer)
                /\ dst_escrow'[d].recipient = offer.recipient
                /\ dst_escrow'[d].token = offer.token
  <2>1. Dst!Create(Partner[k], offer) /\ ~Out(k.hashlock)
    BY <1>2 DEF TakerLocks
  <2>2. /\ UNCHANGED revealed
        /\ \E e : /\ dst_escrow' = [dst_escrow EXCEPT ![Partner[k]] = e]
                  /\ e.recipient = offer.recipient /\ e.token = offer.token
    <3> DEFINE e == [live            |-> TRUE,
                     recipient       |-> offer.recipient,
                     token           |-> offer.token,
                     asset_is_native |-> offer.asset_is_native,
                     safety_deposit  |-> offer.safety_deposit,
                     timelocks       |-> Dst!SetDeployedAt(offer.timelocks, now)]
    <3>1. UNCHANGED revealed /\ dst_escrow' = [dst_escrow EXCEPT ![Partner[k]] = e]
      BY <2>1 DEF Dst!Create
    <3>2. e.recipient = offer.recipient /\ e.token = offer.token
      OBVIOUS
    <3> HIDE DEF e
    <3> QED BY <3>1, <3>2
  <2>3. DOMAIN dst_escrow = DstKeys
    BY DEF Typed
  <2>4. CASE d # Partner[k]
    BY <2>2, <2>4
  <2>5. CASE d = Partner[k]
    <3>1. ~Out(d.hashlock)'
      BY <2>1, <2>2, <2>5, PartnerFact DEF Out
    <3>2. Locked(k, offer)
      BY <1>2, TakerLocked
    <3> QED BY <2>2, <2>3, <2>5, <3>1, <3>2
  <2> QED BY <2>4, <2>5
<1>3. ASSUME NEW c \in DstKeys,
             TakerPaysMaker(c) \/ DstReturned(c) \/ \E u \in Users : MakerIsPaid(c, u)
      PROVE  dst_escrow'[d] = dst_escrow[d] \/ ~dst_escrow'[d].live
  <2>1. Dst!CloseEscrow(c)
    BY <1>3 DEF TakerPaysMaker, DstReturned, MakerIsPaid, Dst!Withdraw, Dst!PublicWithdraw,
                Dst!WithdrawBy, Dst!Cancel
  <2> QED BY <2>1 DEF Dst!CloseEscrow, Dst!NoEscrow, Typed
<1>4. ASSUME NEW k \in SrcKeys,
             TakerFills(k) \/ TakerWithdraws(k) \/ TakerIsPaid(k) \/ SrcReturned(k)
      PROVE  UNCHANGED dst_escrow
  BY <1>4 DEF TakerFills, TakerWithdraws, TakerIsPaid, SrcReturned, OnSrc, dstVars
<1>5. ASSUME NEW o \in Orders, MakerCreates(o) \/ OrderCancelled(o) PROVE UNCHANGED dst_escrow
  BY <1>5 DEF MakerCreates, OrderCancelled, OnSrc, dstVars
<1>6. ASSUME \/ UNCHANGED vars \/ Tick \/ Authority
             \/ \E s \in Secrets : MakerDiscloses(s)
      PROVE  UNCHANGED dst_escrow
  BY <1>6 DEF vars, Tick, Authority, MakerDiscloses, dstVars
<1>7. ASSUME SrcAside \/ DstAside PROVE UNCHANGED dst_escrow
  BY <1>7, SrcAsideFact, DstAsideFact DEF OnSrc, dstVars
<1> QED BY <1>1, <1>2, <1>3, <1>4, <1>5, <1>6, <1>7 DEF Next, SrcAside, DstAside

\* "create" compares a destination escrow's cancellation time with that of its source
\* escrow, which comes no later than the rescue.
LEMMA LockedDelay ==
  ASSUME Typed, SecretsInv, NEW k \in SrcKeys, DeployedBefore(k),
         NEW offer \in Offers, Locked(k, offer)
  PROVE  dst_escrow'[Partner[k]].timelocks["DstCancellation"] <= RESCUE_DELAY
<1> DEFINE src == src_escrow[k].timelocks
           dst == offer.timelocks
<1>1. /\ src \in Src!TimelockWords /\ dst \in Src!TimelockWords
      /\ now \in 0..MaxTime /\ now \in Nat
  BY StagesFact, SwapTypesAssumption DEF Typed, Dst!OfferSet
<1>2. /\ src["SrcCancellation"] \in Nat /\ src["DeployedAt"] \in Nat
      /\ src["DeployedAt"] <= now /\ src["SrcCancellation"] <= RESCUE_DELAY
  <2>1. src_escrow[k].live
    BY DEF Locked
  <2>2. Stamped(src, k.order)
    BY <2>1 DEF SecretsInv, EscrowAt
  <2>3. Terms[k.order].timelocks["SrcCancellation"] <= RESCUE_DELAY
    BY KeyFact, MakersAssumption
  <2> QED BY <1>1, <2>1, <2>2, <2>3, WordFact, StagesFact DEF DeployedBefore, Stamped
<1>3. /\ dst["DstCancellation"] \in Nat
      /\ Src!SetDeployedAt(dst, now)["DstCancellation"] = dst["DstCancellation"]
      /\ Src!SetDeployedAt(dst, now)["DeployedAt"] = now
  BY <1>1, WordFact, StagesFact
<1>4. now + dst["DstCancellation"] <= src["DeployedAt"] + src["SrcCancellation"]
  <2>1. Dst!StageTime(Dst!SetDeployedAt(dst, now), "DstCancellation") <=
          Src!StageTime(src, "SrcCancellation")
    BY DEF Locked
  <2>2. Src!StageTime(Src!SetDeployedAt(dst, now), "DstCancellation") <=
          Src!StageTime(src, "SrcCancellation")
    <3> HIDE DEF src, dst
    <3> QED BY <2>1, StagesFact
  <2> HIDE DEF src, dst
  <2> QED BY <1>3, <2>2 DEF Src!StageTime
<1>5. RESCUE_DELAY \in Nat
  BY <1>1, RescueFact
<1>6. dst["DstCancellation"] <= RESCUE_DELAY
  <2> HIDE DEF src, dst
  <2> QED BY <1>1, <1>2, <1>3, <1>4, <1>5
<1>7. dst_escrow'[Partner[k]].timelocks = Src!SetDeployedAt(dst, now)
  <2>1. PICK e : /\ dst_escrow' = [dst_escrow EXCEPT ![Partner[k]] = e]
                 /\ e.timelocks = Dst!SetDeployedAt(dst, now)
    BY DEF Locked
  <2>2. dst_escrow'[Partner[k]] = e
    BY <2>1, PartnerFact DEF Typed
  <2>3. Dst!SetDeployedAt(dst, now) = Src!SetDeployedAt(dst, now)
    BY StagesFact
  <2> QED BY <2>1, <2>2, <2>3
<1> QED BY <1>3, <1>6, <1>7

\* What is offered stays so.
LEMMA NextOffered ==
  ASSUME Typed, SecretsInv, \A k \in SrcKeys : DeployedBefore(k),
         NEW d \in DstKeys, Offered(d), [Next]_vars
  PROVE  Offered(d)'
<1>1. CASE dst_escrow'[d] = dst_escrow[d]
  BY <1>1 DEF Offered, Dst!RecipientAta, Dst!Ata
<1>2. CASE ~dst_escrow'[d].live
  BY <1>2 DEF Offered
<1>3. ASSUME NEW k \in SrcKeys, NEW offer \in Offers, d = Partner[k], Locked(k, offer),
             dst_escrow'[d].recipient = offer.recipient, dst_escrow'[d].token = offer.token
      PROVE  Offered(d)'
  <2>1. dst_escrow'[d].timelocks["DstCancellation"] <= RESCUE_DELAY
    BY <1>3, LockedDelay
  <2> QED BY <1>3, <2>1 DEF Offered, OfferedAtas, Dst!RecipientAta, Dst!Ata
<1> QED BY <1>1, <1>2, <1>3, DstChange

\* The authority does not remove watchers.
LEMMA WatchersStay ==
  ASSUME [Next]_vars, NEW u \in WL!ResolversOf(DstClient) \cap DstWatchers
  PROVE  u \in WL!ResolversOf(DstClient)'
<1>1. u \in Users /\ <<DstClient, u>> \in resolver_access /\ <<DstClient, u>> \in Watchers
  BY DEF WL!ResolversOf, DstWatchers
<1>2. SUFFICES <<DstClient, u>> \in resolver_access'
  BY <1>1 DEF WL!ResolversOf
<1>3. CASE Authority
  <2>1. CASE \E v \in Authorities : WL!Initialize(v) \/ WL!SetAuthority(authority, v)
    BY <1>1, <2>1 DEF WL!Initialize, WL!SetAuthority
  <2>2. CASE \E r \in Registrations : WL!Register(authority, r[2], r[1])
    BY <1>1, <2>2 DEF WL!Register
  <2>3. ASSUME NEW r \in Registrations \ Watchers, WL!Deregister(authority, r[2], r[1])
        PROVE  <<DstClient, u>> \in resolver_access'
    <3>1. r = <<r[1], r[2]>> /\ r \notin Watchers
      BY SwapAssumption
    <3> QED BY <1>1, <2>3, <3>1 DEF WL!Deregister
  <2> QED BY <1>3, <2>1, <2>2, <2>3 DEF Authority
<1>4. ASSUME \/ UNCHANGED vars \/ Tick \/ \E s \in Secrets : MakerDiscloses(s)
      PROVE  UNCHANGED resolver_access
  BY <1>4 DEF vars, Tick, MakerDiscloses, whitelistVars
<1>5. ASSUME NEW o \in Orders, MakerCreates(o) \/ OrderCancelled(o)
      PROVE  UNCHANGED resolver_access
  BY <1>5 DEF MakerCreates, OrderCancelled, OnSrc, whitelistVars
<1>6. ASSUME NEW k \in SrcKeys,
             TakerFills(k) \/ TakerWithdraws(k) \/ TakerIsPaid(k) \/ SrcReturned(k)
      PROVE  UNCHANGED resolver_access
  BY <1>6 DEF TakerFills, TakerWithdraws, TakerIsPaid, SrcReturned, OnSrc, whitelistVars
<1>7. ASSUME NEW k \in SrcKeys, NEW offer \in Offers, TakerLocks(k, offer)
      PROVE  UNCHANGED resolver_access
  BY <1>7 DEF TakerLocks, OnDst, whitelistVars
<1>8. ASSUME NEW d \in DstKeys,
             TakerPaysMaker(d) \/ DstReturned(d) \/ \E v \in Users : MakerIsPaid(d, v)
      PROVE  UNCHANGED resolver_access
  BY <1>8 DEF TakerPaysMaker, DstReturned, MakerIsPaid, OnDst, whitelistVars
<1>9. ASSUME SrcAside \/ DstAside PROVE UNCHANGED resolver_access
  BY <1>9, SrcAsideFact, DstAsideFact DEF OnSrc, OnDst, whitelistVars
<1> QED BY <1>1, <1>3, <1>4, <1>5, <1>6, <1>7, <1>8, <1>9 DEF Next, SrcAside, DstAside

\* A secret comes out in one way only, and the clock only goes forward.
LEMMA OutFact ==
  ASSUME Typed, Step
  PROVE  /\ now' = now \/ now' = now + 1
         /\ \A h : Out(h)' => \/ Out(h)
                              \/ \E s \in Secrets : Keccak[s] = h /\ Disclosed(s)
<1>1. now' = now \/ now' = now + 1
  BY DEF Step, Quiet, Passes, Disclosed, Created, Dropped, Filled, SrcPaid, SrcBack, SrcEnded,
         Locked, DstPaid, DstBack, DstEnded
<1>2. UNCHANGED revealed \/ \E s \in Secrets : Disclosed(s)
  BY DEF Step, Quiet, Passes, Created, Dropped, Filled, SrcPaid, SrcBack, SrcEnded,
         Locked, DstPaid, DstBack, DstEnded
<1>3. ASSUME NEW s \in Secrets, Disclosed(s) PROVE revealed' = revealed \cup {s}
  BY <1>3 DEF Disclosed
<1> QED BY <1>1, <1>2, <1>3 DEF Out

\* Who is served when a secret comes out still is as long as the escrow can pay.
LEMMA NextServed ==
  ASSUME Typed, Typed', PairsInv, NEW d \in DstKeys, Offered(d), Served(d), [Next]_vars
  PROVE  Served(d)'
<1> SUFFICES ASSUME DstOpen(d)', Out(d.hashlock)'
             PROVE  /\ WL!ResolversOf(DstClient)' \cap DstWatchers # {}
                    /\ Dst!StageTime(dst_escrow'[d].timelocks, "DstPublicWithdrawal") < DstTime(d)'
  BY DEF Served
<1>1. dst_escrow'[d] = dst_escrow[d]
  BY DstChange DEF DstOpen
<1>2. Step
  BY Steps
<1>3. DstOpen(d)
  <2>1. /\ now \in Nat /\ MAX_U32 \in Nat /\ DstTime(d) \in Nat
        /\ DstOpen(d) <=> dst_escrow[d].live /\ DstTime(d) <= MAX_U32 /\ now < DstTime(d)
    BY TimeFact
  <2>2. dst_escrow[d].live /\ DstTime(d) <= MAX_U32 /\ now' < DstTime(d)
    BY <1>1 DEF DstOpen, DstTime, Dst!Before, Dst!StageFits
  <2> QED BY <1>2, <2>1, <2>2, OutFact
<1>4. /\ WL!ResolversOf(DstClient) \cap DstWatchers # {}
      /\ Dst!StageTime(dst_escrow[d].timelocks, "DstPublicWithdrawal") < DstTime(d)
  <2>1. CASE Out(d.hashlock)
    BY <1>3, <2>1 DEF Served
  <2>2. ASSUME ~Out(d.hashlock), NEW s \in Secrets, Keccak[s] = d.hashlock, Disclosed(s)
        PROVE  /\ WL!ResolversOf(DstClient) \cap DstWatchers # {}
               /\ Dst!StageTime(dst_escrow[d].timelocks, "DstPublicWithdrawal") < DstTime(d)
    <3>1. PICK k \in SrcKeys : d = Partner[k]
      BY <1>3 DEF Offered, DstOpen
    <3>2. k.hashlock = d.hashlock
      BY <3>1, PartnerFact
    <3>3. src_escrow[k].live
      BY <1>3, <2>2, <3>1, <3>2 DEF PairsInv, Linked
    <3>4. PartnerPays(k)
      BY <2>2, <3>2, <3>3 DEF Disclosed, Opens
    <3> QED BY <3>1, <3>4 DEF PartnerPays, DstTime
  <2> QED BY <1>2, <2>1, <2>2, OutFact
<1>5. WL!ResolversOf(DstClient)' \cap DstWatchers # {}
  BY <1>4, WatchersStay
<1> QED BY <1>1, <1>4, <1>5 DEF DstTime

\* Products of a rent.
LEMMA RentFact ==
  ASSUME NEW r \in Nat, NEW n \in Nat, NEW m \in Nat, m <= n
  PROVE  /\ r * n \in Nat /\ r * m \in Nat /\ r * m <= r * n
         /\ m + 1 <= n => r * m + r <= r * n
<1>1. r * n \in Nat /\ r * m \in Nat
  OBVIOUS
<1>2. n = m + (n - m) /\ n - m \in Nat
  OBVIOUS
<1>3. r * n = r * m + r * (n - m) /\ r * (n - m) \in Nat
  BY <1>2
<1>4. r * m <= r * n
  BY <1>1, <1>3
<1>5. ASSUME m + 1 <= n PROVE r * m + r <= r * n
  <2>1. n - m - 1 \in Nat /\ n - m = 1 + (n - m - 1)
    BY <1>5
  <2>2. r * (n - m) = r + r * (n - m - 1) /\ r * (n - m - 1) \in Nat
    BY <2>1
  <2> QED BY <1>1, <1>3, <2>2
<1> QED BY <1>1, <1>4, <1>5

\* The recipients' accounts that are missing become fewer.
LEMMA MissingShrinks ==
  ASSUME [Dst!CreatorsPay]_(Dst!vars)
  PROVE  /\ Missing' \subseteq Missing /\ IsFiniteSet(Missing) /\ IsFiniteSet(Missing')
         /\ Cardinality(Missing) \in Nat /\ Cardinality(Missing') \in Nat
         /\ Cardinality(Missing') <= Cardinality(Missing)
         /\ \A a \in Missing \ Missing' : Cardinality(Missing') + 1 <= Cardinality(Missing)
<1>1. ASSUME NEW a \in OfferedAtas, dst_bank.ata[a].live PROVE dst_bank'.ata[a].live
  <2>1. CASE UNCHANGED Dst!vars
    BY <1>1, <2>1 DEF Dst!vars
  <2>2. CASE Dst!CreatorsPay
    <3>1. PICK u \in Users, m \in Mints : a = Dst!Ata(u, m) /\ u \notin Strangers
      BY SwapTypesAssumption, StrangersAssumption DEF OfferedAtas, Dst!OfferSet
    <3>2. Dst!KeepsTokens(u) \/ Dst!KeepsAtas(u)
      BY <2>2, <3>1 DEF Dst!CreatorsPay
    <3> QED BY <1>1, <3>1, <3>2 DEF Dst!KeepsTokens, Dst!KeepsAtas
  <2> QED BY <2>1, <2>2
<1>2. Missing' \subseteq Missing
  BY <1>1 DEF Missing, OfferedAtas, Dst!Ata
<1>3. Missing \subseteq OfferedAtas
  BY DEF Missing
<1>4. IsFiniteSet(Missing) /\ IsFiniteSet(Missing')
  BY <1>2, <1>3, FS_Subset, WatchersAssumption
<1>5. /\ Cardinality(Missing) \in Nat /\ Cardinality(Missing') \in Nat
      /\ Cardinality(Missing') <= Cardinality(Missing)
  BY <1>2, <1>4, FS_CardinalityType, FS_Subset
<1>6. ASSUME NEW a \in Missing, a \notin Missing'
      PROVE  Cardinality(Missing') + 1 <= Cardinality(Missing)
  <2>1. /\ IsFiniteSet(Missing \ {a}) /\ Cardinality(Missing \ {a}) = Cardinality(Missing) - 1
    BY <1>4, <1>6, FS_RemoveElement
  <2>2. Missing' \subseteq Missing \ {a}
    BY <1>2, <1>6
  <2>3. Cardinality(Missing') <= Cardinality(Missing \ {a})
    BY <2>1, <2>2, FS_Subset
  <2> QED BY <1>5, <2>1, <2>3
<1> QED BY <1>2, <1>4, <1>5, <1>6

\* A watcher pays for no more than the accounts that its withdrawals open.
LEMMA NextWatcherFunds ==
  ASSUME Dst!TypeOK, Dst!TypeOK', \A d \in DstKeys : Offered(d),
         [Dst!CreatorsPay]_(Dst!vars),
         NEW w \in DstWatchers, dst_bank.sol[w] >= RENT_ATA * Cardinality(Missing)
  PROVE  dst_bank'.sol[w] >= RENT_ATA * Cardinality(Missing')
<1> DEFINE n == Cardinality(Missing)
           m == Cardinality(Missing')
<1>1. /\ n \in Nat /\ m \in Nat /\ m <= n
      /\ \A a \in Missing \ Missing' : m + 1 <= n
  BY MissingShrinks
<1>2. w \in Users /\ w \notin Strangers /\ \A d \in DstKeys : d.creator # w
  <2>1. <<DstClient, w>>[2] \notin Strangers
    BY StrangersAssumption DEF DstWatchers
  <2> QED BY <2>1, WatchersAssumption DEF DstWatchers
<1>3. dst_bank.sol[w] \in Nat /\ dst_bank'.sol[w] \in Nat
  BY <1>2 DEF Dst!TypeOK, Dst!Bank, Dst!Owners
<1>4. RENT_ATA \in Nat
  BY ProgramsAssumption DEF Src!LedgerAssumption
<1> HIDE DEF n, m
<1>5. /\ RENT_ATA * n \in Nat /\ RENT_ATA * m \in Nat /\ RENT_ATA * m <= RENT_ATA * n
      /\ m + 1 <= n => RENT_ATA * m + RENT_ATA <= RENT_ATA * n
  BY <1>1, <1>4, RentFact
<1>6. dst_bank.sol[w] >= RENT_ATA * n
  BY DEF n
<1>7. CASE UNCHANGED Dst!vars
  <2>1. dst_bank'.sol[w] = dst_bank.sol[w]
    BY <1>7 DEF Dst!vars
  <2>2. dst_bank'.sol[w] >= RENT_ATA * m
    BY <1>3, <1>5, <1>6, <2>1
  <2> QED BY <2>2 DEF m
<1>8. CASE Dst!CreatorsPay
  <2>1. \/ Dst!SolGain(w) >= 0
        \/ \E d \in DstKeys : Dst!WithdrawalCosts(d, w)
    BY <1>2, <1>8 DEF Dst!CreatorsPay
  <2>2. CASE Dst!SolGain(w) >= 0
    <3>1. dst_bank'.sol[w] >= RENT_ATA * m
      BY <1>3, <1>5, <1>6, <2>2 DEF Dst!SolGain
    <3> QED BY <3>1 DEF m
  <2>3. ASSUME NEW d \in DstKeys, Dst!WithdrawalCosts(d, w)
        PROVE  dst_bank'.sol[w] >= RENT_ATA * m
    <3> DEFINE a == Dst!RecipientAta(d)
               deposit == dst_escrow[d].safety_deposit
    <3>1. dst_escrow[d].live /\ Dst!SolGain(w) >= deposit - Dst!OpeningCost(a)
      BY <1>2, <2>3 DEF Dst!WithdrawalCosts
    <3>2. a \in OfferedAtas
      BY <3>1 DEF Offered
    <3>3. deposit \in Nat
      BY DEF Dst!TypeOK, Dst!EscrowState, Dst!U64
    <3>4. Dst!OpeningCost(a) = 0 \/ (Dst!OpeningCost(a) = RENT_ATA /\ m + 1 <= n)
      <4>1. CASE dst_bank'.ata[a].live /\ ~dst_bank.ata[a].live
        <5>1. a \in Missing
          BY <3>2, <4>1 DEF Missing
        <5>2. a \notin Missing'
          BY <4>1 DEF Missing
        <5> QED BY <1>1, <4>1, <5>1, <5>2 DEF Dst!OpeningCost
      <4>2. CASE ~(dst_bank'.ata[a].live /\ ~dst_bank.ata[a].live)
        BY <4>2 DEF Dst!OpeningCost
      <4> QED BY <4>1, <4>2
    <3> HIDE DEF a, deposit
    <3>5. dst_bank'.sol[w] - dst_bank.sol[w] >= deposit - Dst!OpeningCost(a)
      BY <3>1 DEF Dst!SolGain
    <3> QED BY <1>3, <1>4, <1>5, <1>6, <3>3, <3>4, <3>5
  <2> QED BY <2>1, <2>2, <2>3 DEF m
<1> QED BY <1>7, <1>8

\* The promises of the destination chain last.
LEMMA NextDstPromises ==
  ASSUME SwapInv, SwapInv', SrcPromises, DstPromises, Dst!TypeOK, Dst!TypeOK', [Next]_vars,
         [Dst!CreatorsPay]_(Dst!vars)
  PROVE  DstPromises'
<1>1. Typed /\ Typed' /\ SecretsInv /\ PairsInv /\ \A k \in SrcKeys : DeployedBefore(k)
  BY DEF SwapInv, SrcPromises
<1>2. ASSUME NEW d \in DstKeys PROVE Offered(d)' /\ Served(d)'
  <2>1. Offered(d) /\ Served(d)
    BY DEF DstPromises
  <2> QED BY <1>1, <2>1, NextOffered, NextServed
<1>3. ASSUME NEW w \in DstWatchers
      PROVE  dst_bank'.sol[w] >= RENT_ATA * Cardinality(Missing')
  BY NextWatcherFunds DEF DstPromises
<1> QED BY <1>2, <1>3 DEF DstPromises

\* What a live source escrow whose secret is out can do at its last call.
LEMMA SrcLastCall ==
  ASSUME SwapInv, SrcPromises, Src!TypeOK, Src!EscrowFunded, Src!NeverStuck,
         NEW k \in SrcKeys, LastCallSrc(k)
  PROVE  SrcWithdrawable(k)
<1> DEFINE tl == src_escrow[k].timelocks
<1>1. /\ Typed /\ src_escrow[k].live /\ now + 1 = Src!StageTime(tl, "SrcCancellation")
      /\ tl \in Src!TimelockWords
  BY DEF SwapInv, LastCallSrc, Typed
<1>2. k \notin late /\ ~Src!EscrowRescuable(k)
  <2>1. tl["SrcCancellation"] <= RESCUE_DELAY
    <3>1. Stamped(tl, k.order)
      BY <1>1 DEF SwapInv, SecretsInv, EscrowAt
    <3>2. Terms[k.order].timelocks["SrcCancellation"] <= RESCUE_DELAY
      BY KeyFact, MakersAssumption
    <3> QED BY <3>1, <3>2 DEF Stamped
  <2>2. /\ tl["SrcCancellation"] \in Nat /\ tl["DeployedAt"] \in Nat
        /\ now \in Nat /\ RESCUE_DELAY \in Nat
    BY <1>1, WordFact, StagesFact, RescueFact, SwapTypesAssumption DEF Typed
  <2>3. now < tl["DeployedAt"] + RESCUE_DELAY
    <3> HIDE DEF tl
    <3> QED BY <1>1, <2>1, <2>2 DEF Src!StageTime
  <2>4. now < Src!RescueStart(tl) /\ Src!RescueStart(tl) \in Nat
    <3> HIDE DEF tl
    <3> QED BY <1>1, <2>3, RescueFact
  <2> QED BY <2>2, <2>4 DEF SrcPromises, Src!EscrowRescuable
<1>3. k.taker \in Users /\ k.order \in Orders /\ Src!Token(k.order) \in Mints
  <2>1. k.taker \in Users /\ k.order \in Orders
    BY SwapTypesAssumption
  <2>2. Terms[k.order] \in Src!TermsSet
    BY <2>1, SwapTypesAssumption
  <2> QED BY <2>1, <2>2 DEF Src!Token, Src!TermsSet
<1>4. src_bank.ata[Src!EscrowAta(k)].live
  BY <1>1, <1>2 DEF Src!EscrowFunded
<1>5. src_bank.ata[Src!AtaOf(k.taker, k.order)].live
  BY <1>3 DEF SrcPromises, Src!AtaOf, Src!Ata
<1>6. Src!WithdrawBank(k, k.taker).ok
  BY <1>1, <1>2, <1>3, <1>5 DEF Src!NeverStuck
<1>7. Src!WithdrawOpen(k, "SrcWithdrawal")
  <2>1. /\ now \in Nat /\ MAX_U32 \in Nat /\ now + 1 <= MAX_U32
    BY <1>1, SwapTypesAssumption DEF Typed, LastCallSrc, Src!StageFits
  <2>2. tl["SrcWithdrawal"] < tl["SrcCancellation"]
    <3>1. Stamped(tl, k.order)
      BY <1>1 DEF SwapInv, SecretsInv, EscrowAt
    <3>2. Terms[k.order].timelocks["SrcWithdrawal"] < Terms[k.order].timelocks["SrcCancellation"]
      BY <1>3, MakersAssumption
    <3> QED BY <3>1, <3>2 DEF Stamped
  <2>3. /\ tl["SrcWithdrawal"] \in Nat /\ tl["SrcCancellation"] \in Nat
        /\ tl["DeployedAt"] \in Nat
    BY <1>1, WordFact, StagesFact
  <2> HIDE DEF tl
  <2>4. /\ Src!StageTime(tl, "SrcWithdrawal") <= now
        /\ Src!StageTime(tl, "SrcWithdrawal") <= MAX_U32
        /\ Src!StageTime(tl, "SrcCancellation") <= MAX_U32
        /\ now < Src!StageTime(tl, "SrcCancellation")
        /\ Src!StageTime(tl, "SrcWithdrawal") \in Nat
    BY <1>1, <2>1, <2>2, <2>3 DEF Src!StageTime
  <2> QED BY <2>1, <2>4 DEF tl, Src!WithdrawOpen, Src!Reached, Src!Before, Src!StageFits
<1> QED BY <1>4, <1>5, <1>6, <1>7 DEF SrcWithdrawable

\* And what a watcher can do for a destination escrow at its last call.
LEMMA DstLastCall ==
  ASSUME SwapInv, DstPromises, Dst!TypeOK, Dst!EscrowFunded, Dst!NeverStuck,
         NEW d \in DstKeys, LastCallDst(d)
  PROVE  \E u \in Users \ {d.creator} : DstWithdrawable(d, u)
<1> DEFINE tl == dst_escrow[d].timelocks
<1>1. /\ Typed /\ dst_escrow[d].live /\ Out(d.hashlock)
      /\ now + 1 = DstTime(d) /\ tl \in Src!TimelockWords
  BY StagesFact DEF SwapInv, LastCallDst, Typed, DstTime
<1>2. /\ now \in Nat /\ MAX_U32 \in Nat /\ now + 1 <= MAX_U32
  BY <1>1, SwapTypesAssumption DEF Typed, DstTime, LastCallDst, Dst!StageFits
<1>3. DstOpen(d)
  BY <1>1, <1>2, TimeFact
<1>4. /\ Offered(d) /\ WL!ResolversOf(DstClient) \cap DstWatchers # {}
      /\ Dst!StageTime(tl, "DstPublicWithdrawal") < DstTime(d)
  BY <1>1, <1>3 DEF DstPromises, Served
<1>5. PICK w : w \in WL!ResolversOf(DstClient) /\ w \in DstWatchers
  BY <1>4
<1>6. w \in Users /\ w # d.creator
  BY <1>5, WatchersAssumption DEF DstWatchers
<1>7. Dst!WithdrawOpen(d, "DstPublicWithdrawal")
  <2>1. Dst!StageTime(tl, "DstPublicWithdrawal") \in Nat
    <3>1. Src!StageTime(tl, "DstPublicWithdrawal") \in Nat
      BY <1>1, WordFact, StagesFact
    <3> QED BY <3>1, StagesFact
  <2>2. /\ Dst!StageTime(tl, "DstPublicWithdrawal") <= now
        /\ Dst!StageTime(tl, "DstPublicWithdrawal") <= MAX_U32
    <3> HIDE DEF tl
    <3> QED BY <1>1, <1>2, <1>4, <2>1
  <2>3. Dst!Before(tl, "DstCancellation", now)
    BY <1>3 DEF DstOpen
  <2> QED BY <2>2, <2>3 DEF Dst!WithdrawOpen, Dst!Reached, Dst!StageFits
<1>8. ~Dst!EscrowRescuable(d)
  <2>1. tl["DstCancellation"] <= RESCUE_DELAY
    BY <1>1, <1>4 DEF Offered
  <2>2. /\ tl["DstCancellation"] \in Nat /\ tl["DeployedAt"] \in Nat /\ RESCUE_DELAY \in Nat
    BY <1>1, WordFact, StagesFact, RescueFact
  <2>3. now < tl["DeployedAt"] + RESCUE_DELAY
    <3>1. DstTime(d) = tl["DeployedAt"] + tl["DstCancellation"]
      BY DEF DstTime, Dst!StageTime
    <3> HIDE DEF tl
    <3> QED BY <1>1, <1>2, <2>1, <2>2, <3>1
  <2>4. now < Dst!RescueStart(tl) /\ Dst!RescueStart(tl) \in Nat
    <3> HIDE DEF tl
    <3> QED BY <1>1, <2>3, RescueFact
  <2> QED BY <1>2, <2>4 DEF Dst!EscrowRescuable
<1>9. dst_bank.ata[Dst!EscrowAta(d)].live
  BY <1>1, <1>8 DEF Dst!EscrowFunded
<1>10. dst_bank.ata[Dst!RecipientAta(d)].live \/ dst_bank.sol[w] >= RENT_ATA
  <2> SUFFICES ASSUME ~dst_bank.ata[Dst!RecipientAta(d)].live PROVE dst_bank.sol[w] >= RENT_ATA
    OBVIOUS
  <2>1. Dst!RecipientAta(d) \in Missing
    BY <1>1, <1>4 DEF Offered, Missing
  <2>2. IsFiniteSet(Missing)
    BY FS_Subset, WatchersAssumption DEF Missing
  <2>3. Cardinality(Missing) \in Nat /\ Cardinality(Missing) >= 1
    BY <2>1, <2>2, FS_CardinalityType, FS_EmptySet
  <2>4. RENT_ATA \in Nat
    BY ProgramsAssumption DEF Src!LedgerAssumption
  <2>5. RENT_ATA * Cardinality(Missing) >= RENT_ATA * 1
    BY <2>3, <2>4, RentFact
  <2>6. dst_bank.sol[w] >= RENT_ATA * Cardinality(Missing)
    BY <1>5 DEF DstPromises
  <2>7. dst_bank.sol[w] \in Nat
    BY <1>6 DEF Dst!TypeOK, Dst!Bank, Dst!Owners
  <2>8. RENT_ATA * Cardinality(Missing) \in Nat
    BY <2>3, <2>4, RentFact
  <2> QED BY <2>4, <2>5, <2>6, <2>7, <2>8
<1>11. Dst!WithdrawBank(d, w, TRUE).ok
  BY <1>1, <1>6, <1>8, <1>10 DEF Dst!NeverStuck
<1>12. DstWithdrawable(d, w)
  BY <1>5, <1>7, <1>9, <1>11 DEF DstWithdrawable
<1> QED BY <1>6, <1>12

\* What is proved of the two programs for every value of their constants, in a swap.
LEMMA SrcProgram ==
  Src!Spec => /\ []Src!TypeOK /\ []Src!EscrowFunded /\ []Src!NeverStuck
              /\ [][Src!CreatorsPay]_(Src!vars)
<1>1. /\ Src!WidthsAssumption /\ Src!TimelocksAssumption /\ Src!LedgerAssumption
      /\ Src!AuctionAssumption /\ Src!EscrowSrcAssumption /\ Src!TermsAssumption
      /\ Src!WealthAssumption
  BY ProgramsAssumption
<1>2. Src!Spec => []Src!TypeOK
  BY <1>1, Src!TypeCorrect
<1>3. Src!Spec => []Src!EscrowFunded
  BY <1>1, Src!EscrowsStayFunded
<1>4. Src!Spec => []Src!NeverStuck
  BY <1>1, Src!NeverStuckInvariant
<1>5. Src!Spec => Src!OnlyCreatorsPay
  BY <1>1, Src!OthersPayNothing
<1> QED BY <1>2, <1>3, <1>4, <1>5 DEF Src!OnlyCreatorsPay

LEMMA DstProgram ==
  Dst!Spec => /\ []Dst!TypeOK /\ []Dst!EscrowFunded /\ []Dst!NeverStuck
              /\ [][Dst!CreatorsPay]_(Dst!vars)
<1>1. /\ Dst!WidthsAssumption /\ Dst!TimelocksAssumption /\ Dst!LedgerAssumption
      /\ Dst!EscrowDstAssumption /\ Dst!WealthAssumption
  BY ProgramsAssumption
<1>2. Dst!Spec => []Dst!TypeOK
  BY <1>1, Dst!TypeCorrect
<1>3. Dst!Spec => []Dst!EscrowFunded
  BY <1>1, Dst!EscrowsStayFunded
<1>4. Dst!Spec => []Dst!NeverStuck
  BY <1>1, Dst!NeverStuckInvariant
<1>5. Dst!Spec => Dst!OnlyCreatorsPay
  BY <1>1, Dst!OthersPayNothing
<1> QED BY <1>2, <1>3, <1>4, <1>5 DEF Dst!OnlyCreatorsPay

\* Whoever profits from a disclosed secret can use it up to the last moment: neither
\* the whitelist, nor a rescue, nor a stranger's transaction, nor a rent stands in the
\* way (withdraw, public_withdraw, rescue_funds_for_escrow).
THEOREM LastCallsAnswered == Spec => []LastCallAnswered
<1>1. /\ SwapInv /\ SwapInv' /\ SrcPromises /\ [Next]_vars /\ [Src!CreatorsPay]_(Src!vars)
      => SrcPromises'
  BY NextSrcPromises DEF SwapInv
<1>2. /\ SwapInv /\ SwapInv' /\ SrcPromises /\ DstPromises /\ Dst!TypeOK /\ Dst!TypeOK'
      /\ [Next]_vars /\ [Dst!CreatorsPay]_(Dst!vars)
      => DstPromises'
  BY NextDstPromises
<1>3. /\ SwapInv /\ SrcPromises /\ DstPromises
      /\ Src!TypeOK /\ Src!EscrowFunded /\ Src!NeverStuck
      /\ Dst!TypeOK /\ Dst!EscrowFunded /\ Dst!NeverStuck
      => LastCallAnswered
  BY SrcLastCall, DstLastCall DEF LastCallAnswered
<1>4. Init => SrcPromises /\ DstPromises
  BY InitPromises
<1>5. Spec => []SrcPromises /\ []DstPromises
  BY <1>1, <1>2, <1>4, SwapInvariant, ProgramsCompose, SrcProgram, DstProgram, PTL DEF Spec
<1> QED BY <1>3, <1>5, SwapInvariant, ProgramsCompose, SrcProgram, DstProgram, PTL

=============================================================================
