------------------------ MODULE EscrowSrcSettleProofs ------------------------
(***************************************************************************)
(* What the steps of EscrowSrc do to the lamports of the program's         *)
(* accounts, and how escrows and orders end, for every value of the        *)
(* constants.                                                              *)
(*                                                                         *)
(* The first part proves PremiumCovered, NothingStranded and NeverStuck.   *)
(* NeverStuck is not inductive.  That the close of an escrow can pay the   *)
(* safety deposit needs the reserve behind every live account (Reserves),  *)
(* and that a native asset can be unwrapped needs its mint to be wrapped   *)
(* SOL, which only "create" checks.                                        *)
(*                                                                         *)
(* The second part proves EscrowSettled, DepositToResolver, OrderSettled,  *)
(* RescueSettled, and that every step of every escrow is a step of         *)
(* HashTimelock.  They are properties of steps, and follow from the        *)
(* invariants: what a step pays out, the bank operators say; that it is    *)
(* enough, the funds and the reserves do.                                  *)
(***************************************************************************)
EXTENDS EscrowSrcProofs, FiniteSetTheorems

\* The addresses of the program's accounts.
Accounts == Orders \cup EscrowKeys

\* They are owners of token accounts, and none of them is a user's.
LEMMA AccountFact ==
  /\ Accounts \subseteq Owners
  /\ \A x \in Accounts : x \notin Users
  /\ \A o \in Orders : o \in Accounts
  /\ \A k \in EscrowKeys : k \in Accounts
  /\ \A u \in Users : u \in Owners /\ u \notin Accounts
BY Disjoint DEF Accounts, Owners

\* The lamports of an order's token account that are not the maker's asset.
PremiumKept(o) == IF Terms[o].asset_is_native THEN order[o].remaining_amount ELSE 0

-----------------------------------------------------------------------------
\* What the bank operators of EscrowSrc do to lamports, and when they succeed.

\* create and create_escrow: the payer's lamports become the reserve of the new
\* account, those of every other account of the program stay.
LEMMA OpenAccountsEffect ==
  ASSUME Sound(bank, Owners), NEW u \in Users, NEW x \in Accounts, NEW rent \in Nat,
         NEW a \in Atas(Owners),
         NEW R, R = InitIfNeededAta(InitAccount(bank, u, x, rent), u, a)
  PROVE  /\ Sound(R, Owners) /\ Extends(bank, R, {a}, Owners)
         /\ R.ok => /\ R.ata[a].live
                    /\ R.sol[x] = bank.sol[x] + rent
                    /\ \A z \in Owners \ {x, u} : R.sol[z] = bank.sol[z]
<1> DEFINE I == InitAccount(bank, u, x, rent)
<1>1. I = MoveLamports(bank, u, x, rent) /\ R = InitIfNeededAta(I, u, a)
  BY DEF InitAccount
<1> HIDE DEF I
<1>2. u \in Owners /\ x \in Owners /\ u # x
  BY AccountFact
<1>3. Sound(I, Owners) /\ Extends(bank, I, {}, Owners)
  BY <1>1, <1>2, MoveLamportsFact
<1>4. I.ok => /\ I.sol[x] = bank.sol[x] + rent
              /\ \A z \in Owners \ {u, x} : I.sol[z] = bank.sol[z]
  BY <1>1, <1>2, MoveLamportsEffect
<1>5. Sound(R, Owners) /\ Extends(I, R, {a}, Owners) /\ (R.ok => R.ata[a].live)
  BY <1>1, <1>2, <1>3, InitIfNeededAtaFact
<1>6. R.ok => I.ok /\ \A z \in Owners \ {u} : R.sol[z] = I.sol[z]
  BY <1>1, <1>2, <1>3, InitIfNeededAtaEffect
<1>7. Extends(bank, R, {a}, Owners)
  BY <1>3, <1>5, ExtendsTransitive
<1> QED BY <1>2, <1>4, <1>5, <1>6, <1>7

\* The deposit of an order takes lamports only from its maker, and adds those of
\* a native asset to the order's token account.
LEMMA DepositOrderEffect ==
  ASSUME NEW o \in Orders, NEW L, Sound(L, Owners), L.ok => L.ata[OrderAta(o)].live,
         NEW R, R = DepositOrder(L, o)
  PROVE  R.ok => /\ \A z \in Owners \ {Terms[o].creator} : R.sol[z] = L.sol[z]
                 /\ R.ata[OrderAta(o)].lamports
                      >= L.ata[OrderAta(o)].lamports
                           + (IF Terms[o].asset_is_native THEN Terms[o].amount ELSE 0)
<1> DEFINE a == OrderAta(o)
           u == Terms[o].creator
           b == AtaOf(u, o)
           n == Terms[o].amount
<1>1. /\ a \in Atas(Owners) /\ b \in Atas(Owners) /\ a # b /\ n \in Nat /\ u \in Owners
  BY OrderFact, Disjoint DEF AtaOf, Ata, Atas
<1>2. R = IF Terms[o].asset_is_native THEN SyncNative(UniTransferToAta(L, u, a, n), a)
          ELSE UniTransferToken(L, b, a, n)
  BY DEF DepositOrder
<1> HIDE DEF a, b, n, u
<1>3. L.ata[a].lamports \in Nat
  BY <1>1, BankParts
<1>4. CASE Terms[o].asset_is_native
  <2> DEFINE T == UniTransferToAta(L, u, a, n)
  <2>1. T = UniTransferToAta(L, u, a, n) /\ R = SyncNative(T, a)
    BY <1>2, <1>4
  <2> HIDE DEF T
  <2>2. Sound(T, Owners)
    BY <1>1, <2>1, UniTransferToAtaFact
  <2>3. T.ok => /\ T.ata[a].lamports = L.ata[a].lamports + n
                /\ \A z \in Owners \ {u} : T.sol[z] = L.sol[z]
    BY <1>1, <2>1, UniTransferToAtaEffect
  <2>4. R.sol = T.sol /\ R.ata[a].lamports = T.ata[a].lamports
    BY <1>1, <2>1, <2>2, SyncNativeEffect
  <2>5. R.ok => T.ok
    BY <1>1, <2>1, <2>2, SyncNativeFact, SMTT(20) DEF Extends
  <2>7. ASSUME R.ok
        PROVE  R.ata[a].lamports >= L.ata[a].lamports + n
    BY <1>1, <1>3, <2>3, <2>4, <2>5, <2>7
  <2> QED BY <1>4, <2>3, <2>4, <2>5, <2>7 DEF a, u, n
<1>5. CASE ~Terms[o].asset_is_native
  <2>1. R = UniTransferToken(L, b, a, n)
    BY <1>2, <1>5
  <2>2. R.sol = L.sol
    BY <1>1, <2>1, UniTransferTokenEffect
  <2>3. R.ok => R.ata[a].lamports = L.ata[a].lamports + TokenLamports(a, n)
    BY <1>1, <2>1, UniTransferTokenEffect
  <2>4. TokenLamports(a, n) \in Nat
    BY <1>1 DEF TokenLamports
  <2>5. R.ok => R.ata[a].lamports >= L.ata[a].lamports + 0
    BY <1>3, <2>3, <2>4
  <2> QED BY <1>5, <2>2, <2>5 DEF a
<1> QED BY <1>4, <1>5

\* The close of an order fails only if its token account is closed or holds
\* tokens that are not wrapped SOL; it leaves nothing at the order's address.
LEMMA CloseOrderEffect ==
  ASSUME NEW o \in Orders, NEW L, Sound(L, Owners), NEW u \in Users,
         NEW R, R = CloseOrder(L, o, u), NEW a, a = OrderAta(o)
  PROVE  /\ R.ok <=> /\ L.ok /\ L.ata[a].live
                     /\ L.ata[a].amount = 0 \/ Token(o) = NATIVE_MINT
         /\ R.ok => /\ R.ata[a] = NoAta /\ R.sol[o] = 0
                    /\ R.sol[u] = L.sol[u] + L.ata[a].lamports + L.sol[o]
                    /\ \A z \in Owners \ {o, u} : R.sol[z] = L.sol[z]
<1> DEFINE C == CloseAta(L, a, u)
<1>1. C = CloseAta(L, a, u) /\ R = CloseAccount(C, o, u)
  BY DEF CloseOrder
<1> HIDE DEF C
<1>2. /\ o \in Owners /\ u \in Owners /\ o # u
      /\ a \in Atas(Owners) /\ a[2] = Token(o)
  BY OrderFact, Disjoint
<1>3. /\ C.ok <=> L.ok /\ L.ata[a].live /\ (L.ata[a].amount = 0 \/ a[2] = NATIVE_MINT)
      /\ C.ok => /\ C.ata[a] = NoAta
                 /\ C.sol[u] = L.sol[u] + L.ata[a].lamports
                 /\ \A z \in Owners \ {u} : C.sol[z] = L.sol[z]
  BY <1>1, <1>2, CloseAtaEffect
<1>4. Sound(C, Owners)
  BY <1>1, <1>2, CloseAtaFact
<1>5. /\ R.ok <=> C.ok
      /\ R.ata = C.ata
      /\ R.ok => /\ R.sol[o] = 0 /\ R.sol[u] = C.sol[u] + C.sol[o]
                 /\ \A z \in Owners \ {o, u} : R.sol[z] = C.sol[z]
  BY <1>1, <1>2, <1>4, CloseAccountEffect
<1>6. R.ok <=> /\ L.ok /\ L.ata[a].live
               /\ L.ata[a].amount = 0 \/ Token(o) = NATIVE_MINT
  BY <1>2, <1>3, <1>5
<1>7. ASSUME R.ok
      PROVE  /\ R.ata[a] = NoAta /\ R.sol[o] = 0
             /\ R.sol[u] = L.sol[u] + L.ata[a].lamports + L.sol[o]
             /\ \A z \in Owners \ {o, u} : R.sol[z] = L.sol[z]
  <2>1. C.ok
    BY <1>5, <1>7
  <2>2. R.ata[a] = NoAta
    BY <1>3, <1>5, <2>1
  <2>3. C.sol[o] = L.sol[o] /\ \A z \in Owners \ {o, u} : C.sol[z] = L.sol[z]
    BY <1>2, <1>3, <2>1
  <2>4. R.sol[u] = L.sol[u] + L.ata[a].lamports + L.sol[o]
    BY <1>3, <1>5, <1>7, <2>1, <2>3
  <2> QED BY <1>5, <1>7, <2>2, <2>3, <2>4
<1> QED BY <1>6, <1>7

\* The maker's refund fails only if one of the two token accounts is closed;
\* after it only a native asset's account holds tokens.
LEMMA RefundTokensEffect ==
  ASSUME NEW o \in Orders, NEW L, Sound(L, Owners), NEW R, R = RefundTokens(L, o),
         NEW a, a = OrderAta(o), NEW b, b = AtaOf(Terms[o].creator, o)
  PROVE  /\ (L.ok /\ L.ata[a].live /\ (Terms[o].asset_is_native \/ L.ata[b].live)) => R.ok
         /\ R.sol = L.sol
         /\ Terms[o].asset_is_native => R = L
         /\ (R.ok /\ ~Terms[o].asset_is_native) =>
              /\ R.ata[a].live = L.ata[a].live
              /\ R.ata[a].amount = 0
              /\ R.ata[a].lamports = L.ata[a].lamports - TokenLamports(a, L.ata[a].amount)
              /\ R.ata[b].amount = L.ata[b].amount + L.ata[a].amount
<1> DEFINE n == L.ata[a].amount
<1>1. a \in Atas(Owners) /\ b \in Atas(Owners) /\ a # b
  BY OrderFact, Disjoint DEF AtaOf, Ata, Atas
<1>2. n \in Nat /\ n <= n /\ n - n = 0
  BY <1>1, BankParts
<1>3. R = IF Terms[o].asset_is_native THEN L ELSE UniTransferToken(L, a, b, n)
  BY DEF RefundTokens
<1>4. L.ata[a].amount = n
  OBVIOUS
<1> HIDE DEF n
<1>5. CASE Terms[o].asset_is_native
  <2>1. R = L
    BY <1>3, <1>5
  <2> QED BY <1>5, <2>1
<1>6. CASE ~Terms[o].asset_is_native
  <2>1. R = UniTransferToken(L, a, b, n)
    BY <1>3, <1>6
  <2>2. /\ R.ok <=> /\ L.ok
                    /\ n = 0 \/ (L.ata[a].live /\ L.ata[b].live /\ n <= L.ata[a].amount)
        /\ R.sol = L.sol
        /\ R.ok => /\ R.ata[a].live = L.ata[a].live
                   /\ R.ata[a].amount = L.ata[a].amount - n
                   /\ R.ata[a].lamports = L.ata[a].lamports - TokenLamports(a, n)
                   /\ R.ata[b].amount = L.ata[b].amount + n
    BY <1>1, <1>2, <2>1, UniTransferTokenEffect
  <2>3. (L.ok /\ L.ata[a].live /\ L.ata[b].live) => R.ok
    BY <1>2, <1>4, <2>2
  <2>4. ASSUME R.ok
        PROVE  /\ R.ata[a].live = L.ata[a].live
               /\ R.ata[a].amount = 0
               /\ R.ata[a].lamports = L.ata[a].lamports - TokenLamports(a, L.ata[a].amount)
               /\ R.ata[b].amount = L.ata[b].amount + L.ata[a].amount
    BY <1>2, <1>4, <2>2, <2>4
  <2> QED BY <1>6, <2>2, <2>3, <2>4
<1> QED BY <1>5, <1>6

\* A withdrawal fails only for want of one of the two token accounts or of the
\* safety deposit; the taker gets the tokens, and all lamports that are none of
\* the tokens' less the deposit.
LEMMA WithdrawBankEffect ==
  ASSUME NEW k \in EscrowKeys, Sound(bank, Owners), NEW u \in Users,
         NEW t, t = k.taker, NEW n, n = Terms[k.order].safety_deposit,
         NEW a, a = EscrowAta(k), NEW b, b = AtaOf(t, k.order),
         NEW rest, rest = bank.sol[k] + (bank.ata[a].lamports - TokenLamports(a, bank.ata[a].amount)),
         NEW R, R = WithdrawBank(k, u)
  PROVE  /\ (bank.ok /\ bank.ata[a].live /\ bank.ata[b].live /\ n <= bank.sol[k]) => R.ok
         /\ R.ok => /\ R.ata[a] = NoAta
                    /\ R.ata[b].live = bank.ata[b].live
                    /\ R.ata[b].amount = bank.ata[b].amount + bank.ata[a].amount
                    /\ \A c \in Atas(Owners) \ {a, b} : R.ata[c] = bank.ata[c]
                    /\ R.sol[k] = 0
                    /\ u = t => R.sol[t] = bank.sol[t] + rest
                    /\ u # t => /\ R.sol[u] = bank.sol[u] + n
                                /\ R.sol[t] = bank.sol[t] + rest - n
                    /\ \A z \in Owners \ {k, t, u} : R.sol[z] = bank.sol[z]
<1>1. R = CloseAccount(PaySafetyDeposit(WithdrawAndCloseTokenAta(bank, a, b, t), k, n, t, u), k, t)
  BY DEF WithdrawBank
<1>2. /\ a \in Atas(Owners) /\ b \in Atas(Owners) /\ a # b /\ a[2] = b[2]
      /\ k \in Owners /\ t \in Owners /\ u \in Owners /\ k # t /\ k # u /\ n \in Nat
  BY EscrowKeyFact, OrderFact, Disjoint DEF AtaOf, EscrowAta, Ata, Atas
<1>3. /\ Sound(bank, Owners)
      /\ rest = bank.sol[k] + (bank.ata[a].lamports - TokenLamports(a, bank.ata[a].amount))
  OBVIOUS
<1> QED BY ONLY <1>1, <1>2, <1>3, TransferAndCloseEffect, SMTT(20)

\* A cancellation of tokens: the same, but the tokens go to the maker.
LEMMA CancelTokensEffect ==
  ASSUME NEW k \in EscrowKeys, Sound(bank, Owners), ~Terms[k.order].asset_is_native,
         NEW u \in Users, NEW t, t = k.taker, NEW n, n = Terms[k.order].safety_deposit,
         NEW a, a = EscrowAta(k), NEW b, b = AtaOf(Maker(k), k.order),
         NEW rest, rest = bank.sol[k] + (bank.ata[a].lamports - TokenLamports(a, bank.ata[a].amount)),
         NEW R, R = CancelBank(k, u)
  PROVE  /\ (bank.ok /\ bank.ata[a].live /\ bank.ata[b].live /\ n <= bank.sol[k]) => R.ok
         /\ R.ok => /\ R.ata[a] = NoAta
                    /\ R.ata[b].live = bank.ata[b].live
                    /\ R.ata[b].amount = bank.ata[b].amount + bank.ata[a].amount
                    /\ \A c \in Atas(Owners) \ {a, b} : R.ata[c] = bank.ata[c]
                    /\ R.sol[k] = 0
                    /\ u = t => R.sol[t] = bank.sol[t] + rest
                    /\ u # t => /\ R.sol[u] = bank.sol[u] + n
                                /\ R.sol[t] = bank.sol[t] + rest - n
                    /\ \A z \in Owners \ {k, t, u} : R.sol[z] = bank.sol[z]
<1>1. R = CloseAccount(PaySafetyDeposit(WithdrawAndCloseTokenAta(bank, a, b, t), k, n, t, u), k, t)
  BY DEF CancelBank, ProcessPayout, EscrowAta, AtaOf, Token, Maker
<1>2. /\ a \in Atas(Owners) /\ b \in Atas(Owners) /\ a # b /\ a[2] = b[2]
      /\ k \in Owners /\ t \in Owners /\ u \in Owners /\ k # t /\ k # u /\ n \in Nat
  BY EscrowKeyFact, OrderFact, Disjoint DEF AtaOf, EscrowAta, Ata, Atas
<1>3. /\ Sound(bank, Owners)
      /\ rest = bank.sol[k] + (bank.ata[a].lamports - TokenLamports(a, bank.ata[a].amount))
  OBVIOUS
<1> QED BY ONLY <1>1, <1>2, <1>3, TransferAndCloseEffect, SMTT(20)

\* A cancellation of a native asset: it fails only if the escrow's token account is
\* closed or cannot be unwrapped, or the lamports do not suffice.  The maker gets
\* the amount, the taker and the caller the rest.
LEMMA CancelNativeEffect ==
  ASSUME NEW k \in EscrowKeys, Sound(bank, Owners), Terms[k.order].asset_is_native,
         NEW u \in Users, NEW m, m = Maker(k), NEW t, t = k.taker,
         NEW d, d = k.amount, NEW n, n = Terms[k.order].safety_deposit, NEW a, a = EscrowAta(k),
         NEW rest, rest = bank.sol[k] + bank.ata[a].lamports - d,
         NEW R, R = CancelBank(k, u)
  PROVE  /\ (/\ bank.ok /\ bank.ata[a].live /\ Token(k.order) = NATIVE_MINT
             /\ rest >= n) => R.ok
         /\ R.ok => /\ R.ata[a] = NoAta
                    /\ \A b \in Atas(Owners) \ {a} : R.ata[b] = bank.ata[b]
                    /\ R.sol[k] = 0
                    /\ R.sol[m] >= bank.sol[m] + d
                    /\ u = t => R.sol[t] >= bank.sol[t] + rest
                    /\ u # t => /\ R.sol[u] >= bank.sol[u] + n
                                /\ R.sol[t] >= bank.sol[t] + rest - n
                    /\ \A z \in Owners \ {k, t, u, m} : R.sol[z] = bank.sol[z]
<1>1. R = CloseAccount(PaySafetyDeposit(MoveLamports(CloseAta(bank, a, k), k, m, d), k, n, t, u), k, t)
  BY DEF CancelBank, ProcessPayout, EscrowAta, Token, Maker
<1>2. /\ a \in Atas(Owners) /\ a[2] = Token(k.order)
      /\ k \in Owners /\ m \in Owners /\ t \in Owners /\ u \in Owners
      /\ k # m /\ k # t /\ k # u /\ n \in Nat /\ d \in Nat
  BY EscrowKeyFact, OrderFact, Disjoint DEF EscrowAta, Ata, Atas
<1>3. Sound(bank, Owners) /\ rest = bank.sol[k] + bank.ata[a].lamports - d
  OBVIOUS
<1>4. (/\ bank.ok /\ bank.ata[a].live /\ (bank.ata[a].amount = 0 \/ a[2] = NATIVE_MINT)
       /\ rest >= n) => R.ok
  BY ONLY <1>1, <1>2, <1>3, UnwrapAndCloseEffect
<1>5. R.ok => /\ R.ata[a] = NoAta
              /\ \A b \in Atas(Owners) \ {a} : R.ata[b] = bank.ata[b]
              /\ R.sol[k] = 0
              /\ R.sol[m] >= bank.sol[m] + d
              /\ u = t => R.sol[t] >= bank.sol[t] + rest
              /\ u # t => /\ R.sol[u] >= bank.sol[u] + n
                          /\ R.sol[t] >= bank.sol[t] + rest - n
              /\ \A z \in Owners \ {k, t, u, m} : R.sol[z] = bank.sol[z]
  BY ONLY <1>1, <1>2, <1>3, UnwrapAndCloseEffect, SMTT(60)
<1> QED BY ONLY <1>2, <1>4, <1>5

\* cancel_order fails only if one of the two token accounts is closed, or a native
\* asset cannot be unwrapped.  The maker gets all the lamports that are not tokens'
\* and the tokens that are not lamports.
LEMMA CancelOrderBankEffect ==
  ASSUME NEW o \in Orders, Sound(bank, Owners),
         NEW u, u = Terms[o].creator, NEW a, a = OrderAta(o), NEW b, b = AtaOf(u, o),
         NEW T, T = RefundTokens(bank, o), NEW R, R = CloseOrder(T, o, u)
  PROVE  /\ (/\ bank.ok /\ bank.ata[a].live /\ MakerCanBeRefunded(o)
             /\ Terms[o].asset_is_native => Token(o) = NATIVE_MINT) => R.ok
         /\ R.ok => /\ R.ata[a] = NoAta
                    /\ R.sol[o] = 0
                    /\ R.sol[u] = bank.sol[u] + T.ata[a].lamports + bank.sol[o]
                    /\ \A z \in Owners \ {o, u} : R.sol[z] = bank.sol[z]
                    /\ R.ata[b] = T.ata[b]
<1>1. /\ u \in Users /\ u \in Owners /\ o \in Owners
      /\ a \in Atas(Owners) /\ b \in Atas(Owners) /\ a # b
  BY OrderFact, Disjoint DEF AtaOf, Ata, Atas
<1>2. Sound(T, Owners) /\ Extends(bank, T, {a, b}, Owners)
  BY RefundTokensFact
<1>3. /\ R.ok <=> /\ T.ok /\ T.ata[a].live
                  /\ T.ata[a].amount = 0 \/ Token(o) = NATIVE_MINT
      /\ R.ok => /\ R.ata[a] = NoAta /\ R.sol[o] = 0
                 /\ R.sol[u] = T.sol[u] + T.ata[a].lamports + T.sol[o]
                 /\ \A z \in Owners \ {o, u} : R.sol[z] = T.sol[z]
  BY ONLY <1>1, <1>2, CloseOrderEffect, o \in Orders, R = CloseOrder(T, o, u), a = OrderAta(o)
<1>4. Extends(T, R, {a}, Owners)
  BY <1>1, <1>2, CloseOrderFact
<1>5. /\ (bank.ok /\ bank.ata[a].live /\ (Terms[o].asset_is_native \/ bank.ata[b].live)) => T.ok
      /\ T.sol = bank.sol
      /\ Terms[o].asset_is_native => T = bank
      /\ (T.ok /\ ~Terms[o].asset_is_native) =>
           T.ata[a].live = bank.ata[a].live /\ T.ata[a].amount = 0
  BY RefundTokensEffect
<1>6. ASSUME bank.ok, bank.ata[a].live, MakerCanBeRefunded(o),
             Terms[o].asset_is_native => Token(o) = NATIVE_MINT
      PROVE  R.ok
  <2>1. Terms[o].asset_is_native \/ bank.ata[b].live
    BY <1>6 DEF MakerCanBeRefunded
  <2>2. T.ok
    BY <1>5, <1>6, <2>1
  <2>3. CASE Terms[o].asset_is_native
    BY <1>3, <1>5, <1>6, <2>2, <2>3
  <2>4. CASE ~Terms[o].asset_is_native
    BY <1>3, <1>5, <1>6, <2>2, <2>4
  <2> QED BY <2>3, <2>4
<1>7. R.ata[b] = T.ata[b]
  BY <1>1, <1>4 DEF Extends
<1> QED BY <1>3, <1>5, <1>6, <1>7

\* cancel_order_by_resolver: the same, but the maker pays the premium, or nothing
\* if it cancels itself.
LEMMA ResolverCancelBankEffect ==
  ASSUME NEW o \in Orders, Sound(bank, Owners), now \in Nat, NEW r \in Users,
         NEW limit \in RewardLimits,
         NEW u, u = Terms[o].creator, NEW a, a = OrderAta(o), NEW b, b = AtaOf(u, o),
         NEW T, T = RefundTokens(bank, o), NEW R, R = ResolverCancelBank(o, r, limit)
  PROVE  R.ok => /\ T.ok
                 /\ R.ata[a] = NoAta
                 /\ R.sol[o] = 0
                 /\ R.sol[u] >= bank.sol[u] + T.ata[a].lamports + bank.sol[o] - Premium(o)
                 /\ \A z \in Owners \ {o, u, r} : R.sol[z] = bank.sol[z]
                 /\ R.ata[b] = T.ata[b]
<1> DEFINE lamports == T.ata[a].lamports
           reward == ResolverReward(o, limit)
           C == CloseAta(T, a, r)
           U == UniTransferNative(C, r, u, lamports - reward)
           M == Attempt(C, reward <= lamports, U)
<1>1. /\ u \in Owners /\ o \in Owners /\ r \in Owners /\ o # u /\ o # r
      /\ a \in Atas(Owners) /\ b \in Atas(Owners) /\ a # b
  BY OrderFact, Disjoint DEF AtaOf, Ata, Atas
<1>2. /\ C = CloseAta(T, a, r)
      /\ U = UniTransferNative(C, r, u, lamports - reward)
      /\ M = Attempt(C, reward <= lamports, U)
      /\ R = CloseAccount(M, o, u)
  BY DEF ResolverCancelBank
<1> HIDE DEF C, U, M
<1>3. Premium(o) \in Nat /\ reward \in Nat /\ reward <= Premium(o)
  BY PremiumFact, EscrowSrcAssumption DEF ResolverReward
<1>4. Sound(T, Owners) /\ T.sol = bank.sol
  <2>1. Sound(T, Owners) /\ Extends(bank, T, {OrderAta(o), AtaOf(Terms[o].creator, o)}, Owners)
    BY RefundTokensFact
  <2>2. T.sol = bank.sol
    BY RefundTokensEffect
  <2> QED BY <2>1, <2>2
<1>5. lamports \in Nat /\ \A z \in Owners : bank.sol[z] \in Nat
  <2>1. \A z \in Owners : bank.sol[z] \in Nat
    BY BankParts
  <2>2. lamports \in Nat
    BY <1>1, <1>4, BankParts
  <2> QED BY <2>1, <2>2
<1>6. /\ Sound(C, Owners) /\ Extends(T, C, {a}, Owners)
      /\ C.ok => /\ T.ok /\ C.ata[a] = NoAta
                 /\ C.sol[r] = T.sol[r] + lamports
                 /\ \A z \in Owners \ {r} : C.sol[z] = T.sol[z]
  <2>1. Sound(C, Owners) /\ Extends(T, C, {a}, Owners)
    BY <1>1, <1>2, <1>4, CloseAtaFact
  <2>2. /\ C.ok <=> T.ok /\ T.ata[a].live /\ (T.ata[a].amount = 0 \/ a[2] = NATIVE_MINT)
        /\ C.ok => /\ C.ata[a] = NoAta
                   /\ C.sol[r] = T.sol[r] + T.ata[a].lamports
                   /\ \A z \in Owners \ {r} : C.sol[z] = T.sol[z]
    BY <1>1, <1>2, <1>4, CloseAtaEffect
  <2> QED BY <2>1, <2>2
<1> HIDE DEF reward, lamports
<1>7. M.ok => C.ok /\ reward <= lamports /\ M = U
  <2>1. CASE C.ok /\ reward <= lamports
    BY <1>2, <2>1 DEF Attempt
  <2>2. CASE ~(C.ok /\ reward <= lamports)
    <3>1. M = [C EXCEPT !.ok = FALSE]
      BY <1>2, <2>2 DEF Attempt
    <3>2. C \in Bank(Owners)
      BY <1>6 DEF Sound
    <3> QED BY <3>1, <3>2, Fail
  <2> QED BY <2>1, <2>2
<1>8. ASSUME M.ok
      PROVE  /\ Sound(U, Owners) /\ U.ata = C.ata
             /\ r = u => U.sol[u] = C.sol[u]
             /\ r # u => U.sol[u] = C.sol[u] + (lamports - reward)
             /\ \A z \in Owners \ {r, u} : U.sol[z] = C.sol[z]
  <2>0. M = U /\ reward <= lamports
    BY <1>7, <1>8
  <2>1. lamports - reward \in Nat /\ U.ok
    BY <1>3, <1>5, <1>8, <2>0
  <2>2. Sound(U, Owners)
    BY <1>1, <1>2, <1>6, <2>1, UniTransferNativeFact
  <2>3. /\ U.ata = C.ata
        /\ (U.ok /\ r # u) => U.sol[u] = C.sol[u] + (lamports - reward)
        /\ (U.ok /\ r = u) => U.sol[r] = C.sol[r]
        /\ U.ok => \A z \in Owners \ {r, u} : U.sol[z] = C.sol[z]
    BY <1>1, <1>2, <1>6, <2>1, UniTransferNativeEffect
  <2> QED BY <2>1, <2>2, <2>3
<1>9. Sound(M, Owners)
  <2>1. CASE M.ok
    BY <1>7, <1>8, <2>1
  <2>2. CASE ~M.ok
    <3>1. M = U \/ M = [C EXCEPT !.ok = FALSE]
      BY <1>2 DEF Attempt
    <3>2. Sound([C EXCEPT !.ok = FALSE], Owners)
      BY <1>6, Fail DEF Sound, Backed
    <3>3. M # [C EXCEPT !.ok = FALSE] => C.ok /\ reward <= lamports
      BY <1>2 DEF Attempt
    <3>4. (C.ok /\ reward <= lamports) => Sound(U, Owners)
      <4>1. reward <= lamports => lamports - reward \in Nat
        BY <1>3, <1>5
      <4> QED BY <1>1, <1>2, <1>6, <4>1, UniTransferNativeFact
    <3> QED BY <3>1, <3>2, <3>3, <3>4
  <2> QED BY <2>1, <2>2
<1>10. /\ R.ok <=> M.ok
       /\ R.ata = M.ata
       /\ R.ok => /\ R.sol[o] = 0 /\ R.sol[u] = M.sol[u] + M.sol[o]
                  /\ \A z \in Owners \ {o, u} : R.sol[z] = M.sol[z]
  BY <1>1, <1>2, <1>9, CloseAccountEffect
<1>11. ASSUME R.ok
       PROVE  /\ T.ok
              /\ R.ata[a] = NoAta
              /\ R.sol[o] = 0
              /\ R.sol[u] >= bank.sol[u] + lamports + bank.sol[o] - Premium(o)
              /\ \A z \in Owners \ {o, u, r} : R.sol[z] = bank.sol[z]
              /\ R.ata[b] = T.ata[b]
  <2>1. C.ok /\ M = U /\ R.ata = C.ata /\ R.sol[o] = 0
    BY <1>7, <1>8, <1>10, <1>11
  <2>2. \A z \in Owners \ {r, u} : M.sol[z] = bank.sol[z]
    BY <1>4, <1>6, <1>8, <1>10, <1>11, <2>1
  <2>3. M.sol[u] >= bank.sol[u] + lamports - reward
    <3>1. CASE r = u
      BY <1>1, <1>3, <1>4, <1>5, <1>6, <1>8, <1>10, <1>11, <2>1, <3>1
    <3>2. CASE r # u
      BY <1>1, <1>3, <1>4, <1>5, <1>6, <1>8, <1>10, <1>11, <2>1, <3>2
    <3> QED BY <3>1, <3>2
  <2>4. M.sol[o] = bank.sol[o] /\ M.sol[u] \in Nat
    BY <1>1, <1>9, <2>2, BankParts
  <2>5. R.sol[u] >= bank.sol[u] + lamports + bank.sol[o] - Premium(o)
    BY <1>1, <1>3, <1>5, <1>10, <1>11, <2>3, <2>4
  <2>6. \A z \in Owners \ {o, u, r} : R.sol[z] = bank.sol[z]
    BY <1>10, <1>11, <2>2
  <2>7. T.ok /\ R.ata[a] = NoAta /\ R.ata[b] = T.ata[b]
    BY <1>1, <1>6, <2>1 DEF Extends
  <2> QED BY <2>1, <2>5, <2>6, <2>7
<1> QED BY <1>11 DEF lamports

-----------------------------------------------------------------------------
\* What each action does to the lamports of the program's accounts.

SolKept(S) == \A x \in Accounts \ S : bank'.sol[x] = bank.sol[x]

\* What create checks of the terms besides the premium.
TermsChecked(o) ==
  /\ Terms[o].safety_deposit <= RENT_ESCROW
  /\ Terms[o].asset_is_native => Token(o) = NATIVE_MINT

\* create puts the reserve in the order's account, and at least the premium in its
\* token account, next to a native asset.
LEMMA CreateEffect ==
  ASSUME TypeInv, NEW o \in Orders, Create(o)
  PROVE  /\ SolKept({o}) /\ bank'.sol[o] = bank.sol[o] + RENT_ORDER
         /\ TermsChecked(o)
         /\ bank'.ata[OrderAta(o)].lamports
              >= Terms[o].max_cancellation_premium
                   + (IF Terms[o].asset_is_native THEN Terms[o].amount ELSE 0)
<1> DEFINE u == Terms[o].creator
           a == OrderAta(o)
           A == CreateAccounts(o)
           D == DepositOrder(A, o)
<1>1. /\ Commit(D) /\ CreateAllowed(o, A)
      /\ A = InitIfNeededAta(InitAccount(bank, u, o, RENT_ORDER), u, a)
      /\ D = DepositOrder(A, o)
  BY DEF Create, CreateAccounts
<1>2. /\ u \in Users /\ u \in Owners /\ o \in Accounts /\ a \in Atas(Owners) /\ RENT_ORDER \in Nat
      /\ Terms[o].amount \in Nat /\ Terms[o].max_cancellation_premium \in Nat
  <2>1. Terms[o].max_cancellation_premium \in Nat
    BY TermsAssumption, WidthsAssumption DEF TermsSet, U64
  <2> QED BY <2>1, OrderFact, AccountFact, EscrowSrcAssumption
<1> HIDE DEF A, D
<1>3. /\ Sound(A, Owners) /\ Extends(bank, A, {a}, Owners)
      /\ A.ok => /\ A.ata[a].live
                 /\ A.sol[o] = bank.sol[o] + RENT_ORDER
                 /\ \A z \in Owners \ {o, u} : A.sol[z] = bank.sol[z]
  <2>1. Sound(bank, Owners)
    BY SoundFact
  <2>2. u \in Users /\ o \in Accounts /\ a \in Atas(Owners) /\ RENT_ORDER \in Nat
    BY <1>2
  <2>3. A = InitIfNeededAta(InitAccount(bank, u, o, RENT_ORDER), u, a)
    BY <1>1
  <2> HIDE DEF u, a
  <2> QED BY ONLY <2>1, <2>2, <2>3, OpenAccountsEffect
<1>4. D.ok => /\ \A z \in Owners \ {Terms[o].creator} : D.sol[z] = A.sol[z]
              /\ D.ata[OrderAta(o)].lamports
                   >= A.ata[OrderAta(o)].lamports
                        + (IF Terms[o].asset_is_native THEN Terms[o].amount ELSE 0)
  BY <1>1, <1>3, DepositOrderEffect
<1>5. D.ok /\ bank' = D /\ A.ok
  <2>1. Extends(A, D, {OrderAta(o), AtaOf(Terms[o].creator, o)}, Owners)
    BY <1>1, <1>3, DepositOrderFact
  <2> QED BY <1>1, <2>1 DEF Commit, Extends
<1>6. TermsChecked(o) /\ A.ata[OrderAta(o)].lamports >= Terms[o].max_cancellation_premium
  BY <1>1 DEF CreateAllowed, TermsChecked, Token
<1>7. \A x \in Accounts : x \in Owners /\ x # u
  BY <1>2, AccountFact
<1>8. SolKept({o}) /\ bank'.sol[o] = bank.sol[o] + RENT_ORDER
  BY <1>2, <1>3, <1>4, <1>5, <1>7 DEF SolKept
<1>9. A.ata[a].lamports \in Nat /\ D.ata[a].lamports \in Nat
  <2>1. Sound(D, Owners)
    BY <1>1, <1>3, DepositOrderFact
  <2> QED BY <1>2, <1>3, <2>1, BankParts
<1>10. bank'.ata[OrderAta(o)].lamports
         >= Terms[o].max_cancellation_premium
              + (IF Terms[o].asset_is_native THEN Terms[o].amount ELSE 0)
  <2> DEFINE extra == IF Terms[o].asset_is_native THEN Terms[o].amount ELSE 0
  <2>1. extra \in Nat
    BY <1>2
  <2>2. bank'.ata[OrderAta(o)].lamports >= A.ata[OrderAta(o)].lamports + extra
    BY <1>4, <1>5
  <2> HIDE DEF extra
  <2>3. bank'.ata[OrderAta(o)].lamports >= Terms[o].max_cancellation_premium + extra
    BY <1>2, <1>5, <1>6, <1>9, <2>1, <2>2
  <2> QED BY <2>3 DEF extra
<1> QED BY <1>6, <1>8, <1>10

\* create_escrow puts the reserve in the escrow's account.  The last fill empties
\* the order's accounts; any other takes from them what the tokens are.
LEMMA CreateEscrowEffect ==
  ASSUME TypeInv, NEW k \in EscrowKeys, NEW proof \in Proofs(k.order), CreateEscrow(k, proof),
         NEW o, o = k.order, NEW n, n = AmountToTransfer(o, k.amount), NEW a, a = OrderAta(o)
  PROVE  /\ SolKept({o, k}) /\ bank'.sol[k] = bank.sol[k] + RENT_ESCROW
         /\ LastFill(o, k.amount) => bank'.sol[o] = 0 /\ bank'.ata[a] = NoAta
         /\ ~LastFill(o, k.amount) =>
              /\ bank'.sol[o] = bank.sol[o]
              /\ bank'.ata[a].lamports = bank.ata[a].lamports - TokenLamports(a, n)
<1> DEFINE t == k.taker
           m == Maker(k)
           b == EscrowAta(k)
           A == FillAccounts(k)
           T == UniTransferToken(A, a, b, n)
           C == CloseOrder(T, o, m)
<1>0. Commit(IF LastFill(o, k.amount) THEN C ELSE T)
  BY DEF CreateEscrow, FillBank, FillAccounts
<1>1. /\ A = InitIfNeededAta(InitAccount(bank, t, k, RENT_ESCROW), t, b)
      /\ T = UniTransferToken(A, a, b, n)
      /\ C = CloseOrder(T, o, m)
  BY DEF FillAccounts
<1>2. /\ t \in Users /\ m \in Users /\ t \in Owners /\ m \in Owners
      /\ k \in Accounts /\ o \in Accounts /\ k \in Owners /\ o \in Orders /\ o \in Owners /\ k # o
      /\ k # t /\ k # m /\ o # t /\ o # m
      /\ a \in Atas(Owners) /\ b \in Atas(Owners) /\ a # b /\ RENT_ESCROW \in Nat
  BY EscrowKeyFact, OrderFact, AccountFact, Disjoint, ProgramAtas, EscrowSrcAssumption
<1>3. Sound(bank, Owners) /\ n \in Nat
  <2>1. Sound(bank, Owners) /\ k.amount \in Nat
    BY SoundFact, EscrowKeyFact
  <2> QED BY <1>2, <2>1, BankParts DEF AmountToTransfer
<1> HIDE DEF A, T, C, b, t, m
<1>4. /\ Sound(A, Owners) /\ Extends(bank, A, {b}, Owners)
      /\ A.ok => /\ A.ata[b].live
                 /\ A.sol[k] = bank.sol[k] + RENT_ESCROW
                 /\ \A z \in Owners \ {k, t} : A.sol[z] = bank.sol[z]
  BY ONLY <1>1, <1>2, <1>3, OpenAccountsEffect
<1>5. /\ T.ok <=> /\ A.ok
                  /\ n = 0 \/ (A.ata[a].live /\ A.ata[b].live /\ n <= A.ata[a].amount)
      /\ T.sol = A.sol
      /\ T.ok => /\ T.ata[a].live = A.ata[a].live
                 /\ T.ata[a].amount = A.ata[a].amount - n
                 /\ T.ata[a].lamports = A.ata[a].lamports - TokenLamports(a, n)
                 /\ T.ata[b].live = A.ata[b].live
                 /\ T.ata[b].amount = A.ata[b].amount + n
                 /\ T.ata[b].lamports = A.ata[b].lamports + TokenLamports(b, n)
  BY <1>1, <1>2, <1>3, <1>4, UniTransferTokenEffect
<1>6. Sound(T, Owners)
  BY <1>1, <1>2, <1>3, <1>4, UniTransferTokenFact
<1>7. T.ok => /\ T.sol[k] = bank.sol[k] + RENT_ESCROW
              /\ \A z \in Owners \ {k, t} : T.sol[z] = bank.sol[z]
              /\ T.ata[a].lamports = bank.ata[a].lamports - TokenLamports(a, n)
  <2>1. T.ok => A.ok /\ A.ata[a] = bank.ata[a]
    BY <1>2, <1>4, <1>5 DEF Extends
  <2>2. T.ok => \A z \in Owners \ {k, t} : T.sol[z] = bank.sol[z]
    BY <1>4, <1>5, <2>1
  <2> QED BY <1>4, <1>5, <2>1, <2>2
<1>8. \A x \in Accounts : x \in Owners /\ x # t /\ x # m
  BY <1>2, AccountFact
<1>9. CASE LastFill(o, k.amount)
  <2>1. C.ok /\ bank' = C
    BY <1>0, <1>9 DEF Commit
  <2>2. /\ C.ok <=> /\ T.ok /\ T.ata[a].live
                    /\ T.ata[a].amount = 0 \/ Token(o) = NATIVE_MINT
        /\ C.ok => /\ C.ata[a] = NoAta /\ C.sol[o] = 0
                   /\ C.sol[m] = T.sol[m] + T.ata[a].lamports + T.sol[o]
                   /\ \A z \in Owners \ {o, m} : C.sol[z] = T.sol[z]
    BY <1>1, <1>2, <1>6, CloseOrderEffect
  <2>3. /\ bank'.sol[o] = 0 /\ bank'.ata[a] = NoAta
        /\ bank'.sol[k] = bank.sol[k] + RENT_ESCROW
    BY <1>2, <1>7, <2>1, <2>2
  <2>4. SolKept({o, k})
    BY <1>7, <1>8, <2>1, <2>2 DEF SolKept
  <2> QED BY <1>9, <2>3, <2>4
<1>10. CASE ~LastFill(o, k.amount)
  <2>1. T.ok /\ bank' = T
    BY <1>0, <1>10 DEF Commit
  <2> QED BY <1>2, <1>7, <1>8, <1>10, <2>1 DEF SolKept
<1> QED BY <1>9, <1>10

\* The end of an escrow leaves nothing at its address (withdraw, public_withdraw).
LEMMA WithdrawEffect ==
  ASSUME TypeInv, NEW k \in EscrowKeys, NEW s, NEW u \in Users, WithdrawWith(k, s, u)
  PROVE  SolKept({k}) /\ bank'.sol[k] = 0 /\ bank'.ata[EscrowAta(k)] = NoAta
<1> DEFINE R == WithdrawBank(k, u)
           a == EscrowAta(k)
           b == AtaOf(k.taker, k.order)
           rest == bank.sol[k] + (bank.ata[a].lamports - TokenLamports(a, bank.ata[a].amount))
<1>1. Sound(bank, Owners) /\ R = WithdrawBank(k, u) /\ R.ok /\ bank' = R
  BY SoundFact DEF WithdrawWith, Commit
<1> HIDE DEF R
<1>2. R.ok => /\ R.ata[a] = NoAta
              /\ R.ata[b].live = bank.ata[b].live
              /\ R.ata[b].amount = bank.ata[b].amount + bank.ata[a].amount
              /\ \A c \in Atas(Owners) \ {a, b} : R.ata[c] = bank.ata[c]
              /\ R.sol[k] = 0
              /\ u = k.taker => R.sol[k.taker] = bank.sol[k.taker] + rest
              /\ u # k.taker =>
                   /\ R.sol[u] = bank.sol[u] + Terms[k.order].safety_deposit
                   /\ R.sol[k.taker] = bank.sol[k.taker] + rest - Terms[k.order].safety_deposit
              /\ \A z \in Owners \ {k, k.taker, u} : R.sol[z] = bank.sol[z]
  BY <1>1, WithdrawBankEffect
<1> HIDE DEF a, b, rest
<1>3. \A x \in Accounts : x \in Owners /\ x # k.taker /\ x # u
  BY EscrowKeyFact, AccountFact
<1> QED BY <1>1, <1>2, <1>3 DEF SolKept, a

\* The same for cancel_escrow and public_cancel_escrow.
LEMMA CancelEffect ==
  ASSUME TypeInv, NEW k \in EscrowKeys, NEW u \in Users, CancelTo(k, u)
  PROVE  SolKept({k}) /\ bank'.sol[k] = 0 /\ bank'.ata[EscrowAta(k)] = NoAta
<1> DEFINE R == CancelBank(k, u)
<1>1. Sound(bank, Owners) /\ R = CancelBank(k, u) /\ R.ok /\ bank' = R
  BY SoundFact DEF CancelTo, Commit
<1> HIDE DEF R
<1>2. /\ R.ata[EscrowAta(k)] = NoAta /\ R.sol[k] = 0
      /\ \A z \in Owners \ {k, k.taker, u, Maker(k)} : R.sol[z] = bank.sol[z]
  <2>1. CASE Terms[k.order].asset_is_native
    BY <1>1, <2>1, CancelNativeEffect
  <2>2. CASE ~Terms[k.order].asset_is_native
    BY <1>1, <2>2, CancelTokensEffect
  <2> QED BY <2>1, <2>2
<1>3. \A x \in Accounts : x \in Owners /\ x # k.taker /\ x # u /\ x # Maker(k)
  BY EscrowKeyFact, AccountFact
<1> QED BY <1>1, <1>2, <1>3 DEF SolKept

\* The same for an order and cancel_order.
LEMMA CancelOrderEffect ==
  ASSUME TypeInv, NEW o \in Orders, CancelOrder(o)
  PROVE  SolKept({o}) /\ bank'.sol[o] = 0 /\ bank'.ata[OrderAta(o)] = NoAta
<1> DEFINE T == RefundTokens(bank, o)
           R == CloseOrder(T, o, Terms[o].creator)
<1>1. /\ Sound(bank, Owners) /\ T = RefundTokens(bank, o)
      /\ R = CloseOrder(T, o, Terms[o].creator) /\ R.ok /\ bank' = R
  BY SoundFact DEF CancelOrder, Commit
<1> HIDE DEF R, T
<1>2. /\ R.ata[OrderAta(o)] = NoAta /\ R.sol[o] = 0
      /\ \A z \in Owners \ {o, Terms[o].creator} : R.sol[z] = bank.sol[z]
  BY <1>1, CancelOrderBankEffect
<1>3. \A x \in Accounts : x \in Owners /\ x # Terms[o].creator
  BY OrderFact, AccountFact
<1> QED BY <1>1, <1>2, <1>3 DEF SolKept

\* The same for cancel_order_by_resolver.
LEMMA ResolverCancelEffect ==
  ASSUME TypeInv, NEW o \in Orders, NEW r \in Users, NEW limit \in RewardLimits,
         CancelOrderByResolver(o, r, limit)
  PROVE  SolKept({o}) /\ bank'.sol[o] = 0 /\ bank'.ata[OrderAta(o)] = NoAta
<1> DEFINE R == ResolverCancelBank(o, r, limit)
<1>1. /\ Sound(bank, Owners) /\ now \in Nat
      /\ R = ResolverCancelBank(o, r, limit) /\ R.ok /\ bank' = R
  BY SoundFact DEF CancelOrderByResolver, Commit
<1> HIDE DEF R
<1>2. /\ R.ata[OrderAta(o)] = NoAta /\ R.sol[o] = 0
      /\ \A z \in Owners \ {o, Terms[o].creator, r} : R.sol[z] = bank.sol[z]
  BY <1>1, ResolverCancelBankEffect
<1>3. \A x \in Accounts : x \in Owners /\ x # Terms[o].creator /\ x # r
  BY OrderFact, AccountFact
<1> QED BY <1>1, <1>2, <1>3 DEF SolKept

\* A rescue moves lamports only to the one that makes it.
LEMMA RescueEffect ==
  ASSUME TypeInv, NEW x \in Accounts, NEW u \in Users, NEW m \in Mints, NEW n \in Nat,
         Rescue(x, u, m, n)
  PROVE  SolKept({})
<1> DEFINE R == RescueFunds(bank, x, u, m, n)
<1>1. Sound(bank, Owners) /\ R = RescueFunds(bank, x, u, m, n) /\ R.ok /\ bank' = R
  BY SoundFact DEF Rescue, Commit
<1> HIDE DEF R
<1>2. x \in Owners /\ u \in Owners /\ x # u /\ \A z \in Accounts : z \in Owners /\ z # u
  BY AccountFact
<1>3. R.ok => /\ R.sol[u] >= bank.sol[u]
              /\ \A z \in Owners \ {u} : R.sol[z] = bank.sol[z]
  BY <1>1, <1>2, RescueFundsEffect
<1> QED BY <1>1, <1>2, <1>3 DEF SolKept

\* Outside transfers take lamports only from the one that makes them.
LEMMA OutsideEffect ==
  ASSUME TypeInv, NEW u \in Outsiders, NEW a \in Accounts \X Mints, OutsideStep(u, a)
  PROVE  SolKept({}) /\ (bank.ata[a].live => bank'.ata[a].lamports >= bank.ata[a].lamports)
<1> DEFINE b == Ata(u, a[2])
<1>1. /\ u \in Owners /\ a \in Atas(Owners) /\ b \in Atas(Owners) /\ a # b
      /\ Sound(bank, Owners)
  BY Disjoint, AccountFact, SoundFact, EscrowSrcAssumption DEF Atas, Ata
<1>7. \A z \in Accounts : z \in Owners /\ z # u
  BY AccountFact, EscrowSrcAssumption
<1>2. bank.ata[a].lamports \in Nat /\ bank.ata[b].amount \in Nat /\ bank.sol[u] \in Nat
  BY <1>1, BankParts
<1> HIDE DEF b
<1>3. CASE OutsideOpen(u, a)
  <2> DEFINE R == OpenAta(bank, u, a)
  <2>1. R = OpenAta(bank, u, a) /\ R.ok /\ bank' = R
    BY <1>3 DEF OutsideOpen, Commit
  <2> HIDE DEF R
  <2>2. /\ Sound(R, Owners) /\ Extends(bank, R, {a}, Owners)
        /\ R.ok => ~bank.ata[a].live /\ R.ata[a].live /\ R.ata[a].amount = 0
    BY ONLY <1>1, <2>1, OpenAtaFact
  <2>3. R.ok => \A z \in Owners \ {u} : R.sol[z] = bank.sol[z]
    BY <1>1, <2>1, OpenAtaEffect
  <2> QED BY <1>1, <1>7, <2>1, <2>2, <2>3 DEF SolKept
<1>4. CASE \E n \in 1..bank.ata[b].amount : OutsideDeposit(u, a, n)
  <2>1. PICK n \in 1..bank.ata[b].amount : OutsideDeposit(u, a, n)
    BY <1>4
  <2> DEFINE R == TransferTokens(bank, b, a, n)
  <2>2. R = TransferTokens(bank, b, a, n) /\ R.ok /\ bank' = R /\ n \in Nat
    BY <1>2, <2>1 DEF OutsideDeposit, Commit, b
  <2> HIDE DEF R
  <2>3. /\ R.ok <=> bank.ok /\ bank.ata[b].live /\ bank.ata[a].live /\ n <= bank.ata[b].amount
        /\ R.sol = bank.sol
        /\ R.ok => /\ R.ata[b] = [live |-> TRUE, amount |-> bank.ata[b].amount - n,
                                  lamports |-> bank.ata[b].lamports - TokenLamports(b, n)]
                   /\ R.ata[a] = [live |-> TRUE, amount |-> bank.ata[a].amount + n,
                                  lamports |-> bank.ata[a].lamports + TokenLamports(a, n)]
    BY <1>1, <2>2, TransferTokensEffect
  <2>4. R.ata[a].lamports >= bank.ata[a].lamports
    BY <1>2, <2>2, <2>3 DEF TokenLamports
  <2> QED BY <1>1, <1>7, <2>2, <2>3, <2>4 DEF SolKept
<1>5. CASE \E n \in 1..bank.sol[u] : OutsideLamports(u, a, n)
  <2>1. PICK n \in 1..bank.sol[u] : OutsideLamports(u, a, n)
    BY <1>5
  <2> DEFINE R == FundAta(bank, u, a, n)
  <2>2. R = FundAta(bank, u, a, n) /\ R.ok /\ bank' = R /\ n \in Nat
    BY <1>2, <2>1 DEF OutsideLamports, Commit
  <2> HIDE DEF R
  <2>3. R.ok => \A z \in Owners \ {u} : R.sol[z] = bank.sol[z]
    BY <1>1, <2>2, FundAtaEffect
  <2>4. /\ Sound(R, Owners) /\ Extends(bank, R, {a}, Owners)
        /\ R.ok => R.ata[a] = [bank.ata[a] EXCEPT !.lamports = @ + n] /\ bank.ata[a].live
    BY <1>1, <2>2, FundAtaFact
  <2>5. bank.ata[a] \in AtaState
    BY <1>1, BankParts
  <2>6. R.ata[a].lamports = bank.ata[a].lamports + n
    BY <2>2, <2>4, <2>5 DEF AtaState
  <2> QED BY <1>1, <1>7, <1>2, <2>2, <2>3, <2>6 DEF SolKept
<1>6. CASE OutsideSync(a)
  <2> DEFINE R == SyncNative(bank, a)
  <2>1. R = SyncNative(bank, a) /\ R.ok /\ bank' = R
    BY <1>6 DEF OutsideSync, Commit
  <2> HIDE DEF R
  <2>2. R.sol = bank.sol /\ R.ata[a].lamports = bank.ata[a].lamports
    BY <1>1, <2>1, SyncNativeEffect
  <2> QED BY <1>1, <1>7, <1>2, <2>1, <2>2 DEF SolKept
<1> QED BY <1>3, <1>4, <1>5, <1>6 DEF OutsideStep, b

\* So does what users do with their token accounts.
LEMMA UserAtaEffect ==
  ASSUME TypeInv, NEW u \in Closers, NEW a \in Users \X Mints, UserAtaStep(u, a)
  PROVE  SolKept({})
<1>1. /\ u \in Owners /\ a[1] \in Owners /\ a \in Atas(Owners) /\ Sound(bank, Owners)
      /\ \A z \in Accounts : z \in Owners /\ z # u /\ z # a[1]
  BY Disjoint, AccountFact, SoundFact, EscrowSrcAssumption DEF Atas
<1>2. CASE OutsideOpen(u, a)
  <2> DEFINE R == OpenAta(bank, u, a)
  <2>1. R = OpenAta(bank, u, a) /\ R.ok /\ bank' = R
    BY <1>2 DEF OutsideOpen, Commit
  <2> HIDE DEF R
  <2>2. R.ok => \A z \in Owners \ {u} : R.sol[z] = bank.sol[z]
    BY ONLY <1>1, <2>1, OpenAtaEffect
  <2> QED BY <1>1, <2>1, <2>2 DEF SolKept
<1>3. CASE CloseOwnAta(a)
  <2> DEFINE R == CloseAta(bank, a, a[1])
             x == a[1]
  <2>1. R = CloseAta(bank, a, x) /\ R.ok /\ bank' = R /\ x \in Owners
    BY <1>1, <1>3 DEF CloseOwnAta, Commit
  <2> HIDE DEF R, x
  <2>2. R.ok => /\ R.ata[a] = NoAta
                /\ R.sol[x] = bank.sol[x] + bank.ata[a].lamports
                /\ \A z \in Owners \ {x} : R.sol[z] = bank.sol[z]
    BY <1>1, <2>1, CloseAtaEffect
  <2> QED BY <1>1, <2>1, <2>2 DEF SolKept, x
<1> QED BY <1>2, <1>3 DEF UserAtaStep

-----------------------------------------------------------------------------
\* The steps, as the invariants below tell them apart.

\* No account of the program is written, none of its token accounts loses anything,
\* and without outsiders none changes.
Quiet ==
  /\ UNCHANGED <<order, escrow, late>> /\ now' >= now /\ revealed \subseteq revealed'
  /\ SolKept({})
  /\ \A b \in Accounts \X Mints : bank.ata[b].live =>
       /\ bank'.ata[b].live
       /\ bank'.ata[b].amount >= bank.ata[b].amount
       /\ bank'.ata[b].lamports >= bank.ata[b].lamports
  /\ Outsiders = {} => \A b \in Accounts \X Mints : bank'.ata[b] = bank.ata[b]

\* The two ends of an escrow, by its taker or another resolver.
EndsWithdrawn(k, s, u) ==
  /\ WithdrawWith(k, s, u)
  /\ Before(escrow[k].timelocks, "SrcCancellation", now)
  /\ u = k.taker \/ u \in resolver_access

EndsCancelled(k, u) ==
  /\ CancelTo(k, u)
  /\ \/ u = k.taker /\ CancelOpen(k, "SrcCancellation")
     \/ u \in resolver_access /\ CancelOpen(k, "SrcPublicCancellation")

\* The steps of outsiders, and those that move none of the program's funds, are quiet.
LEMMA OutsideQuiet ==
  ASSUME TypeInv, NEW u \in Outsiders, NEW a \in Accounts \X Mints, OutsideStep(u, a)
  PROVE  Quiet
<1>1. UNCHANGED <<now, order, escrow, late, revealed>>
  BY DEF OutsideStep, OutsideOpen, OutsideDeposit, OutsideLamports, OutsideSync, BankOnly
<1>2. /\ Touches({a, Ata(u, a[2])})
      /\ bank.ata[a].live => bank'.ata[a].live /\ bank'.ata[a].amount >= bank.ata[a].amount
  BY OutsideTouches DEF Accounts
<1>3. SolKept({}) /\ (bank.ata[a].live => bank'.ata[a].lamports >= bank.ata[a].lamports)
  BY OutsideEffect
<1>4. ASSUME NEW b \in Accounts \X Mints, bank.ata[b].live
      PROVE  /\ bank'.ata[b].live
             /\ bank'.ata[b].amount >= bank.ata[b].amount
             /\ bank'.ata[b].lamports >= bank.ata[b].lamports
  <2>1. b \in Atas(Owners) /\ b # Ata(u, a[2])
    BY AccountFact, EscrowSrcAssumption DEF Atas, Ata
  <2>2. bank.ata[b].amount \in Nat /\ bank.ata[b].lamports \in Nat
    BY <2>1, SoundFact, BankParts
  <2>3. CASE b = a
    BY <1>2, <1>3, <1>4, <2>3
  <2>4. CASE b # a
    BY <1>2, <1>4, <2>1, <2>2, <2>4 DEF Touches
  <2> QED BY <2>3, <2>4
<1>5. now' >= now
  BY <1>1, SoundFact
<1> QED BY <1>1, <1>3, <1>4, <1>5 DEF Quiet

\* A step that leaves the bank alone is quiet.
LEMMA IdleQuiet ==
  ASSUME TypeInv, bank' = bank, UNCHANGED <<order, escrow, late>>, now' >= now,
         revealed \subseteq revealed'
  PROVE  Quiet
<1>1. \A b \in Accounts \X Mints : bank.ata[b].amount \in Nat /\ bank.ata[b].lamports \in Nat
  <2>1. \A b \in Accounts \X Mints : b \in Atas(Owners)
    BY AccountFact DEF Atas
  <2> QED BY <2>1, SoundFact, BankParts
<1> QED BY <1>1 DEF Quiet, SolKept

\* So is one in which a user opens or closes a token account.
LEMMA UserAtaQuiet ==
  ASSUME TypeInv, NEW u \in Closers, NEW a \in Users \X Mints, UserAtaStep(u, a)
  PROVE  Quiet
<1>1. Touches({a}) /\ UNCHANGED <<now, order, escrow, late, revealed>> /\ SolKept({})
  BY UserAtaTouches, UserAtaEffect DEF BankOnly
<1>2. ASSUME NEW b \in Accounts \X Mints
      PROVE  /\ bank'.ata[b] = bank.ata[b]
             /\ bank.ata[b].amount \in Nat /\ bank.ata[b].lamports \in Nat
  <2>1. b \in Atas(Owners) /\ b # a
    BY AccountFact DEF Atas
  <2> QED BY <1>1, <2>1, SoundFact, BankParts DEF Touches
<1>3. now' >= now
  BY <1>1, SoundFact
<1> QED BY <1>1, <1>2, <1>3 DEF Quiet

\* Every step is one of these.
LEMMA Steps ==
  ASSUME TypeInv, [Next]_vars
  PROVE  \/ Quiet
         \/ \E o \in Orders : Create(o) \/ CancelOrder(o)
         \/ \E k \in EscrowKeys : \E proof \in Proofs(k.order) : CreateEscrow(k, proof)
         \/ \E k \in EscrowKeys, s \in Secrets, u \in Users : EndsWithdrawn(k, s, u)
         \/ \E k \in EscrowKeys, u \in Users : EndsCancelled(k, u)
         \/ \E o \in Orders, r \in Users, limit \in RewardLimits : CancelOrderByResolver(o, r, limit)
         \/ \E o \in Orders, r \in Users, m \in Mints : \E n \in 0..bank.ata[Ata(o, m)].amount :
              RescueFundsForOrder(o, r, m, n)
         \/ \E k \in EscrowKeys, m \in Mints : \E n \in 0..bank.ata[Ata(k, m)].amount :
              RescueFundsForEscrow(k, m, n)
<1>1. CASE Tick
  <2>1. now' >= now
    BY <1>1, SoundFact DEF Tick
  <2> QED BY <1>1, <2>1, IdleQuiet DEF Tick
<1>2. CASE \/ \E s \in Secrets : RevealSecret(s)
           \/ \E u \in Resolvers : Register(u) \/ Deregister(u)
           \/ UNCHANGED vars
  <2>1. bank' = bank /\ now' = now /\ UNCHANGED <<order, escrow, late>> /\ revealed \subseteq revealed'
    BY <1>2 DEF RevealSecret, Register, Deregister, vars
  <2>2. now' >= now
    BY <2>1, SoundFact
  <2> QED BY <2>1, <2>2, IdleQuiet
<1>3. CASE \E o \in Orders : OrderStep(o)
  <2>1. PICK o \in Orders : OrderStep(o)
    BY <1>3
  <2> QED BY <2>1 DEF OrderStep
<1>4. CASE \E k \in EscrowKeys : EscrowStep(k)
  <2>1. PICK k \in EscrowKeys : EscrowStep(k)
    BY <1>4
  <2>2. CASE \E s \in Secrets : Withdraw(k, s)
    BY <2>2, EscrowKeyFact DEF Withdraw, WithdrawOpen, EndsWithdrawn
  <2>3. CASE \E s \in Secrets, payer \in Users : PublicWithdraw(k, s, payer)
    BY <2>3 DEF PublicWithdraw, WithdrawOpen, EndsWithdrawn
  <2>4. CASE CancelEscrow(k)
    BY <2>4, EscrowKeyFact DEF CancelEscrow, EndsCancelled
  <2>5. CASE \E payer \in Users : PublicCancelEscrow(k, payer)
    BY <2>5 DEF PublicCancelEscrow, EndsCancelled
  <2>6. CASE \E m \in Mints : \E n \in 0..bank.ata[Ata(k, m)].amount :
               RescueFundsForEscrow(k, m, n)
    BY <2>6
  <2> QED BY <2>1, <2>2, <2>3, <2>4, <2>5, <2>6 DEF EscrowStep
<1>5. CASE \E u \in Outsiders : \E a \in (Orders \cup EscrowKeys) \X Mints : OutsideStep(u, a)
  BY <1>5, OutsideQuiet DEF Accounts
<1>6. CASE \E u \in Closers : \E a \in Users \X Mints : UserAtaStep(u, a)
  BY <1>6, UserAtaQuiet
<1> QED BY <1>1, <1>2, <1>3, <1>4, <1>5, <1>6 DEF Next

-----------------------------------------------------------------------------
\* The reserves.

\* The deltas of an account's timelocks are those that the order hash covers.
TermsStages(tl, o) == \A s \in Stages : tl[s] = Terms[o].timelocks[s]

\* What a live order keeps: its reserve and what create checked of its terms; and
\* an order for a single fill is not filled in part.
OrderReserved(o) ==
  order[o].live =>
    /\ bank.sol[o] >= RENT_ORDER
    /\ TermsChecked(o) /\ TermsStages(order[o].timelocks, o)
    /\ ~Terms[o].allow_multiple_fills => order[o].remaining_amount = Terms[o].amount

\* So does a live escrow.
EscrowReserved(k) ==
  escrow[k].live =>
    /\ bank.sol[k] >= RENT_ESCROW
    /\ TermsChecked(k.order) /\ TermsStages(escrow[k].timelocks, k.order)

Reserves ==
  /\ \A o \in Orders : OrderReserved(o)
  /\ \A k \in EscrowKeys : EscrowReserved(k)

\* Deltas of timelocks survive the time of deployment.
LEMMA StagesFact ==
  ASSUME NEW tl \in TimelockWords, NEW s \in Stages, NEW t
  PROVE  SetDeployedAt(tl, t)[s] = tl[s]
BY DEF SetDeployedAt, TimelockWords, Stages

\* An account that a step leaves alone keeps its reserve.
LEMMA OrderReservedKept ==
  ASSUME NEW o \in Orders, OrderReserved(o), order'[o] = order[o], bank'.sol[o] = bank.sol[o]
  PROVE  OrderReserved(o)'
BY DEF OrderReserved, TermsStages, TermsChecked, Token

\* So does an escrow account, whose order's terms are constant.
LEMMA EscrowReservedKept ==
  ASSUME NEW k \in EscrowKeys, EscrowReserved(k), escrow'[k] = escrow[k],
         bank'.sol[k] = bank.sol[k]
  PROVE  EscrowReserved(k)'
BY DEF EscrowReserved, TermsStages, TermsChecked, Token

\* So it is enough to look at the accounts in S.
LEMMA ReservesKept ==
  ASSUME Reserves, NEW S, SolKept(S),
         \A o \in Orders : (order'[o] = order[o] /\ o \notin S) \/ OrderReserved(o)',
         \A k \in EscrowKeys : (escrow'[k] = escrow[k] /\ k \notin S) \/ EscrowReserved(k)'
  PROVE  Reserves'
<1>1. ASSUME NEW o \in Orders, order'[o] = order[o], o \notin S
      PROVE  OrderReserved(o)'
  <2>1. bank'.sol[o] = bank.sol[o] /\ OrderReserved(o)
    BY <1>1, AccountFact DEF SolKept, Reserves
  <2> QED BY <1>1, <2>1, OrderReservedKept
<1>2. ASSUME NEW k \in EscrowKeys, escrow'[k] = escrow[k], k \notin S
      PROVE  EscrowReserved(k)'
  <2>1. bank'.sol[k] = bank.sol[k] /\ EscrowReserved(k)
    BY <1>2, AccountFact DEF SolKept, Reserves
  <2> QED BY <1>2, <2>1, EscrowReservedKept
<1>3. \A o \in Orders : OrderReserved(o)'
  BY <1>1
<1>4. \A k \in EscrowKeys : EscrowReserved(k)'
  BY <1>2
<1> QED BY <1>3, <1>4 DEF Reserves

\* What create writes.
LEMMA CreateReserves ==
  ASSUME TypeInv, Reserves, NEW o \in Orders, Create(o)
  PROVE  Reserves'
<1>1. SolKept({o}) /\ bank'.sol[o] = bank.sol[o] + RENT_ORDER /\ TermsChecked(o)
  BY CreateEffect
<1>2. /\ escrow' = escrow
      /\ \A p \in Orders \ {o} : order'[p] = order[p]
      /\ order'[o].remaining_amount = Terms[o].amount
      /\ order'[o].timelocks = SetDeployedAt(Terms[o].timelocks, now)
  BY DEF Create, TypeInv, TypeOK
<1>3. bank.sol[o] \in Nat /\ RENT_ORDER \in Nat /\ Terms[o].timelocks \in TimelockWords
  BY SoundFact, BankParts, AccountFact, OrderFact, EscrowSrcAssumption
<1>4. TermsStages(order'[o].timelocks, o)
  BY <1>2, <1>3, StagesFact DEF TermsStages
<1>5. OrderReserved(o)'
  BY <1>1, <1>2, <1>3, <1>4 DEF OrderReserved, TermsStages, TermsChecked, Token
<1>6. \A k \in EscrowKeys : k # o
  BY Disjoint
<1> QED BY <1>1, <1>2, <1>5, <1>6, ReservesKept

\* What create_escrow writes: the escrow's terms are those of its order.
LEMMA CreateEscrowReserves ==
  ASSUME TypeInv, Reserves, NEW k \in EscrowKeys, NEW proof \in Proofs(k.order),
         CreateEscrow(k, proof)
  PROVE  Reserves'
<1> DEFINE o == k.order
           n == AmountToTransfer(o, k.amount)
           a == OrderAta(o)
<1>1. /\ SolKept({o, k}) /\ bank'.sol[k] = bank.sol[k] + RENT_ESCROW
      /\ ~LastFill(o, k.amount) => bank'.sol[o] = bank.sol[o]
  BY CreateEscrowEffect
<1>2. o \in Orders /\ o # k /\ order[o] \in OrderState /\ order[o].live /\ OrderReserved(o)
  BY EscrowKeyFact, Disjoint DEF CreateEscrow, TypeInv, TypeOK, Reserves
<1>3. /\ \A p \in Orders \ {o} : order'[p] = order[p]
      /\ \A j \in EscrowKeys \ {k} : escrow'[j] = escrow[j]
      /\ escrow'[k].timelocks = SetDeployedAt(order[o].timelocks, now)
      /\ order'[o] = IF LastFill(o, k.amount) THEN NoOrder
                     ELSE [order[o] EXCEPT !.remaining_amount = @ - k.amount]
  BY <1>2 DEF CreateEscrow, TypeInv, TypeOK, EscrowTimelocks
<1> HIDE DEF o
<1>4. bank.sol[k] \in Nat /\ RENT_ESCROW \in Nat
  BY SoundFact, BankParts, AccountFact, EscrowSrcAssumption
<1>5. OrderReserved(o)'
  <2>1. CASE LastFill(o, k.amount)
    BY <1>3, <2>1 DEF OrderReserved, NoOrder
  <2>2. CASE ~LastFill(o, k.amount)
    <3>1. order'[o].timelocks = order[o].timelocks /\ Terms[o].allow_multiple_fills
      BY <1>2, <1>3, <2>2 DEF OrderState, LastFill
    <3>2. bank'.sol[o] = bank.sol[o]
      BY <1>1, <2>2
    <3> QED BY <1>2, <3>1, <3>2 DEF OrderReserved, TermsStages, TermsChecked, Token
  <2> QED BY <2>1, <2>2
<1>6. EscrowReserved(k)'
  <2>1. TermsChecked(o) /\ TermsStages(order[o].timelocks, o)
    BY <1>2 DEF OrderReserved
  <2>2. TermsStages(escrow'[k].timelocks, o)
    BY <1>2, <1>3, <2>1, StagesFact DEF TermsStages, OrderState
  <2> QED BY <1>1, <1>4, <2>1, <2>2 DEF EscrowReserved, TermsStages, TermsChecked, Token, o
<1>7. \A p \in Orders \ {o} : p \notin {o, k}
  BY Disjoint
<1>8. \A j \in EscrowKeys \ {k} : j \notin {o, k}
  BY <1>2, Disjoint
<1>9. /\ \A p \in Orders : (order'[p] = order[p] /\ p \notin {o, k}) \/ OrderReserved(p)'
      /\ \A j \in EscrowKeys : (escrow'[j] = escrow[j] /\ j \notin {o, k}) \/ EscrowReserved(j)'
  BY <1>3, <1>5, <1>6, <1>7, <1>8
<1> QED BY <1>1, <1>9, ReservesKept

\* A step that closes the account x, if it closes any.
LEMMA ClosesReserves ==
  ASSUME TypeInv, Reserves, NEW x \in Accounts, SolKept({x}),
         \/ x \in Orders /\ DropOrder(x) /\ escrow' = escrow
         \/ x \in EscrowKeys /\ CloseEscrow(x) /\ order' = order
  PROVE  Reserves'
<1>1. CASE x \in Orders /\ DropOrder(x) /\ escrow' = escrow
  <2>1. ~order'[x].live /\ \A p \in Orders \ {x} : order'[p] = order[p]
    BY <1>1 DEF DropOrder, NoOrder, TypeInv, TypeOK
  <2>2. OrderReserved(x)'
    BY <2>1 DEF OrderReserved
  <2>3. \A k \in EscrowKeys : k # x
    BY <1>1, Disjoint
  <2> QED BY <1>1, <2>1, <2>2, <2>3, ReservesKept
<1>2. CASE x \in EscrowKeys /\ CloseEscrow(x) /\ order' = order
  <2>1. ~escrow'[x].live /\ \A j \in EscrowKeys \ {x} : escrow'[j] = escrow[j]
    BY <1>2 DEF CloseEscrow, NoEscrow, TypeInv, TypeOK
  <2>2. EscrowReserved(x)'
    BY <2>1 DEF EscrowReserved
  <2>3. \A o \in Orders : o # x
    BY <1>2, Disjoint
  <2> QED BY <1>2, <2>1, <2>2, <2>3, ReservesKept
<1> QED BY <1>1, <1>2

\* Every step keeps the reserves.
LEMMA NextReserves ==
  ASSUME TypeInv, Reserves, [Next]_vars
  PROVE  Reserves'
<1>1. CASE SolKept({}) /\ UNCHANGED <<order, escrow>>
  BY <1>1, ReservesKept
<1>2. CASE Quiet
  BY <1>1, <1>2 DEF Quiet
<1>3. CASE \E o \in Orders : Create(o) \/ CancelOrder(o)
  <2>1. PICK o \in Orders : Create(o) \/ CancelOrder(o)
    BY <1>3
  <2>2. CASE CancelOrder(o)
    <3>1. SolKept({o}) /\ DropOrder(o) /\ escrow' = escrow /\ o \in Accounts
      BY <2>2, CancelOrderEffect, AccountFact DEF CancelOrder
    <3> QED BY <3>1, ClosesReserves
  <2> QED BY <2>1, <2>2, CreateReserves
<1>4. CASE \E k \in EscrowKeys : \E proof \in Proofs(k.order) : CreateEscrow(k, proof)
  BY <1>4, CreateEscrowReserves
<1>5. CASE \E k \in EscrowKeys, s \in Secrets, u \in Users : EndsWithdrawn(k, s, u)
  <2>1. PICK k \in EscrowKeys, s \in Secrets, u \in Users : EndsWithdrawn(k, s, u)
    BY <1>5
  <2>2. WithdrawWith(k, s, u) /\ k \in Accounts
    BY <2>1, AccountFact DEF EndsWithdrawn
  <2>3. SolKept({k}) /\ CloseEscrow(k) /\ order' = order
    BY <2>2, WithdrawEffect DEF WithdrawWith
  <2> QED BY <2>2, <2>3, ClosesReserves
<1>6. CASE \E k \in EscrowKeys, u \in Users : EndsCancelled(k, u)
  <2>1. PICK k \in EscrowKeys, u \in Users : EndsCancelled(k, u)
    BY <1>6
  <2>2. CancelTo(k, u) /\ k \in Accounts
    BY <2>1, AccountFact DEF EndsCancelled
  <2>3. SolKept({k}) /\ CloseEscrow(k) /\ order' = order
    BY <2>2, CancelEffect DEF CancelTo
  <2> QED BY <2>2, <2>3, ClosesReserves
<1>7. CASE \E o \in Orders, r \in Users, limit \in RewardLimits : CancelOrderByResolver(o, r, limit)
  <2>1. PICK o \in Orders, r \in Users, limit \in RewardLimits : CancelOrderByResolver(o, r, limit)
    BY <1>7
  <2>2. SolKept({o}) /\ DropOrder(o) /\ escrow' = escrow /\ o \in Accounts
    BY <2>1, ResolverCancelEffect, AccountFact DEF CancelOrderByResolver
  <2> QED BY <2>2, ClosesReserves
<1>8. ASSUME NEW x \in Accounts, NEW u \in Users, NEW m \in Mints, NEW n \in Nat,
             Rescue(x, u, m, n)
      PROVE  Reserves'
  BY <1>1, <1>8, RescueEffect DEF Rescue
<1>9. CASE \E o \in Orders, r \in Users, m \in Mints : \E n \in 0..bank.ata[Ata(o, m)].amount :
             RescueFundsForOrder(o, r, m, n)
  <2>1. PICK o \in Orders, r \in Users, m \in Mints :
               \E n \in 0..bank.ata[Ata(o, m)].amount : RescueFundsForOrder(o, r, m, n)
    BY <1>9
  <2>2. PICK n \in 0..bank.ata[Ata(o, m)].amount : RescueFundsForOrder(o, r, m, n)
    BY <2>1
  <2>3. n \in Nat /\ o \in Accounts /\ Rescue(o, r, m, n)
    BY <2>2, AccountFact DEF RescueFundsForOrder
  <2> QED BY <1>8, <2>3
<1>10. CASE \E k \in EscrowKeys, m \in Mints : \E n \in 0..bank.ata[Ata(k, m)].amount :
              RescueFundsForEscrow(k, m, n)
  <2>1. PICK k \in EscrowKeys, m \in Mints :
               \E n \in 0..bank.ata[Ata(k, m)].amount : RescueFundsForEscrow(k, m, n)
    BY <1>10
  <2>2. PICK n \in 0..bank.ata[Ata(k, m)].amount : RescueFundsForEscrow(k, m, n)
    BY <2>1
  <2>3. n \in Nat /\ k \in Accounts /\ k.taker \in Users /\ Rescue(k, k.taker, m, n)
    BY <2>2, AccountFact, EscrowKeyFact DEF RescueFundsForEscrow
  <2> QED BY <1>8, <2>3
<1> QED BY <1>2, <1>3, <1>4, <1>5, <1>6, <1>7, <1>9, <1>10, Steps

\* Inv and the reserves: the inductive invariant behind NeverStuck.
THEOREM ReservesInvariant == Spec => [](Inv /\ Reserves)
<1>1. Init => Reserves
  BY DEF Init, NoOrder, NoEscrow, Reserves, OrderReserved, EscrowReserved
<1>2. Inv /\ Reserves /\ [Next]_vars => Reserves'
  BY NextReserves DEF Inv
<1>3. Spec => []Reserves
  BY <1>1, <1>2, InvInvariant, PTL DEF Spec
<1> QED BY <1>3, InvInvariant, PTL

\* Outside transfers, other users and the order of the calls cannot make a
\* cancellation or a withdrawal fail: what each needs is in the accounts until
\* their rescue start (cancel_order, cancel_escrow, withdraw and their public
\* forms).
THEOREM NeverStuckInvariant == Spec => []NeverStuck
<1>1. ASSUME Inv, Reserves PROVE NeverStuck
  <2>1. Sound(bank, Owners) /\ bank.ok
    BY <1>1, SoundFact DEF Inv
  <2>2. ASSUME NEW o \in Orders, order[o].live, ~OrderRescuable(o), MakerCanBeRefunded(o)
        PROVE  CloseOrder(RefundTokens(bank, o), o, Terms[o].creator).ok
    <3> DEFINE T == RefundTokens(bank, o)
               R == CloseOrder(T, o, Terms[o].creator)
    <3>1. T = RefundTokens(bank, o) /\ R = CloseOrder(T, o, Terms[o].creator)
      OBVIOUS
    <3> HIDE DEF T, R
    <3>2. bank.ata[OrderAta(o)].live /\ (Terms[o].asset_is_native => Token(o) = NATIVE_MINT)
      BY <1>1, <2>2 DEF Inv, OrderFunded, Reserves, OrderReserved, TermsChecked
    <3>3. R.ok
      BY <2>1, <2>2, <3>1, <3>2, CancelOrderBankEffect
    <3> QED BY <3>1, <3>3
  <2>3. ASSUME NEW k \in EscrowKeys, escrow[k].live, k \notin late, ~EscrowRescuable(k),
               NEW u \in Users
        PROVE  /\ bank.ata[AtaOf(k.taker, k.order)].live => WithdrawBank(k, u).ok
               /\ MakerCanBeRefunded(k.order) => CancelBank(k, u).ok
    <3> DEFINE n == Terms[k.order].safety_deposit
               a == EscrowAta(k)
    <3>1. bank.ata[a].live /\ bank.ata[a].amount >= k.amount
      BY <1>1, <2>3 DEF Inv, EscrowFunded
    <3>2. bank.sol[k] >= RENT_ESCROW /\ TermsChecked(k.order)
      BY <1>1, <2>3 DEF Reserves, EscrowReserved
    <3>3. /\ bank.sol[k] \in Nat /\ RENT_ESCROW \in Nat /\ RENT_ATA \in Nat /\ n \in Nat
          /\ a \in Atas(Owners) /\ k.amount \in Nat /\ a[2] = Token(k.order)
      BY <2>1, BankParts, AccountFact, OrderFact, EscrowKeyFact, EscrowSrcAssumption, LedgerAssumption
    <3>4. n <= bank.sol[k]
      BY <3>2, <3>3 DEF TermsChecked
    <3>5. ASSUME bank.ata[AtaOf(k.taker, k.order)].live PROVE WithdrawBank(k, u).ok
      <4> DEFINE R == WithdrawBank(k, u)
      <4>1. R = WithdrawBank(k, u)
        OBVIOUS
      <4> HIDE DEF R
      <4>2. R.ok
        BY <2>1, <3>1, <3>4, <3>5, <4>1, WithdrawBankEffect
      <4> QED BY <4>1, <4>2
    <3>6. ASSUME Terms[k.order].asset_is_native PROVE CancelBank(k, u).ok
      <4> DEFINE R == CancelBank(k, u)
                 rest == bank.sol[k] + bank.ata[a].lamports - k.amount
      <4>1. R = CancelBank(k, u) /\ rest = bank.sol[k] + bank.ata[a].lamports - k.amount
        OBVIOUS
      <4>2. a[2] = NATIVE_MINT /\ Token(k.order) = NATIVE_MINT
        BY <3>2, <3>3, <3>6 DEF TermsChecked
      <4>3. /\ bank.ata[a].lamports \in Nat /\ bank.ata[a].amount \in Nat
            /\ bank.ata[a].lamports >= RENT_ATA + TokenLamports(a, bank.ata[a].amount)
        BY <2>1, <3>1, <3>3, BankParts
      <4>4. rest >= n
        <5>1. bank.ata[a].lamports >= k.amount
          BY <3>1, <3>3, <4>2, <4>3 DEF TokenLamports
        <5> HIDE DEF n, a
        <5> QED BY <3>3, <3>4, <4>3, <5>1
      <4> HIDE DEF R, rest
      <4>5. R.ok
        BY <2>1, <3>1, <3>6, <4>1, <4>2, <4>4, CancelNativeEffect
      <4> QED BY <4>1, <4>5
    <3>7. ASSUME ~Terms[k.order].asset_is_native, MakerCanBeRefunded(k.order)
          PROVE  CancelBank(k, u).ok
      <4> DEFINE R == CancelBank(k, u)
      <4>1. R = CancelBank(k, u) /\ bank.ata[AtaOf(Maker(k), k.order)].live
        BY <3>7 DEF MakerCanBeRefunded, Maker
      <4> HIDE DEF R
      <4>2. R.ok
        BY <2>1, <3>1, <3>4, <3>7, <4>1, CancelTokensEffect
      <4> QED BY <4>1, <4>2
    <3> QED BY <3>5, <3>6, <3>7
  <2> QED BY <2>2, <2>3 DEF NeverStuck
<1> QED BY <1>1, ReservesInvariant, PTL

-----------------------------------------------------------------------------
\* The premium.

\* A live order keeps the premium in its token account, next to a native asset,
\* which is in those lamports too; only in an order of wrapped SOL as a token the
\* premium may be in the tokens themselves.
PremiumKeptAt(o) ==
  (/\ order[o].live /\ ~OrderRescuable(o)
   /\ Terms[o].asset_is_native \/ Token(o) # NATIVE_MINT)
    => bank.ata[OrderAta(o)].lamports >= Terms[o].max_cancellation_premium + PremiumKept(o)

Premiums == \A o \in Orders : PremiumKeptAt(o)

\* An order keeps it if its account is not written, its open token account loses no
\* lamports and time does not go back.
LEMMA PremiumLeft ==
  ASSUME Inv, TypeInv', Premiums, NEW o \in Orders, order'[o] = order[o], now' >= now,
         bank.ata[OrderAta(o)].live =>
           bank'.ata[OrderAta(o)].lamports >= bank.ata[OrderAta(o)].lamports
  PROVE  PremiumKeptAt(o)'
<1>1. now \in Nat /\ now' \in Nat
  BY EscrowSrcAssumption, WidthsAssumption DEF Inv, TypeInv, TypeOK, U32
<1>2. RescueStart(order[o].timelocks) \in Nat /\ order[o].remaining_amount \in Nat
  <2>1. order[o] \in OrderState
    BY DEF Inv, TypeInv, TypeOK
  <2> QED BY <2>1, WidthsAssumption, TimelocksAssumption
          DEF OrderState, RescueStart, TimelockWords, U32, Stages
<1>3. OrderRescuable(o) => OrderRescuable(o)'
  BY <1>1, <1>2 DEF OrderRescuable
<1>4. /\ bank.ata[OrderAta(o)].lamports \in Nat /\ bank'.ata[OrderAta(o)].lamports \in Nat
      /\ Terms[o].max_cancellation_premium \in Nat
  <2>1. bank.ata[OrderAta(o)] \in AtaState /\ bank'.ata[OrderAta(o)] \in AtaState
    BY OrderFact DEF Inv, TypeInv, TypeOK, Bank, Atas
  <2> QED BY <2>1, TermsAssumption, WidthsAssumption DEF AtaState, TermsSet, U64
<1>5. (order[o].live /\ ~OrderRescuable(o)) => bank.ata[OrderAta(o)].live
  BY DEF Inv, OrderFunded
<1>6. PremiumKept(o) \in Nat /\ PremiumKept(o)' = PremiumKept(o)
  BY <1>2 DEF PremiumKept
<1>7. PremiumKeptAt(o)
  BY DEF Premiums
<1>8. ASSUME order'[o].live, ~OrderRescuable(o)', Terms[o].asset_is_native \/ Token(o) # NATIVE_MINT
      PROVE  bank'.ata[OrderAta(o)].lamports >= Terms[o].max_cancellation_premium + PremiumKept(o)
  <2>1. order[o].live /\ ~OrderRescuable(o) /\ bank.ata[OrderAta(o)].live
    BY <1>3, <1>5, <1>8
  <2>2. bank.ata[OrderAta(o)].lamports >= Terms[o].max_cancellation_premium + PremiumKept(o)
    BY <1>7, <1>8, <2>1 DEF PremiumKeptAt
  <2> QED BY <1>4, <1>6, <2>1, <2>2
<1> QED BY <1>6, <1>8 DEF PremiumKeptAt

\* A step that touches no token accounts but those in S leaves the premium of the
\* orders whose account it does not write.
LEMMA PremiumUntouched ==
  ASSUME Inv, TypeInv', Premiums, now' = now, NEW S, Touches(S), NEW o \in Orders,
         order'[o] = order[o], OrderAta(o) \notin S
  PROVE  PremiumKeptAt(o)'
<1>1. now' >= now
  BY SoundFact DEF Inv
<1>2. bank'.ata[OrderAta(o)] = bank.ata[OrderAta(o)]
  BY OrderFact DEF Touches
<1>3. bank.ata[OrderAta(o)].lamports \in Nat
  BY OrderFact DEF Inv, TypeInv, TypeOK, Bank, Atas, AtaState
<1> QED BY <1>1, <1>2, <1>3, PremiumLeft

\* create checks it, before it adds the native asset.
LEMMA CreatePremium ==
  ASSUME Inv, TypeInv', Premiums, NEW o \in Orders, Create(o)
  PROVE  Premiums'
<1>1. Touches({OrderAta(o), AtaOf(Terms[o].creator, o)})
  BY CreateTouches DEF Inv
<1>2. bank'.ata[OrderAta(o)].lamports
        >= Terms[o].max_cancellation_premium
             + (IF Terms[o].asset_is_native THEN Terms[o].amount ELSE 0)
  BY CreateEffect DEF Inv
<1>3. /\ now' = now
      /\ order'[o].remaining_amount = Terms[o].amount
      /\ \A p \in Orders \ {o} : order'[p] = order[p]
  BY DEF Create, Inv, TypeInv, TypeOK
<1>4. \A p \in Orders \ {o} : OrderAta(p) \notin {OrderAta(o), AtaOf(Terms[o].creator, o)}
  BY OrderFact, ProgramAtas
<1>5. PremiumKeptAt(o)'
  BY <1>2, <1>3 DEF PremiumKeptAt, PremiumKept
<1>6. \A p \in Orders \ {o} : PremiumKeptAt(p)'
  BY <1>1, <1>3, <1>4, PremiumUntouched
<1> QED BY <1>5, <1>6 DEF Premiums

\* A fill takes lamports from an order only with a native asset, as many as the
\* order has tokens less to keep.
LEMMA CreateEscrowPremium ==
  ASSUME Inv, TypeInv', Reserves, Premiums, NEW k \in EscrowKeys, NEW proof \in Proofs(k.order),
         CreateEscrow(k, proof),
         NEW o, o = k.order, NEW n, n = AmountToTransfer(o, k.amount),
         NEW a, a = OrderAta(o), NEW b, b = EscrowAta(k)
  PROVE  Premiums'
<1>1. Touches({a, b})
  BY CreateEscrowTouches DEF Inv
<1>2. /\ SolKept({o, k}) /\ bank'.sol[k] = bank.sol[k] + RENT_ESCROW
      /\ LastFill(o, k.amount) => bank'.sol[o] = 0 /\ bank'.ata[a] = NoAta
      /\ ~LastFill(o, k.amount) =>
           /\ bank'.sol[o] = bank.sol[o]
           /\ bank'.ata[a].lamports = bank.ata[a].lamports - TokenLamports(a, n)
  BY CreateEscrowEffect DEF Inv
<1>3. o \in Orders /\ k.amount \in Nat /\ order[o] \in OrderState /\ order[o].live
  BY EscrowKeyFact DEF CreateEscrow, Inv, TypeInv, TypeOK
<1>4. /\ now' = now
      /\ \A p \in Orders \ {o} : order'[p] = order[p]
      /\ order'[o] = IF LastFill(o, k.amount) THEN NoOrder
                     ELSE [order[o] EXCEPT !.remaining_amount = @ - k.amount]
  BY <1>3 DEF CreateEscrow, Inv, TypeInv, TypeOK
<1>5. \A p \in Orders \ {o} : OrderAta(p) \notin {a, b}
  BY <1>3, ProgramAtas
<1>6. \A p \in Orders \ {o} : PremiumKeptAt(p)'
  BY <1>1, <1>4, <1>5, PremiumUntouched
<1>7. CASE LastFill(o, k.amount)
  <2>1. PremiumKeptAt(o)'
    BY <1>4, <1>7 DEF PremiumKeptAt, NoOrder
  <2> QED BY <1>6, <2>1 DEF Premiums
<1>8. CASE ~LastFill(o, k.amount)
  <2>1. /\ order'[o].remaining_amount = order[o].remaining_amount - k.amount
        /\ order'[o].timelocks = order[o].timelocks
        /\ order[o].remaining_amount \in Nat
    BY <1>3, <1>4, <1>8 DEF OrderState
  <2>2. n = k.amount
    BY <1>8 DEF LastFill, AmountToTransfer
  <2>3. /\ PremiumKeptAt(o)
        /\ Terms[o].asset_is_native => Token(o) = NATIVE_MINT
        /\ a[2] = Token(o)
    BY <1>3, OrderFact DEF Premiums, Reserves, OrderReserved, TermsChecked
  <2>4. ~OrderRescuable(o)' => ~OrderRescuable(o)
    BY <1>4, <2>1 DEF OrderRescuable
  <2>5. bank.ata[a].lamports \in Nat /\ Terms[o].max_cancellation_premium \in Nat
    <3>1. Terms[o].max_cancellation_premium \in Nat
      BY <1>3, TermsAssumption, WidthsAssumption DEF TermsSet, U64
    <3> QED BY <1>3, <3>1, OrderFact, SoundFact, BankParts DEF Inv
  <2>6. ASSUME Terms[o].asset_is_native PROVE PremiumKeptAt(o)'
    <3>1. PremiumKept(o) = order[o].remaining_amount
          /\ PremiumKept(o)' = order[o].remaining_amount - k.amount
      BY <2>1, <2>6 DEF PremiumKept
    <3>2. bank'.ata[a].lamports = bank.ata[a].lamports - k.amount
      BY <1>2, <1>8, <2>2, <2>3, <2>6 DEF TokenLamports
    <3>3. ~OrderRescuable(o)' =>
            bank.ata[a].lamports >= Terms[o].max_cancellation_premium + order[o].remaining_amount
      BY <1>3, <2>3, <2>4, <2>6, <3>1 DEF PremiumKeptAt
    <3>4. ~OrderRescuable(o)' =>
            bank'.ata[a].lamports
              >= Terms[o].max_cancellation_premium + (order[o].remaining_amount - k.amount)
      BY <1>3, <2>1, <2>5, <3>2, <3>3
    <3>5. ~OrderRescuable(o)' =>
            bank'.ata[OrderAta(o)].lamports >= Terms[o].max_cancellation_premium + PremiumKept(o)'
      BY <3>1, <3>4
    <3> QED BY <3>5 DEF PremiumKeptAt
  <2>7. ASSUME ~Terms[o].asset_is_native PROVE PremiumKeptAt(o)'
    <3>1. PremiumKept(o) = 0 /\ PremiumKept(o)' = 0
      BY <2>7 DEF PremiumKept
    <3>2. Token(o) # NATIVE_MINT => bank'.ata[a].lamports = bank.ata[a].lamports
      BY <1>2, <1>8, <2>3, <2>5 DEF TokenLamports
    <3>3. (~OrderRescuable(o)' /\ Token(o) # NATIVE_MINT) =>
            bank'.ata[OrderAta(o)].lamports >= Terms[o].max_cancellation_premium + PremiumKept(o)'
      BY <1>3, <2>3, <2>4, <3>1, <3>2 DEF PremiumKeptAt
    <3> QED BY <2>7, <3>3 DEF PremiumKeptAt
  <2>8. PremiumKeptAt(o)'
    BY <2>6, <2>7
  <2> QED BY <1>6, <2>8 DEF Premiums
<1> QED BY <1>7, <1>8

\* A step that closes the order o and touches only token accounts of it and of users.
LEMMA DropOrderPremium ==
  ASSUME Inv, TypeInv', Premiums, NEW o \in Orders, NEW u \in Users, now' = now,
         Touches({OrderAta(o), AtaOf(u, o)}), DropOrder(o)
  PROVE  Premiums'
<1>1. ~order'[o].live /\ \A p \in Orders \ {o} : order'[p] = order[p]
  BY DEF DropOrder, NoOrder, Inv, TypeInv, TypeOK
<1>2. \A p \in Orders \ {o} : OrderAta(p) \notin {OrderAta(o), AtaOf(u, o)}
  BY ProgramAtas
<1>3. \A p \in Orders \ {o} : PremiumKeptAt(p)'
  BY <1>1, <1>2, PremiumUntouched
<1>4. PremiumKeptAt(o)'
  BY <1>1 DEF PremiumKeptAt
<1> QED BY <1>3, <1>4 DEF Premiums

\* A step that writes no order and touches only token accounts of an escrow and of users.
LEMMA EscrowPremium ==
  ASSUME Inv, TypeInv', Premiums, NEW k \in EscrowKeys, NEW u \in Users, NEW m, NEW p,
         now' = now, order' = order, Touches({Ata(k, m), Ata(u, p)})
  PROVE  Premiums'
<1>1. \A o \in Orders : OrderAta(o) \notin {Ata(k, m), Ata(u, p)}
  BY AtasDiffer, Disjoint DEF OrderAta
<1>2. \A o \in Orders : PremiumKeptAt(o)'
  BY <1>1, PremiumUntouched
<1> QED BY <1>2 DEF Premiums

\* Every step keeps the premiums.
LEMMA NextPremium ==
  ASSUME Inv, Reserves, Premiums, [Next]_vars
  PROVE  Premiums'
<1>0. TypeInv' /\ TypeInv
  BY NextTypes DEF Inv
<1>1. CASE Quiet
  <2>1. ASSUME NEW o \in Orders PROVE PremiumKeptAt(o)'
    <3>1. OrderAta(o) \in Accounts \X Mints
      BY OrderFact, AccountFact
    <3>2. order'[o] = order[o] /\ now' >= now
          /\ (bank.ata[OrderAta(o)].live =>
                bank'.ata[OrderAta(o)].lamports >= bank.ata[OrderAta(o)].lamports)
      BY <1>1, <3>1 DEF Quiet
    <3> QED BY <1>0, <3>2, PremiumLeft
  <2> QED BY <2>1 DEF Premiums
<1>2. CASE \E o \in Orders : Create(o) \/ CancelOrder(o)
  <2>1. PICK o \in Orders : Create(o) \/ CancelOrder(o)
    BY <1>2
  <2>2. CASE CancelOrder(o)
    BY <1>0, <2>2, CancelOrderTouches, DropOrderPremium, OrderFact DEF CancelOrder
  <2> QED BY <1>0, <2>1, <2>2, CreatePremium
<1>3. CASE \E k \in EscrowKeys : \E proof \in Proofs(k.order) : CreateEscrow(k, proof)
  BY <1>0, <1>3, CreateEscrowPremium
<1>4. CASE \E k \in EscrowKeys, s \in Secrets, u \in Users : EndsWithdrawn(k, s, u)
  <2>1. PICK k \in EscrowKeys, s \in Secrets, u \in Users : EndsWithdrawn(k, s, u)
    BY <1>4
  <2>2. WithdrawWith(k, s, u) /\ now' = now /\ order' = order /\ k.taker \in Users
    BY <2>1, EscrowKeyFact DEF EndsWithdrawn, WithdrawWith
  <2>3. Touches({Ata(k, Token(k.order)), Ata(k.taker, Token(k.order))})
    BY <1>0, <2>2, WithdrawTouches DEF EscrowAta, AtaOf
  <2> QED BY <1>0, <2>2, <2>3, EscrowPremium
<1>5. CASE \E k \in EscrowKeys, u \in Users : EndsCancelled(k, u)
  <2>1. PICK k \in EscrowKeys, u \in Users : EndsCancelled(k, u)
    BY <1>5
  <2>2. CancelTo(k, u) /\ now' = now /\ order' = order /\ Maker(k) \in Users
    BY <2>1, EscrowKeyFact DEF EndsCancelled, CancelTo
  <2>3. Touches({Ata(k, Token(k.order)), Ata(Maker(k), Token(k.order))})
    BY <1>0, <2>2, CancelTouches DEF EscrowAta, AtaOf
  <2> QED BY <1>0, <2>2, <2>3, EscrowPremium
<1>6. CASE \E o \in Orders, r \in Users, limit \in RewardLimits : CancelOrderByResolver(o, r, limit)
  <2>1. PICK o \in Orders, r \in Users, limit \in RewardLimits : CancelOrderByResolver(o, r, limit)
    BY <1>6
  <2> QED BY <1>0, <2>1, ResolverCancelTouches, DropOrderPremium, OrderFact
          DEF CancelOrderByResolver
<1>7. CASE \E o \in Orders, r \in Users, m \in Mints : \E n \in 0..bank.ata[Ata(o, m)].amount :
             RescueFundsForOrder(o, r, m, n)
  <2>1. PICK o \in Orders, r \in Users, m \in Mints :
               \E n \in 0..bank.ata[Ata(o, m)].amount : RescueFundsForOrder(o, r, m, n)
    BY <1>7
  <2>2. PICK n \in 0..bank.ata[Ata(o, m)].amount : RescueFundsForOrder(o, r, m, n)
    BY <2>1
  <2>3. Rescue(o, r, m, n) /\ RescueOpen(order[o].live, order[o].timelocks, now)
    BY <2>2 DEF RescueFundsForOrder
  <2>4. Touches({Ata(o, m), Ata(r, m)}) /\ now' = now /\ order' = order
    BY <1>0, <2>3, RescueTouches DEF Rescue
  <2>5. \A p \in Orders \ {o} : OrderAta(p) \notin {Ata(o, m), Ata(r, m)}
    BY AtasDiffer, Disjoint DEF OrderAta
  <2>6. \A p \in Orders \ {o} : PremiumKeptAt(p)'
    BY <1>0, <2>4, <2>5, PremiumUntouched
  <2>7. PremiumKeptAt(o)'
    BY <2>3, <2>4 DEF PremiumKeptAt, OrderRescuable, RescueOpen, RescueReached
  <2> QED BY <2>6, <2>7 DEF Premiums
<1>8. CASE \E k \in EscrowKeys, m \in Mints : \E n \in 0..bank.ata[Ata(k, m)].amount :
             RescueFundsForEscrow(k, m, n)
  <2>1. PICK k \in EscrowKeys, m \in Mints :
               \E n \in 0..bank.ata[Ata(k, m)].amount : RescueFundsForEscrow(k, m, n)
    BY <1>8
  <2>2. PICK n \in 0..bank.ata[Ata(k, m)].amount : RescueFundsForEscrow(k, m, n)
    BY <2>1
  <2>3. Rescue(k, k.taker, m, n) /\ k.taker \in Users
    BY <2>2, EscrowKeyFact DEF RescueFundsForEscrow
  <2>4. Touches({Ata(k, m), Ata(k.taker, m)}) /\ now' = now /\ order' = order
    BY <1>0, <2>3, RescueTouches DEF Rescue
  <2> QED BY <1>0, <2>3, <2>4, EscrowPremium
<1> QED BY <1>0, <1>1, <1>2, <1>3, <1>4, <1>5, <1>6, <1>7, <1>8, Steps

\* The refund of tokens that are not wrapped SOL takes no lamports from the order's
\* token account, even if the maker has closed its own and the refund fails.
LEMMA RefundLamports ==
  ASSUME NEW o \in Orders, Sound(bank, Owners), ~Terms[o].asset_is_native,
         Token(o) # NATIVE_MINT
  PROVE  RefundTokens(bank, o).ata[OrderAta(o)].lamports = bank.ata[OrderAta(o)].lamports
<1> DEFINE a == OrderAta(o)
           b == AtaOf(Terms[o].creator, o)
           n == bank.ata[a].amount
           T == TakeTokens(bank, a, n)
           P == PutTokens(T, b, n)
<1>1. a \in Atas(Owners) /\ b \in Atas(Owners) /\ a # b /\ TokenLamports(a, n) = 0
  BY OrderFact, Disjoint DEF AtaOf, Ata, Atas, TokenLamports
<1>2. n \in Nat /\ bank.ata[a].lamports \in Nat /\ bank \in Bank(Owners)
  BY <1>1, BankParts
<1>3. RefundTokens(bank, o) = IF n = 0 THEN bank ELSE P
  BY DEF RefundTokens, UniTransferToken, TransferTokens
<1>4. T = TakeTokens(bank, a, n) /\ P = PutTokens(T, b, n)
  OBVIOUS
<1> HIDE DEF a, b, n, P
<1>5. T.ata[a].lamports = bank.ata[a].lamports
  <2> DEFINE v == [live     |-> TRUE,
                   amount   |-> bank.ata[a].amount - n,
                   lamports |-> bank.ata[a].lamports - TokenLamports(a, n)]
  <2>1. T = [bank EXCEPT !.ata[a] = v] \/ T = [bank EXCEPT !.ok = FALSE]
    BY DEF TakeTokens, Attempt
  <2>2. v.lamports = bank.ata[a].lamports
    BY <1>1, <1>2
  <2> HIDE DEF v, T
  <2>3. CASE T = [bank EXCEPT !.ata[a] = v]
    BY <1>1, <1>2, <2>2, <2>3, AtaChange
  <2>4. CASE T = [bank EXCEPT !.ok = FALSE]
    BY <1>2, <2>4, Fail
  <2> QED BY <2>1, <2>3, <2>4
<1> HIDE DEF T
<1>6. Sound(T, Owners)
  BY <1>1, <1>2, <1>4, TakeTokensFact
<1>7. P.ata[a] = T.ata[a]
  <2>1. Extends(T, P, {b}, Owners)
    BY <1>1, <1>2, <1>4, <1>6, PutTokensFact
  <2> QED BY <1>1, <2>1 DEF Extends
<1> QED BY <1>3, <1>5, <1>7 DEF a

\* An order whose tokens are not the lamports of its account can pay the whole
\* premium from it, whatever fills it had (create, create_escrow,
\* cancel_order_by_resolver).
THEOREM PremiumInvariant == Spec => []PremiumCovered
<1>1. Init => Premiums
  BY DEF Init, NoOrder, Premiums, PremiumKeptAt
<1>2. Inv /\ Reserves /\ Premiums /\ [Next]_vars => Premiums'
  BY NextPremium
<1>3. ASSUME Inv, Premiums PROVE PremiumCovered
  <2>1. ASSUME NEW o \in Orders, order[o].live, ~OrderRescuable(o),
               Terms[o].asset_is_native \/ Token(o) # NATIVE_MINT
        PROVE  Terms[o].max_cancellation_premium <= RefundTokens(bank, o).ata[OrderAta(o)].lamports
    <3>1. bank.ata[OrderAta(o)].lamports >= Terms[o].max_cancellation_premium + PremiumKept(o)
      BY <1>3, <2>1 DEF Premiums, PremiumKeptAt
    <3>2. PremiumKept(o) \in Nat
      <4>1. order[o] \in OrderState
        BY <1>3 DEF Inv, TypeInv, TypeOK
      <4> QED BY <4>1 DEF PremiumKept, OrderState
    <3>3. /\ bank.ata[OrderAta(o)].lamports \in Nat /\ Terms[o].max_cancellation_premium \in Nat
          /\ Sound(bank, Owners)
      <4>1. Terms[o].max_cancellation_premium \in Nat
        BY TermsAssumption, WidthsAssumption DEF TermsSet, U64
      <4> QED BY <1>3, <4>1, OrderFact, SoundFact, BankParts DEF Inv
    <3>4. bank.ata[OrderAta(o)].lamports >= Terms[o].max_cancellation_premium
      BY <3>1, <3>2, <3>3
    <3>5. RefundTokens(bank, o).ata[OrderAta(o)].lamports = bank.ata[OrderAta(o)].lamports
      <4>1. CASE Terms[o].asset_is_native
        BY <4>1 DEF RefundTokens
      <4>2. CASE ~Terms[o].asset_is_native
        BY <2>1, <3>3, <4>2, RefundLamports
      <4> QED BY <4>1, <4>2
    <3> QED BY <3>3, <3>4, <3>5
  <2> QED BY <2>1 DEF PremiumCovered
<1> QED BY <1>1, <1>2, <1>3, ReservesInvariant, PTL DEF Spec

-----------------------------------------------------------------------------
\* What a closed account leaves behind.

\* Without outside transfers every open token account of the program is that of
\* the token of a live account, and only live accounts have lamports.
AccountLive(x) == IF x \in Orders THEN order[x].live ELSE escrow[x].live
AccountToken(x) == IF x \in Orders THEN Token(x) ELSE Token(x.order)

CleanAt(x) ==
  /\ ~AccountLive(x) => bank.sol[x] = 0
  /\ \A m \in Mints : bank.ata[Ata(x, m)].live => AccountLive(x) /\ m = AccountToken(x)

Clean == Outsiders = {} => \A x \in Accounts : CleanAt(x)

\* The two kinds of accounts.
LEMMA AccountParts ==
  /\ \A o \in Orders : AccountLive(o) = order[o].live /\ AccountToken(o) = Token(o)
  /\ \A o \in Orders : AccountLive(o)' = order'[o].live
  /\ \A k \in EscrowKeys : AccountLive(k) = escrow[k].live /\ AccountToken(k) = Token(k.order)
  /\ \A k \in EscrowKeys : AccountLive(k)' = escrow'[k].live
BY Disjoint DEF AccountLive, AccountToken

\* An account whose lamports and token accounts a step leaves alone, and which
\* it does not close, stays clean.
LEMMA CleanLeft ==
  ASSUME NEW x \in Accounts, CleanAt(x), AccountLive(x)' = AccountLive(x),
         bank'.sol[x] = bank.sol[x],
         \A m \in Mints : bank'.ata[Ata(x, m)] = bank.ata[Ata(x, m)]
  PROVE  CleanAt(x)'
<1>1. ~AccountLive(x)' => bank'.sol[x] = 0
  BY DEF CleanAt
<1>2. ASSUME NEW m \in Mints, bank'.ata[Ata(x, m)].live
      PROVE  AccountLive(x)' /\ m = AccountToken(x)
  BY <1>2 DEF CleanAt
<1>3. AccountToken(x)' = AccountToken(x)
  BY DEF AccountToken, Token
<1> QED BY <1>1, <1>2, <1>3 DEF CleanAt

\* A step that writes only accounts in S and touches only their token accounts and
\* those of users needs a look at S.
LEMMA CleanStep ==
  ASSUME TypeInv, Clean, NEW S, NEW Q, SolKept(S), Touches(Q),
         \A x \in Accounts \ S : AccountLive(x)' = AccountLive(x),
         \A x \in Accounts \ S, m \in Mints : Ata(x, m) \notin Q,
         Outsiders = {} => \A x \in Accounts \cap S : CleanAt(x)'
  PROVE  Clean'
<1>1. ASSUME Outsiders = {}, NEW x \in Accounts, x \notin S
      PROVE  CleanAt(x)'
  <2>1. CleanAt(x) /\ bank'.sol[x] = bank.sol[x]
    BY <1>1 DEF Clean, SolKept
  <2>2. \A m \in Mints : Ata(x, m) \in Atas(Owners)
    BY AccountFact DEF Ata, Atas
  <2>3. \A m \in Mints : bank'.ata[Ata(x, m)] = bank.ata[Ata(x, m)]
    BY <1>1, <2>2 DEF Touches
  <2> QED BY <1>1, <2>1, <2>3, CleanLeft
<1> QED BY <1>1 DEF Clean

\* The account that a step opens is clean: only the token account of its token is
\* touched.
LEMMA CleanOpened ==
  ASSUME TypeInv, NEW x \in Accounts, CleanAt(x), AccountLive(x)',
         NEW Q, Touches(Q), \A m \in Mints \ {AccountToken(x)} : Ata(x, m) \notin Q
  PROVE  CleanAt(x)'
<1>1. \A m \in Mints : Ata(x, m) \in Atas(Owners)
  BY AccountFact DEF Ata, Atas
<1>2. ASSUME NEW m \in Mints, bank'.ata[Ata(x, m)].live
      PROVE  m = AccountToken(x)
  <2>1. ASSUME m # AccountToken(x) PROVE FALSE
    <3>1. bank'.ata[Ata(x, m)] = bank.ata[Ata(x, m)]
      BY <1>1, <2>1 DEF Touches
    <3> QED BY <1>2, <2>1, <3>1 DEF CleanAt
  <2> QED BY <2>1
<1>3. AccountToken(x)' = AccountToken(x)
  BY DEF AccountToken, Token
<1> QED BY <1>2, <1>3 DEF CleanAt

\* So is the account that a step closes together with that token account.
LEMMA CleanClosed ==
  ASSUME TypeInv, NEW x \in Accounts, CleanAt(x), bank'.sol[x] = 0,
         bank'.ata[Ata(x, AccountToken(x))] = NoAta,
         NEW Q, Touches(Q), \A m \in Mints \ {AccountToken(x)} : Ata(x, m) \notin Q
  PROVE  CleanAt(x)'
<1>1. \A m \in Mints : Ata(x, m) \in Atas(Owners)
  BY AccountFact DEF Ata, Atas
<1>2. ASSUME NEW m \in Mints, bank'.ata[Ata(x, m)].live
      PROVE  FALSE
  <2>1. m # AccountToken(x)
    BY <1>2 DEF NoAta
  <2>2. bank'.ata[Ata(x, m)] = bank.ata[Ata(x, m)]
    BY <1>1, <2>1 DEF Touches
  <2> QED BY <1>2, <2>1, <2>2 DEF CleanAt
<1> QED BY <1>2 DEF CleanAt

\* What create opens.
LEMMA CreateClean ==
  ASSUME TypeInv, Clean, NEW o \in Orders, Create(o)
  PROVE  Clean'
<1> DEFINE Q == {OrderAta(o), AtaOf(Terms[o].creator, o)}
<1>1. Touches(Q) /\ SolKept({o}) /\ o \in Accounts
  BY CreateTouches, CreateEffect, AccountFact
<1>2. escrow' = escrow /\ order'[o].live /\ \A p \in Orders \ {o} : order'[p] = order[p]
  BY DEF Create, TypeInv, TypeOK
<1>3. \A x \in Accounts \ {o} : AccountLive(x)' = AccountLive(x)
  BY <1>2, AccountParts DEF Accounts
<1>4. AccountLive(o)' /\ AccountToken(o) = Token(o)
  BY <1>2, AccountParts
<1>5. \A x \in Accounts, m \in Mints : (x # o \/ m # Token(o)) => Ata(x, m) \notin Q
  BY OrderFact, AccountFact DEF Ata, OrderAta, AtaOf
<1> HIDE DEF Q
<1>6. Outsiders = {} => CleanAt(o)'
  BY <1>1, <1>4, <1>5, CleanOpened DEF Clean
<1> QED BY <1>1, <1>3, <1>5, <1>6, CleanStep

\* What create_escrow opens, and with the last fill closes.
LEMMA CreateEscrowClean ==
  ASSUME TypeInv, Clean, NEW k \in EscrowKeys, NEW proof \in Proofs(k.order),
         CreateEscrow(k, proof),
         NEW o, o = k.order, NEW n, n = AmountToTransfer(o, k.amount),
         NEW a, a = OrderAta(o), NEW b, b = EscrowAta(k)
  PROVE  Clean'
<1>1. Touches({a, b})
  BY CreateEscrowTouches
<1>2. /\ SolKept({o, k}) /\ bank'.sol[k] = bank.sol[k] + RENT_ESCROW
      /\ LastFill(o, k.amount) => bank'.sol[o] = 0 /\ bank'.ata[a] = NoAta
      /\ ~LastFill(o, k.amount) =>
           /\ bank'.sol[o] = bank.sol[o]
           /\ bank'.ata[a].lamports = bank.ata[a].lamports - TokenLamports(a, n)
  BY CreateEscrowEffect
<1>3. /\ o \in Orders /\ o \in Accounts /\ k \in Accounts /\ o # k
      /\ order[o] \in OrderState /\ order[o].live
  BY EscrowKeyFact, AccountFact, Disjoint DEF CreateEscrow, TypeInv, TypeOK
<1>4. /\ \A p \in Orders \ {o} : order'[p] = order[p]
      /\ \A j \in EscrowKeys \ {k} : escrow'[j] = escrow[j]
      /\ escrow'[k].live
      /\ order'[o] = IF LastFill(o, k.amount) THEN NoOrder
                     ELSE [order[o] EXCEPT !.remaining_amount = @ - k.amount]
  BY <1>3 DEF CreateEscrow, TypeInv, TypeOK
<1>5. \A x \in Accounts \ {o, k} : AccountLive(x)' = AccountLive(x)
  BY <1>4, AccountParts DEF Accounts
<1>6. \A x \in Accounts, m \in Mints :
        (/\ x # o \/ m # Token(o)
         /\ x # k \/ m # Token(o)) => Ata(x, m) \notin {a, b}
  BY OrderFact, EscrowKeyFact DEF Ata, OrderAta, EscrowAta
<1>7. ASSUME Outsiders = {} PROVE CleanAt(k)'
  <2>1. CleanAt(k) /\ AccountLive(k)' /\ AccountToken(k) = Token(o)
    BY <1>3, <1>4, <1>7, AccountParts DEF Clean
  <2>2. \A m \in Mints \ {AccountToken(k)} : Ata(k, m) \notin {a, b}
    BY <1>3, <1>6, <2>1
  <2> QED BY <1>1, <1>3, <2>1, <2>2, CleanOpened
<1>8. ASSUME Outsiders = {} PROVE CleanAt(o)'
  <2>1. CleanAt(o) /\ AccountToken(o) = Token(o) /\ Ata(o, Token(o)) = a
    BY <1>3, <1>8, AccountParts DEF Clean, OrderAta
  <2>2. \A m \in Mints \ {AccountToken(o)} : Ata(o, m) \notin {a, b}
    BY <1>3, <1>6, <2>1
  <2>3. CASE LastFill(o, k.amount)
    BY <1>1, <1>2, <1>3, <2>1, <2>2, <2>3, CleanClosed
  <2>4. CASE ~LastFill(o, k.amount)
    <3>1. AccountLive(o)'
      BY <1>3, <1>4, <2>4, AccountParts DEF OrderState
    <3> QED BY <1>1, <1>3, <2>1, <2>2, <3>1, CleanOpened
  <2> QED BY <2>3, <2>4
<1>9. \A x \in Accounts \ {o, k}, m \in Mints : Ata(x, m) \notin {a, b}
  BY <1>6
<1> QED BY <1>1, <1>2, <1>5, <1>7, <1>8, <1>9, CleanStep

\* A step that closes the account x and the token account of its token.
LEMMA ClosesClean ==
  ASSUME TypeInv, Clean, NEW x \in Accounts, NEW u \in Users, NEW p,
         SolKept({x}), bank'.sol[x] = 0,
         bank'.ata[Ata(x, AccountToken(x))] = NoAta,
         Touches({Ata(x, AccountToken(x)), Ata(u, p)}),
         \/ x \in Orders /\ DropOrder(x) /\ escrow' = escrow
         \/ x \in EscrowKeys /\ CloseEscrow(x) /\ order' = order
  PROVE  Clean'
<1> DEFINE Q == {Ata(x, AccountToken(x)), Ata(u, p)}
<1>1. \A y \in Accounts \ {x} : AccountLive(y)' = AccountLive(y)
  <2>1. CASE x \in Orders /\ DropOrder(x) /\ escrow' = escrow
    <3>1. \A o \in Orders \ {x} : order'[o] = order[o]
      BY <2>1 DEF DropOrder, TypeInv, TypeOK
    <3> QED BY <2>1, <3>1, AccountParts DEF Accounts
  <2>2. CASE x \in EscrowKeys /\ CloseEscrow(x) /\ order' = order
    <3>1. \A j \in EscrowKeys \ {x} : escrow'[j] = escrow[j]
      BY <2>2 DEF CloseEscrow, TypeInv, TypeOK
    <3> QED BY <2>2, <3>1, AccountParts DEF Accounts
  <2> QED BY <2>1, <2>2
<1>2. \A y \in Accounts, m \in Mints : (y # x \/ m # AccountToken(x)) => Ata(y, m) \notin Q
  BY AccountFact DEF Ata
<1>3. Touches(Q)
  OBVIOUS
<1> HIDE DEF Q
<1>4. Outsiders = {} => CleanAt(x)'
  <2>1. \A m \in Mints \ {AccountToken(x)} : Ata(x, m) \notin Q
    BY <1>2
  <2>2. Outsiders = {} => CleanAt(x)
    BY DEF Clean
  <2> QED BY <1>3, <2>1, <2>2, CleanClosed
<1> QED BY <1>1, <1>2, <1>3, <1>4, CleanStep

\* A rescue takes tokens from an open token account and opens none.
LEMMA RescueClean ==
  ASSUME TypeInv, Clean, NEW x \in Accounts, NEW u \in Users, NEW m \in Mints,
         NEW n \in 0..bank.ata[Ata(x, m)].amount, Rescue(x, u, m, n)
  PROVE  Clean'
<1> DEFINE Q == {Ata(x, m), Ata(u, m)}
<1>1. Touches(Q) /\ SolKept({})
  <2>1. n \in Nat
    OBVIOUS
  <2> QED BY <2>1, RescueTouches, RescueEffect DEF Accounts
<1>2. order' = order /\ escrow' = escrow /\ bank.ata[Ata(x, m)].live
  BY DEF Rescue
<1>3. \A y \in Accounts : AccountLive(y)' = AccountLive(y)
  BY <1>2 DEF AccountLive
<1>4. \A y \in Accounts, p \in Mints : (y # x \/ p # m) => Ata(y, p) \notin Q
  BY AccountFact DEF Ata
<1> HIDE DEF Q
<1>5. ASSUME Outsiders = {} PROVE CleanAt(x)'
  <2>1. CleanAt(x) /\ AccountLive(x) /\ m = AccountToken(x)
    BY <1>2, <1>5 DEF Clean, CleanAt
  <2>2. \A p \in Mints \ {AccountToken(x)} : Ata(x, p) \notin Q
    BY <1>4, <2>1
  <2> QED BY <1>1, <1>3, <2>1, <2>2, CleanOpened
<1>6. SolKept({x})
  BY <1>1 DEF SolKept
<1> QED BY <1>1, <1>3, <1>4, <1>5, <1>6, CleanStep

\* Every step keeps the accounts clean.
LEMMA NextClean ==
  ASSUME TypeInv, Clean, [Next]_vars
  PROVE  Clean'
<1>1. CASE Quiet
  <2>1. ASSUME Outsiders = {}, NEW x \in Accounts PROVE CleanAt(x)'
    <3>1. CleanAt(x) /\ bank'.sol[x] = bank.sol[x]
      BY <1>1, <2>1 DEF Clean, Quiet, SolKept
    <3>2. \A m \in Mints : Ata(x, m) \in Accounts \X Mints
      BY DEF Ata
    <3>3. \A m \in Mints : bank'.ata[Ata(x, m)] = bank.ata[Ata(x, m)]
      BY <1>1, <2>1, <3>2 DEF Quiet
    <3>4. AccountLive(x)' = AccountLive(x)
      BY <1>1 DEF Quiet, AccountLive
    <3> QED BY <3>1, <3>3, <3>4, CleanLeft
  <2> QED BY <2>1 DEF Clean
<1>2. CASE \E o \in Orders : Create(o) \/ CancelOrder(o)
  <2>1. PICK o \in Orders : Create(o) \/ CancelOrder(o)
    BY <1>2
  <2>2. CASE CancelOrder(o)
    <3>1. /\ SolKept({o}) /\ bank'.sol[o] = 0 /\ bank'.ata[OrderAta(o)] = NoAta
          /\ Touches({OrderAta(o), AtaOf(Terms[o].creator, o)})
      BY <2>2, CancelOrderEffect, CancelOrderTouches
    <3>2. /\ DropOrder(o) /\ escrow' = escrow /\ o \in Accounts /\ Terms[o].creator \in Users
          /\ OrderAta(o) = Ata(o, AccountToken(o))
      BY <2>2, AccountFact, AccountParts, OrderFact DEF CancelOrder, OrderAta
    <3> QED BY <3>1, <3>2, ClosesClean DEF AtaOf
  <2> QED BY <2>1, <2>2, CreateClean
<1>3. CASE \E k \in EscrowKeys : \E proof \in Proofs(k.order) : CreateEscrow(k, proof)
  BY <1>3, CreateEscrowClean
<1>4. CASE \E k \in EscrowKeys, s \in Secrets, u \in Users : EndsWithdrawn(k, s, u)
  <2>1. PICK k \in EscrowKeys, s \in Secrets, u \in Users : EndsWithdrawn(k, s, u)
    BY <1>4
  <2>2. WithdrawWith(k, s, u)
    BY <2>1 DEF EndsWithdrawn
  <2>3. /\ SolKept({k}) /\ bank'.sol[k] = 0 /\ bank'.ata[EscrowAta(k)] = NoAta
        /\ Touches({EscrowAta(k), AtaOf(k.taker, k.order)})
    BY <2>2, WithdrawEffect, WithdrawTouches
  <2>4. /\ CloseEscrow(k) /\ order' = order /\ k \in Accounts /\ k.taker \in Users
        /\ EscrowAta(k) = Ata(k, AccountToken(k))
    BY <2>2, AccountFact, AccountParts, EscrowKeyFact DEF WithdrawWith, EscrowAta
  <2> QED BY <2>3, <2>4, ClosesClean DEF AtaOf
<1>5. CASE \E k \in EscrowKeys, u \in Users : EndsCancelled(k, u)
  <2>1. PICK k \in EscrowKeys, u \in Users : EndsCancelled(k, u)
    BY <1>5
  <2>2. CancelTo(k, u)
    BY <2>1 DEF EndsCancelled
  <2>3. /\ SolKept({k}) /\ bank'.sol[k] = 0 /\ bank'.ata[EscrowAta(k)] = NoAta
        /\ Touches({EscrowAta(k), AtaOf(Maker(k), k.order)})
    BY <2>2, CancelEffect, CancelTouches
  <2>4. /\ CloseEscrow(k) /\ order' = order /\ k \in Accounts /\ Maker(k) \in Users
        /\ EscrowAta(k) = Ata(k, AccountToken(k))
    BY <2>2, AccountFact, AccountParts, EscrowKeyFact DEF CancelTo, EscrowAta
  <2> QED BY <2>3, <2>4, ClosesClean DEF AtaOf
<1>6. CASE \E o \in Orders, r \in Users, limit \in RewardLimits : CancelOrderByResolver(o, r, limit)
  <2>1. PICK o \in Orders, r \in Users, limit \in RewardLimits : CancelOrderByResolver(o, r, limit)
    BY <1>6
  <2>2. /\ SolKept({o}) /\ bank'.sol[o] = 0 /\ bank'.ata[OrderAta(o)] = NoAta
        /\ Touches({OrderAta(o), AtaOf(Terms[o].creator, o)})
    BY <2>1, ResolverCancelEffect, ResolverCancelTouches
  <2>3. /\ DropOrder(o) /\ escrow' = escrow /\ o \in Accounts /\ Terms[o].creator \in Users
        /\ OrderAta(o) = Ata(o, AccountToken(o))
    BY <2>1, AccountFact, AccountParts, OrderFact DEF CancelOrderByResolver, OrderAta
  <2> QED BY <2>2, <2>3, ClosesClean DEF AtaOf
<1>7. CASE \E o \in Orders, r \in Users, m \in Mints : \E n \in 0..bank.ata[Ata(o, m)].amount :
             RescueFundsForOrder(o, r, m, n)
  BY <1>7, RescueClean, AccountFact DEF RescueFundsForOrder
<1>8. CASE \E k \in EscrowKeys, m \in Mints : \E n \in 0..bank.ata[Ata(k, m)].amount :
             RescueFundsForEscrow(k, m, n)
  BY <1>8, RescueClean, AccountFact, EscrowKeyFact DEF RescueFundsForEscrow
<1> QED BY <1>1, <1>2, <1>3, <1>4, <1>5, <1>6, <1>7, <1>8, Steps

\* Without outside transfers a closed order or escrow leaves no lamports at its
\* address and no token account: each end closes the token account of the token,
\* and no instruction opens another (create, create_escrow, withdraw, cancel_escrow,
\* cancel_order, cancel_order_by_resolver, the rescues).
THEOREM NothingStrandedInvariant == Spec => []NothingStranded
<1>1. ASSUME Init PROVE Clean
  <2>1. ASSUME NEW x \in Accounts PROVE CleanAt(x)
    <3>1. x \in Owners /\ x \notin Users
      BY AccountFact
    <3>2. bank.sol[x] = 0
      BY <1>1, <3>1 DEF Init
    <3>3. ASSUME NEW m \in Mints PROVE ~bank.ata[Ata(x, m)].live
      <4>1. Ata(x, m) \in Owners \X Mints /\ Ata(x, m)[1] = x
        BY <3>1 DEF Ata
      <4>2. bank.ata[Ata(x, m)] = NoAta
        BY <1>1, <3>1, <4>1 DEF Init
      <4> QED BY <4>2 DEF NoAta
    <3> QED BY <3>2, <3>3 DEF CleanAt
  <2> QED BY <2>1 DEF Clean
<1>2. TypeInv /\ Clean /\ [Next]_vars => Clean'
  BY NextClean
<1>3. Clean => NothingStranded
  BY AccountFact, AccountParts DEF Clean, CleanAt, NothingStranded
<1> QED BY <1>1, <1>2, <1>3, TypesInvariant, PTL DEF Spec

-----------------------------------------------------------------------------

\* The program never compares the two cancellation times.  With the public one
\* before the taker's, another resolver can cancel an escrow that can still be
\* withdrawn from; where this matters, the theorem assumes that makers set them in
\* order.
StagesOrdered ==
  \A o \in Orders :
    Terms[o].timelocks["SrcCancellation"] <= Terms[o].timelocks["SrcPublicCancellation"]

-----------------------------------------------------------------------------
\* Which steps end an escrow and an order.

\* Only the four instructions of an escrow end it.
LEMMA EscrowEndsBy ==
  ASSUME TypeInv, [Next]_vars, NEW k \in EscrowKeys, escrow[k].live, ~escrow'[k].live
  PROVE  \/ \E s \in Secrets, u \in Users : EndsWithdrawn(k, s, u)
         \/ \E u \in Users : EndsCancelled(k, u)
<1>1. escrow' # escrow
  OBVIOUS
<1>2. ASSUME NEW j \in EscrowKeys, NEW proof \in Proofs(j.order), CreateEscrow(j, proof)
      PROVE  FALSE
  <2>1. escrow' = [escrow EXCEPT ![j] = [live       |-> TRUE,
                                          timelocks  |-> EscrowTimelocks(j.order),
                                          dst_amount |-> FillDst(j)]]
    BY <1>2 DEF CreateEscrow
  <2> QED BY <2>1 DEF TypeInv, TypeOK
<1>3. ASSUME NEW j \in EscrowKeys, CloseEscrow(j) PROVE j = k
  BY <1>3 DEF CloseEscrow, TypeInv, TypeOK
<1>4. ~Quiet
  BY <1>1 DEF Quiet
<1>5. ~\E o \in Orders : Create(o) \/ CancelOrder(o)
  BY <1>1 DEF Create, CancelOrder
<1>6. ~\E o \in Orders, r \in Users, limit \in RewardLimits : CancelOrderByResolver(o, r, limit)
  BY <1>1 DEF CancelOrderByResolver
<1>7. ~\E o \in Orders, r \in Users, m \in Mints : \E n \in 0..bank.ata[Ata(o, m)].amount :
         RescueFundsForOrder(o, r, m, n)
  BY <1>1 DEF RescueFundsForOrder, Rescue
<1>8. ~\E j \in EscrowKeys, m \in Mints : \E n \in 0..bank.ata[Ata(j, m)].amount :
         RescueFundsForEscrow(j, m, n)
  BY <1>1 DEF RescueFundsForEscrow, Rescue
<1>9. CASE \E j \in EscrowKeys, s \in Secrets, u \in Users : EndsWithdrawn(j, s, u)
  <2>1. PICK j \in EscrowKeys, s \in Secrets, u \in Users : EndsWithdrawn(j, s, u)
    BY <1>9
  <2>2. j = k
    BY <1>3, <2>1 DEF EndsWithdrawn, WithdrawWith
  <2> QED BY <2>1, <2>2
<1>10. CASE \E j \in EscrowKeys, u \in Users : EndsCancelled(j, u)
  <2>1. PICK j \in EscrowKeys, u \in Users : EndsCancelled(j, u)
    BY <1>10
  <2>2. j = k
    BY <1>3, <2>1 DEF EndsCancelled, CancelTo
  <2> QED BY <2>1, <2>2
<1> QED BY <1>2, <1>4, <1>5, <1>6, <1>7, <1>8, <1>9, <1>10, Steps

\* Only its two cancellations and its last fill end an order.
LEMMA OrderEndsBy ==
  ASSUME TypeInv, [Next]_vars, NEW o \in Orders, order[o].live, ~order'[o].live
  PROVE  \/ CancelOrder(o)
         \/ \E r \in Users, limit \in RewardLimits : CancelOrderByResolver(o, r, limit)
         \/ \E k \in EscrowKeys : \E proof \in Proofs(k.order) :
              CreateEscrow(k, proof) /\ k.order = o /\ LastFill(o, k.amount)
<1>1. order' # order
  OBVIOUS
<1>2. ASSUME NEW p \in Orders, Create(p) PROVE FALSE
  <2>1. order'[p].live /\ \A q \in Orders \ {p} : order'[q] = order[q]
    BY <1>2 DEF Create, TypeInv, TypeOK
  <2> QED BY <2>1
<1>3. ASSUME NEW p \in Orders, DropOrder(p) PROVE p = o
  BY <1>3 DEF DropOrder, TypeInv, TypeOK
<1>4. CASE \E p \in Orders : Create(p) \/ CancelOrder(p)
  <2>1. PICK p \in Orders : CancelOrder(p)
    BY <1>2, <1>4
  <2>2. p = o
    BY <1>3, <2>1 DEF CancelOrder
  <2> QED BY <2>1, <2>2
<1>5. CASE \E p \in Orders, r \in Users, limit \in RewardLimits : CancelOrderByResolver(p, r, limit)
  <2>1. PICK p \in Orders, r \in Users, limit \in RewardLimits : CancelOrderByResolver(p, r, limit)
    BY <1>5
  <2>2. p = o
    BY <1>3, <2>1 DEF CancelOrderByResolver
  <2> QED BY <2>1, <2>2
<1>6. CASE \E k \in EscrowKeys : \E proof \in Proofs(k.order) : CreateEscrow(k, proof)
  <2>1. PICK k \in EscrowKeys : \E proof \in Proofs(k.order) : CreateEscrow(k, proof)
    BY <1>6
  <2>2. PICK proof \in Proofs(k.order) : CreateEscrow(k, proof)
    BY <2>1
  <2>3. /\ k.order \in Orders
        /\ order' = [order EXCEPT ![k.order] =
             IF LastFill(k.order, k.amount) THEN NoOrder
             ELSE [order[k.order] EXCEPT !.remaining_amount = @ - k.amount]]
    BY <2>2, EscrowKeyFact DEF CreateEscrow
  <2>4. k.order = o
    BY <2>3 DEF TypeInv, TypeOK
  <2>5. LastFill(o, k.amount)
    BY <2>3, <2>4 DEF TypeInv, TypeOK, OrderState
  <2> QED BY <2>2, <2>4, <2>5
<1>7. ~Quiet
  BY <1>1 DEF Quiet
<1>8. /\ ~\E k \in EscrowKeys, s \in Secrets, u \in Users : EndsWithdrawn(k, s, u)
      /\ ~\E k \in EscrowKeys, u \in Users : EndsCancelled(k, u)
  BY <1>1 DEF EndsWithdrawn, WithdrawWith, EndsCancelled, CancelTo
<1>9. ~\E p \in Orders, r \in Users, m \in Mints : \E n \in 0..bank.ata[Ata(p, m)].amount :
         RescueFundsForOrder(p, r, m, n)
  BY <1>1 DEF RescueFundsForOrder, Rescue
<1>10. ~\E k \in EscrowKeys, m \in Mints : \E n \in 0..bank.ata[Ata(k, m)].amount :
          RescueFundsForEscrow(k, m, n)
  BY <1>1 DEF RescueFundsForEscrow, Rescue
<1> QED BY <1>4, <1>5, <1>6, <1>7, <1>8, <1>9, <1>10, Steps

-----------------------------------------------------------------------------
\* An escrow's ends.

\* Users' token accounts are accounts of the bank.
LEMMA UserAtaFact ==
  ASSUME NEW u \in Users, NEW o \in Orders
  PROVE  AtaOf(u, o) \in Atas(Owners)
BY OrderFact, Disjoint DEF AtaOf, Ata, Atas

\* The bank after a withdrawal is the one that its bank operator makes.
LEMMA WithdrawnBank ==
  ASSUME NEW k, NEW s, NEW u, WithdrawWith(k, s, u)
  PROVE  WithdrawBank(k, u).ok /\ bank' = WithdrawBank(k, u)
BY DEF WithdrawWith, Commit

\* So is the bank after a cancellation.
LEMMA CancelledBank ==
  ASSUME NEW k, NEW u, CancelTo(k, u)
  PROVE  CancelBank(k, u).ok /\ bank' = CancelBank(k, u)
BY DEF CancelTo, Commit

\* What the accounts of a funded escrow hold.
LEMMA EscrowHolds ==
  ASSUME Inv, Reserves, NEW k \in EscrowKeys, escrow[k].live, k \notin late, ~EscrowRescuable(k),
         NEW a, a = EscrowAta(k)
  PROVE  /\ bank.ata[a].live
         /\ bank.ata[a].amount \in Nat /\ bank.ata[a].amount >= k.amount
         /\ bank.ata[a].lamports \in Nat
         /\ bank.ata[a].lamports >= RENT_ATA + TokenLamports(a, bank.ata[a].amount)
         /\ bank.sol[k] \in Nat /\ bank.sol[k] >= RENT_ESCROW
         /\ TermsChecked(k.order)
<1>1. bank.ata[a].live /\ bank.ata[a].amount >= k.amount
  BY DEF Inv, EscrowFunded
<1>2. bank.sol[k] >= RENT_ESCROW /\ TermsChecked(k.order)
  BY DEF Reserves, EscrowReserved
<1>3. Sound(bank, Owners) /\ a \in Atas(Owners) /\ k \in Owners
  BY SoundFact, EscrowKeyFact, AccountFact DEF Inv
<1>4. /\ bank.ata[a].amount \in Nat /\ bank.ata[a].lamports \in Nat /\ bank.sol[k] \in Nat
      /\ bank.ata[a].lamports >= RENT_ATA + TokenLamports(a, bank.ata[a].amount)
  BY <1>1, <1>3, BankParts
<1> QED BY <1>1, <1>2, <1>4

\* A withdrawal pays the taker against the secret, before the cancellation time.
LEMMA WithdrawnSettles ==
  ASSUME Inv, Reserves, NEW k \in EscrowKeys, escrow[k].live, k \notin late,
         ~EscrowRescuable(k), NEW s \in Secrets, NEW u \in Users, EndsWithdrawn(k, s, u)
  PROVE  PaidToTaker(k)
<1> DEFINE a == EscrowAta(k)
           b == AtaOf(k.taker, k.order)
           rest == bank.sol[k] + (bank.ata[a].lamports - TokenLamports(a, bank.ata[a].amount))
<1>1. WithdrawWith(k, s, u) /\ Before(escrow[k].timelocks, "SrcCancellation", now)
  BY DEF EndsWithdrawn
<1>2. s \in revealed /\ Keccak[s] = k.hashlock
  BY <1>1 DEF WithdrawWith, HashlockOpened
<1>3. /\ a = EscrowAta(k) /\ b = AtaOf(k.taker, k.order)
      /\ rest = bank.sol[k] + (bank.ata[a].lamports - TokenLamports(a, bank.ata[a].amount))
  OBVIOUS
<1> HIDE DEF a, b, rest
<1>4. Sound(bank, Owners) /\ b \in Atas(Owners) /\ k.amount \in Nat
  BY <1>3, SoundFact, EscrowKeyFact, UserAtaFact DEF Inv
<1>5. bank.ata[a].amount \in Nat /\ bank.ata[a].amount >= k.amount
  BY <1>3, EscrowHolds
<1>6. bank'.ata[b].amount = bank.ata[b].amount + bank.ata[a].amount
  BY <1>1, <1>3, <1>4, WithdrawnBank, WithdrawBankEffect
<1>7. bank.ata[b].amount \in Nat
  BY <1>4, BankParts
<1>8. TokenGain(k.taker, Token(k.order)) = bank'.ata[b].amount - bank.ata[b].amount
  BY <1>3 DEF TokenGain, AtaOf
<1>9. TokenGain(k.taker, Token(k.order)) >= k.amount
  BY <1>4, <1>5, <1>6, <1>7, <1>8
<1> QED BY <1>1, <1>2, <1>9 DEF PaidToTaker

\* A cancellation returns the escrow's amount to its maker, as lamports or tokens.
LEMMA CancelledPays ==
  ASSUME Inv, Reserves, NEW k \in EscrowKeys, escrow[k].live, k \notin late,
         ~EscrowRescuable(k), NEW u \in Users, CancelTo(k, u)
  PROVE  IF Terms[k.order].asset_is_native THEN SolGain(Maker(k)) >= k.amount
         ELSE TokenGain(Maker(k), Token(k.order)) >= k.amount
<1> DEFINE a == EscrowAta(k)
           b == AtaOf(Maker(k), k.order)
<1>1. a = EscrowAta(k) /\ b = AtaOf(Maker(k), k.order)
  OBVIOUS
<1> HIDE DEF a, b
<1>2. /\ Sound(bank, Owners) /\ b \in Atas(Owners) /\ k.amount \in Nat
      /\ Maker(k) \in Users /\ Maker(k) \in Owners
  BY <1>1, SoundFact, EscrowKeyFact, UserAtaFact, Disjoint DEF Inv
<1>3. bank.ata[a].amount \in Nat /\ bank.ata[a].amount >= k.amount
  BY <1>1, EscrowHolds
<1>4. CASE Terms[k.order].asset_is_native
  <2>1. bank'.sol[Maker(k)] >= bank.sol[Maker(k)] + k.amount
    BY <1>1, <1>2, <1>4, CancelledBank, CancelNativeEffect
  <2>2. bank.sol[Maker(k)] \in Nat /\ bank'.sol[Maker(k)] \in Nat
    <3>1. Sound(bank', Owners)
      BY CancelTouches DEF Inv, Touches
    <3> QED BY <1>2, <3>1, BankParts
  <2>3. SolGain(Maker(k)) >= k.amount
    BY <1>2, <2>1, <2>2 DEF SolGain
  <2> QED BY <1>4, <2>3
<1>5. CASE ~Terms[k.order].asset_is_native
  <2>1. bank'.ata[b].amount = bank.ata[b].amount + bank.ata[a].amount
    BY <1>1, <1>2, <1>5, CancelledBank, CancelTokensEffect
  <2>2. bank.ata[b].amount \in Nat
    BY <1>2, BankParts
  <2>3. TokenGain(Maker(k), Token(k.order)) = bank'.ata[b].amount - bank.ata[b].amount
    BY <1>1 DEF TokenGain, AtaOf
  <2>4. TokenGain(Maker(k), Token(k.order)) >= k.amount
    BY <1>2, <1>3, <2>1, <2>2, <2>3
  <2> QED BY <1>5, <2>4
<1> QED BY <1>4, <1>5

\* With the cancellation times in order, no cancellation comes before the first.
LEMMA CancelledInTime ==
  ASSUME StagesOrdered, Inv, Reserves, NEW k \in EscrowKeys, escrow[k].live,
         NEW u \in Users, EndsCancelled(k, u)
  PROVE  Reached(escrow[k].timelocks, "SrcCancellation", now)
<1> DEFINE tl == escrow[k].timelocks
<1>1. tl \in TimelockWords /\ now \in Nat /\ k.order \in Orders
  BY SoundFact, EscrowKeyFact DEF Inv, TypeInv, TypeOK, EscrowState
<1>2. tl["SrcCancellation"] <= tl["SrcPublicCancellation"]
  BY <1>1 DEF StagesOrdered, Reserves, EscrowReserved, TermsStages, Stages
<1>3. /\ tl["DeployedAt"] \in Nat /\ tl["SrcCancellation"] \in Nat
      /\ tl["SrcPublicCancellation"] \in Nat /\ MAX_U32 \in Nat
  BY <1>1, WidthsAssumption DEF TimelockWords, Stages, U32
<1>4. CancelOpen(k, "SrcCancellation") \/ CancelOpen(k, "SrcPublicCancellation")
  BY DEF EndsCancelled
<1> HIDE DEF tl
<1>5. Reached(tl, "SrcPublicCancellation", now) => Reached(tl, "SrcCancellation", now)
  BY <1>1, <1>2, <1>3 DEF Reached, StageFits, StageTime
<1> QED BY <1>4, <1>5 DEF CancelOpen, tl

\* A funded escrow ends paid to its taker against the secret, before the
\* cancellation time, or returned to its maker after it, and in no other way and
\* never short, whoever ends it and whatever came before (withdraw,
\* public_withdraw, cancel_escrow, public_cancel_escrow).
THEOREM EscrowsSettle ==
  ASSUME StagesOrdered
  PROVE  Spec => EscrowSettled
<1>1. ASSUME Inv, Reserves, Next, NEW k \in EscrowKeys,
             escrow[k].live, ~escrow'[k].live, k \notin late, ~EscrowRescuable(k)
      PROVE  PaidToTaker(k) \/ ReturnedToMaker(k)
  <2>1. ASSUME NEW s \in Secrets, NEW u \in Users, EndsWithdrawn(k, s, u)
        PROVE  PaidToTaker(k)
    BY <1>1, <2>1, WithdrawnSettles
  <2>2. ASSUME NEW u \in Users, EndsCancelled(k, u)
        PROVE  ReturnedToMaker(k)
    <3>1. CancelTo(k, u)
      BY <2>2 DEF EndsCancelled
    <3> QED BY <1>1, <2>2, <3>1, CancelledPays, CancelledInTime DEF ReturnedToMaker
  <2> QED BY <1>1, <2>1, <2>2, EscrowEndsBy DEF Inv
<1>2. Inv /\ Reserves /\ [Next]_vars =>
        [\A k \in EscrowKeys :
           (escrow[k].live /\ ~escrow'[k].live /\ k \notin late /\ ~EscrowRescuable(k))
             => PaidToTaker(k) \/ ReturnedToMaker(k)]_vars
  BY <1>1
<1> QED BY <1>2, ReservesInvariant, PTL DEF Spec, EscrowSettled

-----------------------------------------------------------------------------
\* The lamports of an escrow.

\* DepositToResolver, for one escrow.
DepositPaid(k, u) ==
  IF u = k.taker THEN SolGain(u) >= RENT_ESCROW + RENT_ATA
  ELSE /\ SolGain(u) >= Terms[k.order].safety_deposit
       /\ SolGain(k.taker) >= RENT_ESCROW + RENT_ATA - Terms[k.order].safety_deposit

\* What is left after the payout covers both reserves, and is shared as it says.
LEMMA DepositShared ==
  ASSUME TypeInv, TypeInv', NEW k \in EscrowKeys, NEW u \in Users, NEW t, t = k.taker,
         NEW n, n = Terms[k.order].safety_deposit,
         NEW rest \in Int, rest >= RENT_ESCROW + RENT_ATA,
         u = t => bank'.sol[t] >= bank.sol[t] + rest,
         u # t => /\ bank'.sol[u] >= bank.sol[u] + n
                  /\ bank'.sol[t] >= bank.sol[t] + rest - n
  PROVE  DepositPaid(k, u)
<1>1. /\ t \in Owners /\ u \in Owners /\ n \in Nat
      /\ RENT_ESCROW \in Nat /\ RENT_ATA \in Nat
  BY EscrowKeyFact, OrderFact, Disjoint, EscrowSrcAssumption, LedgerAssumption
<1>2. /\ bank.sol[t] \in Nat /\ bank.sol[u] \in Nat
      /\ bank'.sol[t] \in Nat /\ bank'.sol[u] \in Nat
  BY <1>1 DEF TypeInv, TypeOK, Bank
<1>3. CASE u = t
  <2>1. SolGain(t) >= RENT_ESCROW + RENT_ATA
    BY <1>1, <1>2, <1>3 DEF SolGain
  <2> QED BY <1>3, <2>1 DEF DepositPaid
<1>4. CASE u # t
  <2>1. SolGain(u) >= n /\ SolGain(t) >= RENT_ESCROW + RENT_ATA - n
    BY <1>1, <1>2, <1>4 DEF SolGain
  <2> QED BY <1>4, <2>1 DEF DepositPaid
<1> QED BY <1>3, <1>4

\* It does after a withdrawal,
LEMMA WithdrawnDeposit ==
  ASSUME Inv, Reserves, TypeInv', NEW k \in EscrowKeys, escrow[k].live, k \notin late,
         ~EscrowRescuable(k), NEW s \in Secrets, NEW u \in Users, EndsWithdrawn(k, s, u)
  PROVE  DepositPaid(k, u)
<1> DEFINE a == EscrowAta(k)
           b == AtaOf(k.taker, k.order)
           t == k.taker
           n == Terms[k.order].safety_deposit
           rest == bank.sol[k] + (bank.ata[a].lamports - TokenLamports(a, bank.ata[a].amount))
<1>1. WithdrawWith(k, s, u) /\ (u = k.taker \/ u \in resolver_access)
  BY DEF EndsWithdrawn
<1>2. /\ a = EscrowAta(k) /\ b = AtaOf(k.taker, k.order) /\ t = k.taker
      /\ n = Terms[k.order].safety_deposit
      /\ rest = bank.sol[k] + (bank.ata[a].lamports - TokenLamports(a, bank.ata[a].amount))
  OBVIOUS
<1> HIDE DEF a, b, t, n, rest
<1>3. Sound(bank, Owners)
  BY SoundFact DEF Inv
<1>4. /\ u = t => bank'.sol[t] = bank.sol[t] + rest
      /\ u # t => /\ bank'.sol[u] = bank.sol[u] + n
                  /\ bank'.sol[t] = bank.sol[t] + rest - n
  BY <1>1, <1>2, <1>3, WithdrawnBank, WithdrawBankEffect
<1>5. /\ bank.ata[a].amount \in Nat /\ bank.ata[a].lamports \in Nat
      /\ bank.ata[a].lamports >= RENT_ATA + TokenLamports(a, bank.ata[a].amount)
      /\ bank.sol[k] \in Nat /\ bank.sol[k] >= RENT_ESCROW
  BY <1>2, EscrowHolds
<1>6. RENT_ESCROW \in Nat /\ RENT_ATA \in Nat /\ TokenLamports(a, bank.ata[a].amount) \in Nat
  BY <1>5, EscrowSrcAssumption, LedgerAssumption DEF TokenLamports
<1>7. rest \in Int /\ rest >= RENT_ESCROW + RENT_ATA
  BY <1>2, <1>5, <1>6
<1>8. /\ t \in Owners /\ u \in Owners /\ n \in Nat
  BY <1>2, EscrowKeyFact, OrderFact, Disjoint
<1>9. bank.sol[t] \in Nat /\ bank.sol[u] \in Nat
  BY <1>3, <1>8, BankParts
<1>10. /\ u = t => bank'.sol[t] >= bank.sol[t] + rest
       /\ u # t => /\ bank'.sol[u] >= bank.sol[u] + n
                   /\ bank'.sol[t] >= bank.sol[t] + rest - n
  BY <1>4, <1>7, <1>8, <1>9
<1> QED BY <1>1, <1>2, <1>7, <1>10, DepositShared DEF Inv

\* and after a cancellation, which pays a native asset out of these lamports.
LEMMA CancelledDeposit ==
  ASSUME Inv, Reserves, TypeInv', NEW k \in EscrowKeys, escrow[k].live, k \notin late,
         ~EscrowRescuable(k), NEW u \in Users, EndsCancelled(k, u)
  PROVE  DepositPaid(k, u)
<1> DEFINE a == EscrowAta(k)
           b == AtaOf(Maker(k), k.order)
           t == k.taker
           n == Terms[k.order].safety_deposit
           tokens == bank.sol[k] + (bank.ata[a].lamports - TokenLamports(a, bank.ata[a].amount))
           native == bank.sol[k] + bank.ata[a].lamports - k.amount
<1>1. CancelTo(k, u) /\ (u = k.taker \/ u \in resolver_access)
  BY DEF EndsCancelled
<1>2. /\ a = EscrowAta(k) /\ b = AtaOf(Maker(k), k.order) /\ t = k.taker
      /\ n = Terms[k.order].safety_deposit
      /\ tokens = bank.sol[k] + (bank.ata[a].lamports - TokenLamports(a, bank.ata[a].amount))
      /\ native = bank.sol[k] + bank.ata[a].lamports - k.amount
  OBVIOUS
<1>3. a[2] = Token(k.order) /\ k.amount \in Nat
  BY EscrowKeyFact
<1> HIDE DEF a, b, t, n, tokens, native
<1>4. Sound(bank, Owners)
  BY SoundFact DEF Inv
<1>5. /\ bank.ata[a].amount \in Nat /\ bank.ata[a].lamports \in Nat
      /\ bank.ata[a].amount >= k.amount
      /\ bank.ata[a].lamports >= RENT_ATA + TokenLamports(a, bank.ata[a].amount)
      /\ bank.sol[k] \in Nat /\ bank.sol[k] >= RENT_ESCROW
      /\ TermsChecked(k.order)
  BY <1>2, EscrowHolds
<1>6. RENT_ESCROW \in Nat /\ RENT_ATA \in Nat /\ TokenLamports(a, bank.ata[a].amount) \in Nat
  BY <1>5, EscrowSrcAssumption, LedgerAssumption DEF TokenLamports
<1>7. t \in Owners /\ u \in Owners /\ n \in Nat
  BY <1>2, EscrowKeyFact, OrderFact, Disjoint
<1>8. bank.sol[t] \in Nat /\ bank.sol[u] \in Nat
  BY <1>4, <1>7, BankParts
<1>9. CASE Terms[k.order].asset_is_native
  <2>1. TokenLamports(a, bank.ata[a].amount) = bank.ata[a].amount
    BY <1>3, <1>5, <1>9 DEF TermsChecked, TokenLamports
  <2>2. native \in Int /\ native >= RENT_ESCROW + RENT_ATA
    BY <1>2, <1>3, <1>5, <1>6, <2>1
  <2>3. /\ u = t => bank'.sol[t] >= bank.sol[t] + native
        /\ u # t => /\ bank'.sol[u] >= bank.sol[u] + n
                    /\ bank'.sol[t] >= bank.sol[t] + native - n
    BY <1>1, <1>2, <1>4, <1>9, CancelledBank, CancelNativeEffect
  <2> QED BY <1>1, <1>2, <2>2, <2>3, DepositShared DEF Inv
<1>10. CASE ~Terms[k.order].asset_is_native
  <2>1. tokens \in Int /\ tokens >= RENT_ESCROW + RENT_ATA
    BY <1>2, <1>5, <1>6
  <2>2. /\ u = t => bank'.sol[t] = bank.sol[t] + tokens
        /\ u # t => /\ bank'.sol[u] = bank.sol[u] + n
                    /\ bank'.sol[t] = bank.sol[t] + tokens - n
    BY <1>1, <1>2, <1>4, <1>10, CancelledBank, CancelTokensEffect
  <2>3. /\ u = t => bank'.sol[t] >= bank.sol[t] + tokens
        /\ u # t => /\ bank'.sol[u] >= bank.sol[u] + n
                    /\ bank'.sol[t] >= bank.sol[t] + tokens - n
    BY <1>7, <1>8, <2>1, <2>2
  <2> QED BY <1>1, <1>2, <2>1, <2>3, DepositShared DEF Inv
<1> QED BY <1>9, <1>10

\* An escrow that u's signature ends.
LEMMA EndedBySigner ==
  ASSUME NEW k \in EscrowKeys, NEW u \in Users, EndedBy(k, u)
  PROVE  \/ \E s \in Secrets : EndsWithdrawn(k, s, u)
         \/ EndsCancelled(k, u)
<1>1. CASE u = k.taker /\ CancelEscrow(k)
  BY <1>1 DEF CancelEscrow, EndsCancelled
<1>2. CASE u = k.taker /\ \E s \in Secrets : Withdraw(k, s)
  BY <1>2 DEF Withdraw, WithdrawOpen, EndsWithdrawn
<1>3. CASE PublicCancelEscrow(k, u)
  BY <1>3 DEF PublicCancelEscrow, EndsCancelled
<1>4. CASE \E s \in Secrets : PublicWithdraw(k, s, u)
  BY <1>4 DEF PublicWithdraw, WithdrawOpen, EndsWithdrawn
<1> QED BY <1>1, <1>2, <1>3, <1>4 DEF EndedBy

\* The lamports that the taker put into an escrow come back when it ends, all to
\* the taker if the taker signs; if another resolver does, the safety deposit to
\* that resolver and the rest to the taker (the tails of utils::withdraw and
\* cancel).
THEOREM DepositsComeBack == Spec => DepositToResolver
<1>1. ASSUME Inv, Reserves, Next, NEW k \in EscrowKeys, NEW u \in Users,
             EndedBy(k, u), k \notin late, ~EscrowRescuable(k)
      PROVE  DepositPaid(k, u)
  <2>1. TypeInv' /\ escrow[k].live
    BY <1>1, NextTypes DEF Inv, EndedBy
  <2>2. ASSUME NEW s \in Secrets, EndsWithdrawn(k, s, u)
        PROVE  DepositPaid(k, u)
    BY <1>1, <2>1, <2>2, WithdrawnDeposit
  <2>3. ASSUME EndsCancelled(k, u) PROVE DepositPaid(k, u)
    BY <1>1, <2>1, <2>3, CancelledDeposit
  <2> QED BY <1>1, <2>2, <2>3, EndedBySigner
<1>2. Inv /\ Reserves /\ [Next]_vars =>
        [\A k \in EscrowKeys, u \in Users :
           (EndedBy(k, u) /\ k \notin late /\ ~EscrowRescuable(k)) =>
             IF u = k.taker THEN SolGain(u) >= RENT_ESCROW + RENT_ATA
             ELSE /\ SolGain(u) >= Terms[k.order].safety_deposit
                  /\ SolGain(k.taker) >= RENT_ESCROW + RENT_ATA - Terms[k.order].safety_deposit]_vars
  BY <1>1 DEF DepositPaid
<1> QED BY <1>2, ReservesInvariant, PTL DEF Spec, DepositToResolver

-----------------------------------------------------------------------------
\* An order's ends.

\* OrderSettled, for one order: what a cancellation pays back, and what a fill
\* hands on.
OrderRefunded(o) ==
  LET t == Terms[o]
      rent == RENT_ORDER + RENT_ATA - Premium(o)
  IN  IF t.asset_is_native
      THEN SolGain(t.creator) >= order[o].remaining_amount + rent
      ELSE /\ TokenGain(t.creator, t.token) >= order[o].remaining_amount
           /\ SolGain(t.creator) >= rent

OrderFilled(o) ==
  \E k \in EscrowKeys :
    /\ k.order = o /\ ~escrow[k].live /\ escrow'[k].live
    /\ bank'.ata[EscrowAta(k)].amount >= order[o].remaining_amount

\* What the accounts of a live order hold.
LEMMA OrderHolds ==
  ASSUME Inv, Reserves, NEW o \in Orders, order[o].live, ~OrderRescuable(o),
         NEW a, a = OrderAta(o)
  PROVE  /\ bank.ata[a].live
         /\ bank.ata[a].amount \in Nat /\ bank.ata[a].amount >= order[o].remaining_amount
         /\ bank.ata[a].lamports \in Nat
         /\ bank.ata[a].lamports >= RENT_ATA + TokenLamports(a, bank.ata[a].amount)
         /\ bank.sol[o] \in Nat /\ bank.sol[o] >= RENT_ORDER
         /\ order[o].remaining_amount \in Nat
         /\ TermsChecked(o)
<1>1. bank.ata[a].live /\ bank.ata[a].amount >= order[o].remaining_amount
  BY DEF Inv, OrderFunded
<1>2. bank.sol[o] >= RENT_ORDER /\ TermsChecked(o)
  BY DEF Reserves, OrderReserved
<1>3. Sound(bank, Owners) /\ a \in Atas(Owners) /\ o \in Owners
  BY SoundFact, OrderFact, AccountFact DEF Inv
<1>4. /\ bank.ata[a].amount \in Nat /\ bank.ata[a].lamports \in Nat /\ bank.sol[o] \in Nat
      /\ bank.ata[a].lamports >= RENT_ATA + TokenLamports(a, bank.ata[a].amount)
  BY <1>1, <1>3, BankParts
<1>5. order[o].remaining_amount \in Nat
  BY DEF Inv, TypeInv, TypeOK, OrderState
<1> QED BY <1>1, <1>2, <1>4, <1>5

\* The last fill takes all that the order's token account holds.
LEMMA LastFillSettles ==
  ASSUME Inv, Reserves, NEW k \in EscrowKeys, NEW proof \in Proofs(k.order),
         CreateEscrow(k, proof), NEW o, o = k.order, LastFill(o, k.amount),
         ~OrderRescuable(o)
  PROVE  OrderFilled(o)
<1> DEFINE a == OrderAta(o)
           b == EscrowAta(k)
           n == AmountToTransfer(o, k.amount)
<1>1. /\ a = OrderAta(o) /\ b = EscrowAta(k) /\ n = AmountToTransfer(o, k.amount)
      /\ o \in Orders
  BY EscrowKeyFact
<1>2. order[o].live /\ ~escrow[k].live /\ FillAmountAllowed(o, k.amount)
  BY DEF CreateEscrow
<1>3. Completes(o, k.amount)
  <2>1. CASE Terms[o].allow_multiple_fills
    BY <2>1 DEF LastFill
  <2>2. CASE ~Terms[o].allow_multiple_fills
    BY <1>1, <1>2, <2>2 DEF Reserves, OrderReserved, FillAmountAllowed, Completes
  <2> QED BY <2>1, <2>2
<1>4. n = bank.ata[a].amount
  BY <1>3 DEF AmountToTransfer
<1>5. escrow'[k].live
  BY DEF CreateEscrow, Inv, TypeInv, TypeOK
<1> HIDE DEF a, b, n
<1>6. bank'.ata[b].live /\ bank'.ata[b].amount >= n
  BY <1>1, CreateEscrowTouches DEF Inv
<1>7. bank.ata[a].amount \in Nat /\ bank.ata[a].amount >= order[o].remaining_amount
  BY <1>1, <1>2, OrderHolds
<1>8. /\ order[o].remaining_amount \in Nat /\ b \in Atas(Owners)
  BY <1>1, <1>2, OrderHolds, EscrowKeyFact
<1>9. bank'.ata[b].amount \in Nat
  <2>1. Sound(bank', Owners)
    BY <1>1, CreateEscrowTouches DEF Inv, Touches
  <2> QED BY <1>8, <2>1, BankParts
<1>10. bank'.ata[b].amount >= order[o].remaining_amount
  BY <1>4, <1>6, <1>7, <1>8, <1>9
<1> QED BY <1>1, <1>2, <1>5, <1>10 DEF OrderFilled

\* A cancellation pays the maker what the order holds, less at most the premium.
LEMMA RefundSettles ==
  ASSUME Inv, Reserves, TypeInv', NEW o \in Orders, order[o].live, ~OrderRescuable(o),
         NEW u, u = Terms[o].creator, NEW a, a = OrderAta(o), NEW b, b = AtaOf(u, o),
         NEW T, T = RefundTokens(bank, o), T.ok,
         bank'.sol[u] >= bank.sol[u] + T.ata[a].lamports + bank.sol[o] - Premium(o),
         bank'.ata[b] = T.ata[b]
  PROVE  OrderRefunded(o)
<1>1. /\ bank.ata[a].amount \in Nat /\ bank.ata[a].amount >= order[o].remaining_amount
      /\ bank.ata[a].lamports \in Nat
      /\ bank.ata[a].lamports >= RENT_ATA + TokenLamports(a, bank.ata[a].amount)
      /\ bank.sol[o] \in Nat /\ bank.sol[o] >= RENT_ORDER
      /\ order[o].remaining_amount \in Nat
      /\ TermsChecked(o)
  BY OrderHolds
<1>2. /\ Sound(bank, Owners) /\ u \in Users /\ u \in Owners /\ b \in Atas(Owners)
      /\ a[2] = Token(o) /\ RENT_ORDER \in Nat /\ RENT_ATA \in Nat
  BY SoundFact, OrderFact, UserAtaFact, Disjoint, EscrowSrcAssumption, LedgerAssumption DEF Inv
<1>3. Premium(o) \in Nat
  BY SoundFact, PremiumFact DEF Inv
<1>4. bank.sol[u] \in Nat /\ bank'.sol[u] \in Nat /\ bank.ata[b].amount \in Nat
  <2>1. bank'.sol[u] \in Nat
    BY <1>2 DEF TypeInv, TypeOK, Bank
  <2> QED BY <1>2, <2>1, BankParts
<1>5. CASE Terms[o].asset_is_native
  <2>1. T = bank
    BY <1>2, <1>5, RefundTokensEffect
  <2>2. TokenLamports(a, bank.ata[a].amount) = bank.ata[a].amount
    BY <1>1, <1>2, <1>5 DEF TermsChecked, TokenLamports
  <2>3. SolGain(u) >= order[o].remaining_amount + (RENT_ORDER + RENT_ATA - Premium(o))
    BY <1>1, <1>2, <1>3, <1>4, <2>1, <2>2 DEF SolGain
  <2> QED BY <1>5, <2>3 DEF OrderRefunded
<1>6. CASE ~Terms[o].asset_is_native
  <2>1. /\ T.ata[a].lamports = bank.ata[a].lamports - TokenLamports(a, bank.ata[a].amount)
        /\ T.ata[b].amount = bank.ata[b].amount + bank.ata[a].amount
    BY <1>2, <1>6, RefundTokensEffect
  <2>2. TokenGain(u, Terms[o].token) = bank'.ata[b].amount - bank.ata[b].amount
    BY DEF TokenGain, AtaOf, Token
  <2>3. TokenGain(u, Terms[o].token) >= order[o].remaining_amount
    BY <1>1, <1>4, <2>1, <2>2
  <2>4. TokenLamports(a, bank.ata[a].amount) \in Nat
    BY <1>1 DEF TokenLamports
  <2>5. SolGain(u) >= RENT_ORDER + RENT_ATA - Premium(o)
    BY <1>1, <1>2, <1>3, <1>4, <2>1, <2>4 DEF SolGain
  <2> QED BY <1>6, <2>3, <2>5 DEF OrderRefunded
<1> QED BY <1>5, <1>6

\* So it is by the maker, who pays no premium,
LEMMA CancelOrderSettles ==
  ASSUME Inv, Reserves, TypeInv', NEW o \in Orders, ~OrderRescuable(o), CancelOrder(o)
  PROVE  OrderRefunded(o)
<1> DEFINE u == Terms[o].creator
           a == OrderAta(o)
           b == AtaOf(u, o)
           T == RefundTokens(bank, o)
           R == CloseOrder(T, o, u)
<1>1. order[o].live /\ bank.ata[a].live /\ MakerCanBeRefunded(o) /\ bank' = R /\ R.ok
  BY DEF CancelOrder, Commit
<1>2. /\ u = Terms[o].creator /\ a = OrderAta(o) /\ b = AtaOf(u, o)
      /\ T = RefundTokens(bank, o) /\ R = CloseOrder(T, o, u)
  OBVIOUS
<1>3. b = AtaOf(Terms[o].creator, o)
  OBVIOUS
<1>4. Sound(bank, Owners) /\ bank.ok
  BY SoundFact DEF Inv
<1>5. Terms[o].asset_is_native \/ bank.ata[b].live
  BY <1>1 DEF MakerCanBeRefunded
<1> HIDE DEF u, a, b, T, R
<1>6. T.ok
  BY <1>1, <1>2, <1>3, <1>4, <1>5, RefundTokensEffect
<1>7. /\ bank'.sol[u] = bank.sol[u] + T.ata[a].lamports + bank.sol[o]
      /\ bank'.ata[b] = T.ata[b]
  BY <1>1, <1>2, <1>4, CancelOrderBankEffect
<1>8. Premium(o) \in Nat
  BY SoundFact, PremiumFact DEF Inv
<1>9. /\ u \in Owners /\ o \in Owners /\ a \in Atas(Owners)
  BY <1>2, OrderFact, Disjoint
<1>10. bank.sol[u] \in Nat /\ bank.sol[o] \in Nat
  BY <1>4, <1>9, BankParts
<1>11. T.ata[a].lamports \in Nat
  <2>1. Sound(T, Owners)
    BY <1>2, <1>4, RefundTokensFact
  <2> QED BY <1>9, <2>1, BankParts
<1>12. bank'.sol[u] >= bank.sol[u] + T.ata[a].lamports + bank.sol[o] - Premium(o)
  BY <1>7, <1>8, <1>10, <1>11
<1> QED BY <1>1, <1>2, <1>6, <1>7, <1>12, RefundSettles

\* and by a resolver.
LEMMA ResolverCancelSettles ==
  ASSUME Inv, Reserves, TypeInv', NEW o \in Orders, ~OrderRescuable(o), NEW r \in Users,
         NEW limit \in RewardLimits, CancelOrderByResolver(o, r, limit)
  PROVE  OrderRefunded(o)
<1> DEFINE u == Terms[o].creator
           a == OrderAta(o)
           b == AtaOf(u, o)
           T == RefundTokens(bank, o)
           R == ResolverCancelBank(o, r, limit)
<1>1. order[o].live /\ bank' = R /\ R.ok
  BY DEF CancelOrderByResolver, Commit
<1>2. /\ u = Terms[o].creator /\ a = OrderAta(o) /\ b = AtaOf(u, o)
      /\ T = RefundTokens(bank, o) /\ R = ResolverCancelBank(o, r, limit)
  OBVIOUS
<1>3. Sound(bank, Owners) /\ now \in Nat
  BY SoundFact DEF Inv
<1> HIDE DEF u, a, b, T, R
<1>4. /\ T.ok
      /\ bank'.sol[u] >= bank.sol[u] + T.ata[a].lamports + bank.sol[o] - Premium(o)
      /\ bank'.ata[b] = T.ata[b]
  BY <1>1, <1>2, <1>3, ResolverCancelBankEffect
<1> QED BY <1>1, <1>2, <1>4, RefundSettles

\* An order ends handed on whole to its last escrow, or paid back to its maker
\* with the rent, less at most the premium that the cancellation auction has
\* reached, whatever limit the resolver names (create_escrow, cancel_order,
\* cancel_order_by_resolver).
THEOREM OrdersSettle == Spec => OrderSettled
<1>1. ASSUME Inv, Reserves, Next, NEW o \in Orders,
             order[o].live, ~order'[o].live, ~OrderRescuable(o)
      PROVE  OrderFilled(o) \/ OrderRefunded(o)
  <2>1. TypeInv'
    BY <1>1, NextTypes DEF Inv
  <2>2. ASSUME CancelOrder(o) PROVE OrderRefunded(o)
    BY <1>1, <2>1, <2>2, CancelOrderSettles
  <2>3. ASSUME NEW r \in Users, NEW limit \in RewardLimits, CancelOrderByResolver(o, r, limit)
        PROVE  OrderRefunded(o)
    BY <1>1, <2>1, <2>3, ResolverCancelSettles
  <2>4. ASSUME NEW k \in EscrowKeys, NEW proof \in Proofs(k.order), CreateEscrow(k, proof),
               k.order = o, LastFill(o, k.amount)
        PROVE  OrderFilled(o)
    BY <1>1, <2>4, LastFillSettles
  <2> QED BY <1>1, <2>2, <2>3, <2>4, OrderEndsBy DEF Inv
<1>2. Inv /\ Reserves /\ [Next]_vars =>
        [\A o \in Orders :
           (order[o].live /\ ~order'[o].live /\ ~OrderRescuable(o)) =>
             LET t == Terms[o]
                 filled == \E k \in EscrowKeys :
                             /\ k.order = o /\ ~escrow[k].live /\ escrow'[k].live
                             /\ bank'.ata[EscrowAta(k)].amount >= order[o].remaining_amount
                 rent == RENT_ORDER + RENT_ATA - Premium(o)
             IN  \/ filled
                 \/ IF t.asset_is_native
                    THEN SolGain(t.creator) >= order[o].remaining_amount + rent
                    ELSE /\ TokenGain(t.creator, t.token) >= order[o].remaining_amount
                         /\ SolGain(t.creator) >= rent]_vars
  BY <1>1 DEF OrderFilled, OrderRefunded
<1> QED BY <1>2, ReservesInvariant, PTL DEF Spec, OrderSettled

-----------------------------------------------------------------------------
\* What is rescued.

\* A rescue takes its amount, and closes the token account when that is all there is
\* in it; what a token account has besides goes to the same party.
LEMMA RescueTakes ==
  ASSUME NEW A, NEW L, Sound(L, A), NEW x \in A, NEW u \in A, x # u,
         NEW m \in Mints, NEW n \in Nat,
         NEW a, a = Ata(x, m), NEW b, b = Ata(u, m),
         n <= L.ata[a].amount, L.ata[a].live,
         NEW R, R = RescueFunds(L, x, u, m, n), R.ok
  PROVE  /\ R.ata[b].amount = L.ata[b].amount + n
         /\ n = L.ata[a].amount =>
              /\ R.ata[a] = NoAta
              /\ R.sol[u] = L.sol[u] + (L.ata[a].lamports - TokenLamports(a, n))
         /\ n # L.ata[a].amount =>
              /\ R.ata[a].live /\ R.ata[a].amount = L.ata[a].amount - n
              /\ R.sol[u] = L.sol[u]
<1> DEFINE T == UniTransferToken(L, a, b, n)
<1>1. a \in Atas(A) /\ b \in Atas(A) /\ a # b
  BY DEF Ata, Atas
<1>2. T = UniTransferToken(L, a, b, n)
  OBVIOUS
<1>3. R = IF n = L.ata[a].amount THEN CloseAta(T, a, u) ELSE T
  BY DEF RescueFunds
<1> HIDE DEF T
<1>4. Sound(T, A)
  BY <1>1, <1>2, UniTransferTokenFact
<1>5. /\ T.sol = L.sol
      /\ T.ok => /\ T.ata[a].live = L.ata[a].live
                 /\ T.ata[a].amount = L.ata[a].amount - n
                 /\ T.ata[a].lamports = L.ata[a].lamports - TokenLamports(a, n)
                 /\ T.ata[b].amount = L.ata[b].amount + n
  BY ONLY Sound(L, A), n \in Nat, <1>1, <1>2, UniTransferTokenEffect
<1>6. CASE n = L.ata[a].amount
  <2>1. R = CloseAta(T, a, u)
    BY <1>3, <1>6
  <2>2. /\ R.ok => T.ok
        /\ R.ok => R.ata[a] = NoAta /\ R.sol[u] = T.sol[u] + T.ata[a].lamports
    BY <1>1, <1>4, <2>1, CloseAtaEffect
  <2>3. Extends(T, R, {a}, A)
    BY <1>1, <1>4, <2>1, CloseAtaFact
  <2>4. R.ata[b] = T.ata[b]
    BY <1>1, <2>3 DEF Extends
  <2> QED BY <1>5, <1>6, <2>2, <2>4
<1>7. CASE n # L.ata[a].amount
  <2>1. R = T
    BY <1>3, <1>7
  <2> QED BY <1>5, <1>7, <2>1
<1> QED BY <1>6, <1>7

\* RescueSettled, for one token account.
RescuedTo(x, m) ==
  LET before == bank.ata[Ata(x, m)]
      after == bank'.ata[Ata(x, m)]
      taken == before.amount - after.amount
      rest == IF after.live THEN 0 ELSE before.lamports - TokenLamports(Ata(x, m), taken)
  IN  (before.live /\ (taken > 0 \/ ~after.live)) =>
        /\ ~after.live <=> after.amount = 0
        /\ \E u \in Users : MayRescue(x, u) /\ TokenGain(u, m) = taken /\ SolGain(u) = rest

\* Nothing is taken from a token account that keeps what it has.
LEMMA NotRescued ==
  ASSUME TypeInv, TypeInv', NEW x \in Accounts, NEW m \in Mints, NEW a, a = Ata(x, m),
         bank.ata[a].live => bank'.ata[a].live /\ bank'.ata[a].amount >= bank.ata[a].amount
  PROVE  RescuedTo(x, m)
<1>1. a \in Atas(Owners)
  BY AccountFact DEF Ata, Atas
<1>2. bank.ata[a] \in AtaState /\ bank'.ata[a] \in AtaState
  BY <1>1 DEF TypeInv, TypeOK, Bank, Atas
<1>3. bank.ata[a].live =>
        bank'.ata[a].live /\ ~(bank.ata[a].amount - bank'.ata[a].amount > 0)
  BY <1>2 DEF AtaState
<1> QED BY <1>3 DEF RescuedTo

\* A rescue by one that may make it settles every token account.
LEMMA RescueGoesTo ==
  ASSUME TypeInv, TypeInv', NEW x \in Accounts, NEW u \in Users, MayRescue(x, u),
         NEW m \in Mints, NEW n \in 0..bank.ata[Ata(x, m)].amount, Rescue(x, u, m, n),
         NEW y \in Accounts, NEW p \in Mints
  PROVE  RescuedTo(y, p)
<1> DEFINE a == Ata(x, m)
           b == Ata(u, m)
           c == Ata(y, p)
           R == RescueFunds(bank, x, u, m, n)
<1>1. /\ x \in Owners /\ u \in Owners /\ x # u /\ y \in Owners /\ y # u
      /\ Sound(bank, Owners)
  BY AccountFact, SoundFact
<1>2. a \in Atas(Owners) /\ b \in Atas(Owners) /\ c \in Atas(Owners) /\ c # b
  BY <1>1 DEF Ata, Atas
<1>3. /\ bank.ata[a].live /\ R.ok /\ bank' = R
      /\ n \in Nat /\ n <= bank.ata[a].amount
      /\ bank.ata[a].amount \in Nat /\ bank.ata[a].lamports \in Nat
      /\ bank.ata[b].amount \in Nat /\ bank.sol[u] \in Nat
  <2>1. bank.ata[a].amount \in Nat /\ bank.ata[a].lamports \in Nat
        /\ bank.ata[b].amount \in Nat /\ bank.sol[u] \in Nat
    BY <1>1, <1>2, BankParts
  <2> QED BY <2>1 DEF Rescue, Commit
<1>4. Touches({a, b})
  BY RescueTouches DEF Accounts
<1>5. CASE c # a
  <2>1. bank'.ata[c] = bank.ata[c]
    BY <1>2, <1>4, <1>5 DEF Touches
  <2>2. bank.ata[c].amount \in Nat
    BY <1>1, <1>2, BankParts
  <2> QED BY <2>1, <2>2, NotRescued
<1>6. CASE c = a
  <2>1. y = x /\ p = m
    BY <1>6 DEF Ata
  <2>2. /\ bank'.ata[b].amount = bank.ata[b].amount + n
        /\ n = bank.ata[a].amount =>
             /\ bank'.ata[a] = NoAta
             /\ bank'.sol[u] = bank.sol[u] + (bank.ata[a].lamports - TokenLamports(a, n))
        /\ n # bank.ata[a].amount =>
             /\ bank'.ata[a].live /\ bank'.ata[a].amount = bank.ata[a].amount - n
             /\ bank'.sol[u] = bank.sol[u]
    BY <1>1, <1>3, RescueTakes
  <2>3. TokenLamports(a, n) \in Nat
    BY <1>3 DEF TokenLamports
  <2>4. TokenGain(u, m) = n
    BY <1>3, <2>2 DEF TokenGain
  <2> HIDE DEF a, b, c, R
  <2>5. CASE n = bank.ata[a].amount
    <3>1. ~bank'.ata[a].live /\ bank'.ata[a].amount = 0
      BY <2>2, <2>5 DEF NoAta
    <3>2. SolGain(u) = bank.ata[a].lamports - TokenLamports(a, n)
      BY <1>3, <2>2, <2>3, <2>5 DEF SolGain
    <3>3. bank.ata[a].amount - bank'.ata[a].amount = n
      BY <1>3, <2>5, <3>1
    <3> QED BY <2>1, <2>4, <3>1, <3>2, <3>3 DEF RescuedTo, a
  <2>6. CASE n # bank.ata[a].amount
    <3>1. /\ bank'.ata[a].live /\ bank'.ata[a].amount # 0
          /\ bank.ata[a].amount - bank'.ata[a].amount = n
      BY <1>3, <2>2, <2>6
    <3>2. SolGain(u) = 0
      BY <1>3, <2>2, <2>6 DEF SolGain
    <3> QED BY <2>1, <2>4, <3>1, <3>2 DEF RescuedTo, a
  <2> QED BY <2>5, <2>6
<1> QED BY <1>5, <1>6

\* Only a rescue takes something from a token account while no order and no escrow
\* begins or ends.
LEMMA OnlyRescues ==
  ASSUME TypeInv, TypeInv', [Next]_vars, UNCHANGED <<order, escrow>>,
         NEW y \in Accounts, NEW p \in Mints
  PROVE  RescuedTo(y, p)
<1>1. CASE Quiet
  <2>1. Ata(y, p) \in Accounts \X Mints
    BY DEF Ata
  <2> QED BY <1>1, <2>1, NotRescued DEF Quiet
<1>2. ASSUME NEW o \in Orders, Create(o) \/ CancelOrder(o)
      PROVE  FALSE
  <2>1. order[o].live # order'[o].live
    BY <1>2 DEF Create, CancelOrder, DropOrder, NoOrder, TypeInv, TypeOK, OrderState
  <2> QED BY <2>1
<1>3. ASSUME NEW k \in EscrowKeys, NEW proof \in Proofs(k.order), CreateEscrow(k, proof)
      PROVE  FALSE
  <2>1. ~escrow[k].live /\ escrow'[k].live
    BY <1>3 DEF CreateEscrow, TypeInv, TypeOK
  <2> QED BY <2>1
<1>4. ASSUME NEW k \in EscrowKeys, escrow[k].live, CloseEscrow(k)
      PROVE  FALSE
  <2>1. ~escrow'[k].live
    BY <1>4 DEF CloseEscrow, NoEscrow, TypeInv, TypeOK
  <2> QED BY <1>4, <2>1
<1>5. ASSUME NEW k \in EscrowKeys, NEW s \in Secrets, NEW u \in Users, EndsWithdrawn(k, s, u)
      PROVE  FALSE
  BY <1>4, <1>5 DEF EndsWithdrawn, WithdrawWith
<1>6. ASSUME NEW k \in EscrowKeys, NEW u \in Users, EndsCancelled(k, u)
      PROVE  FALSE
  BY <1>4, <1>6 DEF EndsCancelled, CancelTo
<1>7. ASSUME NEW o \in Orders, NEW r \in Users, NEW limit \in RewardLimits,
             CancelOrderByResolver(o, r, limit)
      PROVE  FALSE
  <2>1. order[o].live /\ ~order'[o].live
    BY <1>7 DEF CancelOrderByResolver, DropOrder, NoOrder, TypeInv, TypeOK
  <2> QED BY <2>1
<1>8. ASSUME NEW o \in Orders, NEW r \in Users, NEW m \in Mints,
             NEW n \in 0..bank.ata[Ata(o, m)].amount, RescueFundsForOrder(o, r, m, n)
      PROVE  RescuedTo(y, p)
  <2>1. o \in Accounts /\ MayRescue(o, r) /\ Rescue(o, r, m, n)
    BY <1>8, AccountFact
       DEF RescueFundsForOrder, MayRescue, RescueOpen, RescueReached, OrderRescuable
  <2> QED BY <2>1, RescueGoesTo
<1>9. ASSUME NEW k \in EscrowKeys, NEW m \in Mints,
             NEW n \in 0..bank.ata[Ata(k, m)].amount, RescueFundsForEscrow(k, m, n)
      PROVE  RescuedTo(y, p)
  <2>1. k \notin Orders /\ k.taker \in Users
    BY EscrowKeyFact, Disjoint
  <2>2. k \in Accounts /\ MayRescue(k, k.taker) /\ Rescue(k, k.taker, m, n)
    BY <1>9, <2>1, AccountFact
       DEF RescueFundsForEscrow, MayRescue, RescueOpen, RescueReached, EscrowRescuable
  <2> QED BY <2>1, <2>2, RescueGoesTo
<1> QED BY <1>1, <1>2, <1>3, <1>5, <1>6, <1>7, <1>8, <1>9, Steps

\* Between the beginning and the end of an order or an escrow its token accounts
\* lose something only to a party that may rescue it, the account closes exactly
\* when nothing is left in it, and its other lamports go to that party, too
\* (rescue_funds_for_order, rescue_funds_for_escrow).
THEOREM RescuesSettle == Spec => RescueSettled
<1>1. ASSUME TypeInv, TypeInv', [Next]_vars, UNCHANGED <<order, escrow>>,
             NEW x \in Orders \cup EscrowKeys, NEW m \in Mints
      PROVE  RescuedTo(x, m)
  BY <1>1, OnlyRescues DEF Accounts
<1>2. TypeInv /\ TypeInv' /\ [Next]_vars =>
        [UNCHANGED <<order, escrow>> =>
           \A x \in Orders \cup EscrowKeys, m \in Mints :
             LET before == bank.ata[Ata(x, m)]
                 after == bank'.ata[Ata(x, m)]
                 taken == before.amount - after.amount
                 rest == IF after.live THEN 0
                         ELSE before.lamports - TokenLamports(Ata(x, m), taken)
             IN  (before.live /\ (taken > 0 \/ ~after.live)) =>
                   /\ ~after.live <=> after.amount = 0
                   /\ \E u \in Users :
                        MayRescue(x, u) /\ TokenGain(u, m) = taken /\ SolGain(u) = rest]_vars
  BY <1>1 DEF RescuedTo
<1> QED BY <1>2, TypesInvariant, PTL DEF Spec, RescueSettled

-----------------------------------------------------------------------------
\* The hash time lock.

\* Neither the clock nor the secrets go back.
LEMMA OnlyOnward ==
  ASSUME TypeInv, [Next]_vars
  PROVE  now' >= now /\ revealed \subseteq revealed'
<1>1. Quiet => now' >= now /\ revealed \subseteq revealed'
  BY DEF Quiet
<1>2. now \in Nat
  BY SoundFact
<1>3. UNCHANGED <<now, revealed>> => now' >= now /\ revealed \subseteq revealed'
  BY <1>2
<1>4. \A o \in Orders : Create(o) \/ CancelOrder(o) => UNCHANGED <<now, revealed>>
  BY DEF Create, CancelOrder
<1>5. \A k \in EscrowKeys : \A proof \in Proofs(k.order) :
        CreateEscrow(k, proof) => UNCHANGED <<now, revealed>>
  BY DEF CreateEscrow
<1>6. /\ \A k, s, u : EndsWithdrawn(k, s, u) => UNCHANGED <<now, revealed>>
      /\ \A k, u : EndsCancelled(k, u) => UNCHANGED <<now, revealed>>
  BY DEF EndsWithdrawn, WithdrawWith, EndsCancelled, CancelTo
<1>7. \A o, r, limit : CancelOrderByResolver(o, r, limit) => UNCHANGED <<now, revealed>>
  BY DEF CancelOrderByResolver
<1>8. /\ \A o, r, m, n : RescueFundsForOrder(o, r, m, n) => UNCHANGED <<now, revealed>>
      /\ \A k, m, n : RescueFundsForEscrow(k, m, n) => UNCHANGED <<now, revealed>>
  BY DEF RescueFundsForOrder, RescueFundsForEscrow, Rescue
<1> QED BY <1>1, <1>3, <1>4, <1>5, <1>6, <1>7, <1>8, Steps

\* A step leaves an escrow as it is, makes it or ends it.
LEMMA EscrowChanges ==
  ASSUME TypeInv, [Next]_vars, NEW k \in EscrowKeys
  PROVE  \/ escrow'[k] = escrow[k] /\ (k \in late' <=> k \in late)
         \/ ~escrow[k].live /\ escrow'[k].live
         \/ escrow[k].live /\ ~escrow'[k].live
<1> DEFINE Kept == escrow'[k] = escrow[k] /\ (k \in late' <=> k \in late)
<1>1. UNCHANGED <<escrow, late>> => Kept
  OBVIOUS
<1>2. ASSUME NEW j \in EscrowKeys, CloseEscrow(j), UNCHANGED late
      PROVE  Kept \/ (escrow[k].live /\ ~escrow'[k].live) \/ ~escrow[j].live
  <2>1. CASE j = k
    BY <1>2, <2>1 DEF CloseEscrow, NoEscrow, TypeInv, TypeOK
  <2>2. CASE j # k
    BY <1>2, <2>2 DEF CloseEscrow, TypeInv, TypeOK
  <2> QED BY <2>1, <2>2
<1>3. ASSUME NEW j \in EscrowKeys, NEW proof \in Proofs(j.order), CreateEscrow(j, proof)
      PROVE  Kept \/ (~escrow[k].live /\ escrow'[k].live)
  <2>1. /\ escrow' = [escrow EXCEPT ![j] = [live       |-> TRUE,
                                             timelocks  |-> EscrowTimelocks(j.order),
                                             dst_amount |-> FillDst(j)]]
        /\ ~escrow[j].live
        /\ late' \subseteq late \cup {j} /\ late \subseteq late' \cup {j}
    BY <1>3 DEF CreateEscrow
  <2>2. CASE j = k
    BY <2>1, <2>2 DEF TypeInv, TypeOK
  <2>3. CASE j # k
    BY <2>1, <2>3 DEF TypeInv, TypeOK
  <2> QED BY <2>2, <2>3
<1>4. Quiet => Kept
  BY DEF Quiet
<1>5. \A o \in Orders : Create(o) \/ CancelOrder(o) => Kept
  BY DEF Create, CancelOrder
<1>6. /\ \A j, s, u : EndsWithdrawn(j, s, u) => CloseEscrow(j) /\ UNCHANGED late /\ escrow[j].live
      /\ \A j, u : EndsCancelled(j, u) => CloseEscrow(j) /\ UNCHANGED late /\ escrow[j].live
  BY DEF EndsWithdrawn, WithdrawWith, EndsCancelled, CancelTo
<1>7. \A o, r, limit : CancelOrderByResolver(o, r, limit) => UNCHANGED <<escrow, late>>
  BY DEF CancelOrderByResolver
<1>8. /\ \A o, r, m, n : RescueFundsForOrder(o, r, m, n) => UNCHANGED <<escrow, late>>
      /\ \A j, m, n : RescueFundsForEscrow(j, m, n) => UNCHANGED <<escrow, late>>
  BY DEF RescueFundsForOrder, RescueFundsForEscrow, Rescue
<1> HIDE DEF Kept
<1>9. Kept \/ (~escrow[k].live /\ escrow'[k].live) \/ (escrow[k].live /\ ~escrow'[k].live)
  BY <1>1, <1>2, <1>3, <1>4, <1>5, <1>6, <1>7, <1>8, Steps
<1> QED BY <1>9 DEF Kept

\* An escrow whose funds its lock promises.
Promised(k) == escrow[k].live /\ k \notin late /\ ~EscrowRescuable(k)

\* The states that the two modules name are the same.
LEMMA LockStatesFact ==
  Lock!Free = Free /\ Lock!Expired = Expired /\ Free.status # "locked"
BY DEF Lock!Free, Lock!Expired, Free, Expired

\* The three states of a lock.
LEMMA LockParts ==
  ASSUME NEW k \in EscrowKeys
  PROVE  /\ ~escrow[k].live => LockOf(k) = Free
         /\ escrow[k].live /\ ~Promised(k) => LockOf(k) = Expired
         /\ Promised(k) =>
              /\ LockOf(k).status = "locked"
              /\ LockOf(k).deadline = StageTime(escrow[k].timelocks, "SrcCancellation")
              /\ LockOf(k).expiry = RescueStart(escrow[k].timelocks)
              /\ LockOf(k).payee = <<k.taker, Token(k.order)>>
              /\ LockOf(k).payer =
                   <<Maker(k), IF Terms[k.order].asset_is_native THEN "lamports"
                               ELSE Token(k.order)>>
         /\ LockOf(k).status = "locked" => Promised(k)
BY DEF LockOf, Promised, Free, Expired, Locked

\* They are those of the step's end, too.
LEMMA LockPartsNext ==
  ASSUME NEW k \in EscrowKeys
  PROVE  /\ ~escrow'[k].live => LockOf(k)' = Free
         /\ escrow'[k].live /\ ~Promised(k)' => LockOf(k)' = Expired
         /\ Promised(k)' => LockOf(k)'.status = "locked"
         /\ LockOf(k)'.status = "locked" => Promised(k)'
BY DEF LockOf, Promised, Free, Expired, Locked

\* An escrow that a step leaves as it is stays in its lock, or its lock expires.
LEMMA KeptLock ==
  ASSUME TypeInv, now' >= now, now' \in Nat, NEW k \in EscrowKeys,
         escrow'[k] = escrow[k], k \in late' <=> k \in late
  PROVE  Lock!Stay(k) \/ Lock!Expire(k)
<1>1. now \in Nat /\ RescueStart(escrow[k].timelocks) \in Nat
  <2>1. escrow[k].timelocks \in TimelockWords
    BY DEF TypeInv, TypeOK, EscrowState
  <2> QED BY <2>1, SoundFact, WidthsAssumption, TimelocksAssumption
          DEF TimelockWords, RescueStart, U32
<1>2. EscrowRescuable(k)' <=> now' >= RescueStart(escrow[k].timelocks)
  BY DEF EscrowRescuable
<1>3. EscrowRescuable(k) => EscrowRescuable(k)'
  BY <1>1, <1>2 DEF EscrowRescuable
<1>4. CASE Promised(k) /\ ~Promised(k)'
  <2>1. now' >= RescueStart(escrow[k].timelocks) /\ escrow'[k].live
    BY <1>2, <1>4 DEF Promised
  <2>2. /\ LockOf(k).status = "locked" /\ LockOf(k)' = Expired
        /\ LockOf(k).expiry = RescueStart(escrow[k].timelocks)
    BY <1>4, <2>1, LockParts, LockPartsNext
  <2> QED BY <2>1, <2>2, LockStatesFact DEF Lock!Expire, Lock!IsLocked
<1>5. CASE Promised(k)' <=> Promised(k)
  <2>1. LockOf(k)' = LockOf(k)
    BY <1>5 DEF LockOf, Promised
  <2> QED BY <2>1 DEF Lock!Stay
<1>6. Promised(k)' => Promised(k)
  BY <1>3 DEF Promised
<1> QED BY <1>4, <1>5, <1>6

\* An escrow that a step makes is locked, or has expired before it was made.
LEMMA MadeLock ==
  ASSUME NEW k \in EscrowKeys, ~escrow[k].live, escrow'[k].live
  PROVE  Lock!Secure(k) \/ Lock!Void(k)
<1>1. LockOf(k) = Free
  BY LockParts
<1>2. CASE Promised(k)'
  <2>1. LockOf(k)'.status = "locked"
    BY <1>2, LockPartsNext
  <2> QED BY <1>1, <2>1, LockStatesFact DEF Lock!Secure
<1>3. CASE ~Promised(k)'
  <2>1. LockOf(k)' = Expired
    BY <1>3, LockPartsNext
  <2> QED BY <1>1, <2>1, LockStatesFact DEF Lock!Void
<1> QED BY <1>2, <1>3

\* The accounts of wealth.
LEMMA WealthParts ==
  ASSUME NEW u \in Users, NEW m \in Mints
  PROVE  /\ Wealth[<<u, m>>] = bank.ata[Ata(u, m)].amount
         /\ Wealth'[<<u, m>>] = bank'.ata[Ata(u, m)].amount
         /\ Wealth[<<u, "lamports">>] = Lamports(u)
         /\ Wealth'[<<u, "lamports">>] = Lamports(u)'
<1>1. m # "lamports"
  BY WealthAssumption
<1>2. <<u, m>> \in Users \X (Mints \cup {"lamports"})
      /\ <<u, "lamports">> \in Users \X (Mints \cup {"lamports"})
  OBVIOUS
<1> QED BY <1>1, <1>2 DEF Wealth, Ata

\* Who gains tokens gains them in its account.
LEMMA TokensGained ==
  ASSUME TypeInv, TypeInv', NEW u \in Users, NEW m \in Mints, NEW n \in Nat,
         TokenGain(u, m) >= n
  PROVE  Wealth'[<<u, m>>] >= Wealth[<<u, m>>] + n
<1>1. Ata(u, m) \in Owners \X Mints
  BY Disjoint DEF Ata
<1>2. bank.ata[Ata(u, m)].amount \in Nat /\ bank'.ata[Ata(u, m)].amount \in Nat
  BY <1>1 DEF TypeInv, TypeOK, Bank, AtaState
<1>3. bank'.ata[Ata(u, m)].amount >= bank.ata[Ata(u, m)].amount + n
  BY <1>2 DEF TokenGain
<1> QED BY <1>3, WealthParts

\* Who gains lamports and neither opens nor closes a token account, in its own.
LEMMA LamportsGained ==
  ASSUME TypeInv, TypeInv', NEW u \in Users, NEW n \in Nat, SolGain(u) >= n,
         \A m \in Mints : bank'.ata[Ata(u, m)].live = bank.ata[Ata(u, m)].live
  PROVE  Wealth'[<<u, "lamports">>] >= Wealth[<<u, "lamports">>] + n
<1> DEFINE S == {m \in Mints : bank.ata[Ata(u, m)].live}
           reserves == RENT_ATA * Cardinality(S)
<1>1. {m \in Mints : bank'.ata[Ata(u, m)].live} = S
  OBVIOUS
<1>2. reserves \in Nat
  <2>1. IsFiniteSet(Mints) /\ S \in SUBSET Mints
    BY WealthAssumption
  <2>2. Cardinality(S) \in Nat
    BY <2>1, FS_Subset, FS_CardinalityType
  <2> HIDE DEF S
  <2> QED BY <2>2, LedgerAssumption, TimesFact
<1>3. Lamports(u) = bank.sol[u] + reserves /\ Lamports(u)' = bank'.sol[u] + reserves
  BY <1>1 DEF Lamports
<1>4. bank.sol[u] \in Nat /\ bank'.sol[u] \in Nat
  BY Disjoint DEF TypeInv, TypeOK, Bank
<1> HIDE DEF reserves
<1>5. Lamports(u)' >= Lamports(u) + n
  BY <1>2, <1>3, <1>4 DEF SolGain
<1>6. /\ Wealth[<<u, "lamports">>] = Lamports(u)
      /\ Wealth'[<<u, "lamports">>] = Lamports(u)'
  BY LedgerAssumption, WealthParts
<1> QED BY <1>5, <1>6

\* The lock of a withdrawn escrow is redeemed,
LEMMA PaidLock ==
  ASSUME TypeInv, TypeInv', NEW k \in EscrowKeys, Promised(k), ~escrow'[k].live, PaidToTaker(k)
  PROVE  Lock!Redeem(k)
<1>1. /\ LockOf(k).status = "locked" /\ LockOf(k)' = Free
      /\ LockOf(k).deadline = StageTime(escrow[k].timelocks, "SrcCancellation")
      /\ LockOf(k).payee = <<k.taker, Token(k.order)>>
  BY LockParts, LockPartsNext
<1>2. k.hashlock \in {Keccak[s] : s \in revealed}
  BY DEF PaidToTaker
<1>3. now < StageTime(escrow[k].timelocks, "SrcCancellation")
  BY DEF PaidToTaker, Before
<1>4. Wealth'[<<k.taker, Token(k.order)>>] >= Wealth[<<k.taker, Token(k.order)>>] + k.amount
  BY EscrowKeyFact, TokensGained DEF PaidToTaker
<1> QED BY <1>1, <1>2, <1>3, <1>4, LockStatesFact DEF Lock!Redeem, Lock!IsLocked, Lock!Gains

\* and that of a cancelled one refunded.
LEMMA ReturnedLock ==
  ASSUME TypeInv, TypeInv', NEW k \in EscrowKeys, Promised(k), ~escrow'[k].live,
         ReturnedToMaker(k), NEW u \in Users, CancelTo(k, u)
  PROVE  Lock!Refund(k)
<1> DEFINE m == IF Terms[k.order].asset_is_native THEN "lamports" ELSE Token(k.order)
<1>1. /\ LockOf(k).status = "locked" /\ LockOf(k)' = Free
      /\ LockOf(k).deadline = StageTime(escrow[k].timelocks, "SrcCancellation")
      /\ LockOf(k).payer = <<Maker(k), m>>
  BY LockParts, LockPartsNext
<1>2. now >= StageTime(escrow[k].timelocks, "SrcCancellation")
  BY DEF ReturnedToMaker, Reached
<1>3. Maker(k) \in Users /\ Token(k.order) \in Mints /\ k.amount \in Nat
  BY EscrowKeyFact
<1>4. Wealth'[<<Maker(k), m>>] >= Wealth[<<Maker(k), m>>] + k.amount
  <2>1. CASE Terms[k.order].asset_is_native
    <3>1. SolGain(Maker(k)) >= k.amount
      BY <2>1 DEF ReturnedToMaker
    <3>2. \A b \in Atas(Owners) \ {EscrowAta(k)} : bank'.ata[b] = bank.ata[b]
      <4>1. Sound(bank, Owners)
        BY SoundFact
      <4> QED BY <2>1, <4>1, CancelledBank, CancelNativeEffect
    <3>3. \A p \in Mints : Ata(Maker(k), p) \in Atas(Owners) \ {EscrowAta(k)}
      BY <1>3, EscrowKeyFact, Disjoint DEF Ata, Atas, EscrowAta
    <3>4. \A p \in Mints : bank'.ata[Ata(Maker(k), p)].live = bank.ata[Ata(Maker(k), p)].live
      BY <3>2, <3>3
    <3> QED BY <1>3, <2>1, <3>1, <3>4, LamportsGained
  <2>2. CASE ~Terms[k.order].asset_is_native
    BY <1>3, <2>2, TokensGained DEF ReturnedToMaker
  <2> QED BY <2>1, <2>2
<1> HIDE DEF m
<1> QED BY <1>1, <1>2, <1>4, LockStatesFact DEF Lock!Refund, Lock!IsLocked, Lock!Gains

\* What a step may do to one lock.
LockStep(k) ==
  \/ Lock!Stay(k) \/ Lock!Secure(k) \/ Lock!Redeem(k) \/ Lock!Refund(k) \/ Lock!Expire(k)
  \/ Lock!Void(k)

\* Whatever ends an escrow, its lock is redeemed or refunded, unless it has expired.
LEMMA EndedLock ==
  ASSUME StagesOrdered, Inv, Reserves, TypeInv', [Next]_vars, NEW k \in EscrowKeys,
         escrow[k].live, ~escrow'[k].live
  PROVE  LockStep(k)
<1>1. CASE ~Promised(k)
  <2>1. LockOf(k) = Expired /\ LockOf(k)' = Free
    BY <1>1, LockParts, LockPartsNext
  <2> QED BY <2>1, LockStatesFact DEF Lock!Void, LockStep
<1>2. CASE Promised(k)
  <2>1. k \notin late /\ ~EscrowRescuable(k)
    BY <1>2 DEF Promised
  <2>2. ASSUME NEW s \in Secrets, NEW u \in Users, EndsWithdrawn(k, s, u)
        PROVE  Lock!Redeem(k)
    <3>1. PaidToTaker(k)
      BY <2>1, <2>2, WithdrawnSettles
    <3> QED BY <1>2, <3>1, PaidLock DEF Inv
  <2>3. ASSUME NEW u \in Users, EndsCancelled(k, u)
        PROVE  Lock!Refund(k)
    <3>1. CancelTo(k, u)
      BY <2>3 DEF EndsCancelled
    <3>2. ReturnedToMaker(k)
      BY <2>1, <2>3, <3>1, CancelledPays, CancelledInTime DEF ReturnedToMaker
    <3> QED BY <1>2, <3>1, <3>2, ReturnedLock DEF Inv
  <2> QED BY <2>2, <2>3, EscrowEndsBy DEF Inv, LockStep
<1> QED BY <1>1, <1>2

\* Every step is one of the hash time lock.
LEMMA LockNext ==
  ASSUME StagesOrdered, Inv, Reserves, [Next]_vars
  PROVE  Lock!Next
<1>1. TypeInv' /\ EscrowFunded'
  BY NextTypes, NextFunded DEF Inv
<1>2. now' >= now /\ revealed \subseteq revealed'
  BY OnlyOnward DEF Inv
<1>3. now' \in Nat
  BY <1>1, EscrowSrcAssumption, WidthsAssumption DEF TypeInv, TypeOK, U32
<1>4. ASSUME NEW k \in EscrowKeys PROVE LockStep(k)
  <2>1. CASE escrow'[k] = escrow[k] /\ (k \in late' <=> k \in late)
    BY <1>2, <1>3, <2>1, KeptLock DEF Inv, LockStep
  <2>2. CASE ~escrow[k].live /\ escrow'[k].live
    BY <2>2, MadeLock DEF LockStep
  <2>3. CASE escrow[k].live /\ ~escrow'[k].live
    BY <1>1, <2>3, EndedLock
  <2> QED BY <2>1, <2>2, <2>3, EscrowChanges DEF Inv
<1>5. ASSUME NEW k \in EscrowKeys, LockOf(k)'.status = "locked"
      PROVE  bank'.ata[EscrowAta(k)].amount >= k.amount
  <2>1. Promised(k)'
    BY <1>5, LockPartsNext
  <2> QED BY <1>1, <2>1 DEF EscrowFunded, Promised
<1>6. {Keccak[s] : s \in revealed} \subseteq {Keccak[s] : s \in revealed'}
  BY <1>2
<1> QED BY <1>2, <1>4, <1>5, <1>6 DEF Lock!Next, LockStep

\* The source-chain program implements the hash time lock: every step of every
\* escrow is one of its steps, whatever becomes of orders, fills, rescues and
\* outside transfers (create_escrow, withdraw, public_withdraw, cancel_escrow,
\* public_cancel_escrow).
THEOREM EscrowsAreHashTimelocks ==
  ASSUME StagesOrdered
  PROVE  Spec => ImplementsHashTimelock
<1>1. Init => Lock!Init
  <2>1. Init => \A k \in EscrowKeys : ~escrow[k].live
    BY DEF Init, NoEscrow
  <2>2. Init => \A k \in EscrowKeys : LockOf(k) = Free
    BY <2>1, LockParts
  <2> QED BY <2>2, LockStatesFact DEF Lock!Init
<1>2. Inv /\ Reserves /\ [Next]_vars => [Lock!Next]_(Lock!vars)
  BY LockNext
<1> QED BY <1>1, <1>2, ReservesInvariant, PTL DEF Spec, ImplementsHashTimelock, Lock!Spec

=============================================================================
