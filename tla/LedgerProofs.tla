---------------------------- MODULE LedgerProofs ----------------------------
(***************************************************************************)
(* Facts about the operators of Ledger and EscrowCommon, for any set A of  *)
(* owners: each takes a sound bank to a sound bank, succeeds only after    *)
(* what came before it succeeded, changes only the token accounts that it  *)
(* names, has the effects that the ...Effect lemmas state, and takes       *)
(* nothing from any user but those that it names (Spares).                 *)
(***************************************************************************)
EXTENDS EscrowCommon, TLAPS

Atas(A) == A \X Mints

\* Every open token account holds its reserve and the lamports of its tokens.
Backed(L, A) ==
  \A a \in Atas(A) : L.ata[a].live =>
    L.ata[a].lamports >= RENT_ATA + TokenLamports(a, L.ata[a].amount)

Sound(L, A) == L \in Bank(A) /\ Backed(L, A)

\* M succeeds only if L did, and differs from it in no token account outside S.
Extends(L, M, S, A) ==
  /\ M.ok => L.ok
  /\ \A b \in Atas(A) \ S : M.ata[b] = L.ata[b]

-----------------------------------------------------------------------------
\* The three ways in which an operator makes its next bank.

\* A failing call changes nothing but ok.
LEMMA Fail ==
  ASSUME NEW A, NEW L \in Bank(A)
  PROVE  /\ [L EXCEPT !.ok = FALSE] \in Bank(A)
         /\ [L EXCEPT !.ok = FALSE].ata = L.ata
         /\ [L EXCEPT !.ok = FALSE].ok = FALSE
BY DEF Bank

\* A change of a lamport balance.
LEMMA SetSol ==
  ASSUME NEW A, NEW L \in Bank(A), NEW x \in A, NEW v \in Nat
  PROVE  /\ [L EXCEPT !.sol[x] = v] \in Bank(A)
         /\ [L EXCEPT !.sol[x] = v].ata = L.ata
         /\ [L EXCEPT !.sol[x] = v].ok = L.ok
BY DEF Bank

\* A change of a token account.
LEMMA SetAta ==
  ASSUME NEW A, NEW L \in Bank(A), NEW a \in Atas(A), NEW v \in AtaState
  PROVE  /\ [L EXCEPT !.ata[a] = v] \in Bank(A)
         /\ [L EXCEPT !.ata[a] = v].ata = [L.ata EXCEPT ![a] = v]
         /\ [L EXCEPT !.ata[a] = v].ok = L.ok
BY DEF Bank, Atas

\* The change of a token account to a backed one keeps the bank sound.
LEMMA SetBackedAta ==
  ASSUME NEW A, NEW L, Sound(L, A), NEW a \in Atas(A), NEW v \in AtaState,
         v.live => v.lamports >= RENT_ATA + TokenLamports(a, v.amount)
  PROVE  /\ Sound([L EXCEPT !.ata[a] = v], A)
         /\ \A b \in Atas(A) \ {a} : [L EXCEPT !.ata[a] = v].ata[b] = L.ata[b]
         /\ [L EXCEPT !.ata[a] = v].ata[a] = v
         /\ [L EXCEPT !.ata[a] = v].ok = L.ok
<1> DEFINE M == [L EXCEPT !.ata[a] = v]
<1>1. M \in Bank(A) /\ M.ata = [L.ata EXCEPT ![a] = v] /\ M.ok = L.ok
  BY SetAta DEF Sound
<1>2. L.ata \in [Atas(A) -> AtaState]
  BY DEF Sound, Bank, Atas
<1>3. \A b \in Atas(A) : M.ata[b] = IF b = a THEN v ELSE L.ata[b]
  BY <1>1, <1>2
<1>4. Backed(M, A)
  BY <1>3 DEF Backed, Sound
<1> QED BY <1>1, <1>3, <1>4 DEF Sound

-----------------------------------------------------------------------------
\* Lamports: no token account changes.

\* SubLamports only takes lamports from x.
LEMMA SubLamportsFact ==
  ASSUME NEW A, NEW L, Sound(L, A), NEW x \in A, NEW n \in Nat
  PROVE  Sound(SubLamports(L, x, n), A) /\ Extends(L, SubLamports(L, x, n), {}, A)
<1>1. L \in Bank(A) /\ L.sol[x] \in Nat
  BY DEF Sound, Bank
<1>2. CASE L.ok /\ n <= L.sol[x]
  <2>1. L.sol[x] - n \in Nat
    BY <1>1, <1>2
  <2> QED BY <1>1, <1>2, <2>1, SetSol DEF Sound, Backed, Extends, SubLamports, Attempt
<1>3. CASE ~(L.ok /\ n <= L.sol[x])
  BY <1>1, <1>3, Fail DEF Sound, Backed, Extends, SubLamports, Attempt
<1> QED BY <1>2, <1>3

\* AddLamports only gives lamports to x.
LEMMA AddLamportsFact ==
  ASSUME NEW A, NEW L, Sound(L, A), NEW x \in A, NEW n \in Nat
  PROVE  Sound(AddLamports(L, x, n), A) /\ Extends(L, AddLamports(L, x, n), {}, A)
<1>1. L \in Bank(A) /\ L.sol[x] + n \in Nat
  BY DEF Sound, Bank
<1>2. CASE L.ok
  BY <1>1, <1>2, SetSol DEF Sound, Backed, Extends, AddLamports, Attempt
<1>3. CASE ~L.ok
  BY <1>1, <1>3, Fail DEF Sound, Backed, Extends, AddLamports, Attempt
<1> QED BY <1>2, <1>3

\* A chain of two operators extends what its parts extend.
LEMMA ExtendsTransitive ==
  ASSUME NEW A, NEW L, NEW M, NEW N, NEW S, NEW T, NEW U,
         Extends(L, M, S, A), Extends(M, N, T, A), S \cup T \subseteq U
  PROVE  Extends(L, N, U, A)
BY DEF Extends

\* A transfer of lamports.
LEMMA MoveLamportsFact ==
  ASSUME NEW A, NEW L, Sound(L, A), NEW x \in A, NEW y \in A, NEW n \in Nat
  PROVE  Sound(MoveLamports(L, x, y, n), A) /\ Extends(L, MoveLamports(L, x, y, n), {}, A)
<1> DEFINE M == SubLamports(L, x, n)
<1>1. Sound(M, A) /\ Extends(L, M, {}, A)
  BY SubLamportsFact
<1>2. Sound(AddLamports(M, y, n), A) /\ Extends(M, AddLamports(M, y, n), {}, A)
  BY <1>1, AddLamportsFact
<1>3. Extends(L, AddLamports(M, y, n), {}, A)
  BY <1>1, <1>2 DEF Extends
<1> QED BY <1>2, <1>3 DEF MoveLamports

\* The close of a program account.
LEMMA CloseAccountFact ==
  ASSUME NEW A, NEW L, Sound(L, A), NEW x \in A, NEW y \in A
  PROVE  Sound(CloseAccount(L, x, y), A) /\ Extends(L, CloseAccount(L, x, y), {}, A)
<1>1. L.sol[x] \in Nat
  BY DEF Sound, Bank
<1> QED BY <1>1, MoveLamportsFact DEF CloseAccount

-----------------------------------------------------------------------------
\* Token accounts.

\* Lamports sent to an open token account add to the lamports it has.
LEMMA AddAtaLamportsFact ==
  ASSUME NEW A, NEW L, Sound(L, A), NEW a \in Atas(A), NEW n \in Nat,
         NEW R, R = AddAtaLamports(L, a, n)
  PROVE  /\ Sound(R, A) /\ Extends(L, R, {a}, A)
         /\ R.ok => R.ata[a] = [L.ata[a] EXCEPT !.lamports = @ + n] /\ L.ata[a].live
<1> DEFINE v == [L.ata[a] EXCEPT !.lamports = @ + n]
           M == [L EXCEPT !.ata[a] = v]
<1>1. L \in Bank(A) /\ L.ata[a] \in AtaState
  BY DEF Sound, Bank, Atas
<1>2. CASE L.ok /\ L.ata[a].live
  <2>1. v \in AtaState /\ v.amount = L.ata[a].amount /\ v.lamports = L.ata[a].lamports + n
    BY <1>1 DEF AtaState
  <2>2. TokenLamports(a, v.amount) \in Nat
    BY <2>1 DEF TokenLamports, AtaState
  <2>3. L.ata[a].lamports >= RENT_ATA + TokenLamports(a, L.ata[a].amount)
    BY <1>2 DEF Sound, Backed
  <2>4. v.lamports >= RENT_ATA + TokenLamports(a, v.amount)
    BY <1>1, <2>1, <2>2, <2>3, LedgerAssumption DEF AtaState
  <2>5. AddAtaLamports(L, a, n) = M
    BY <1>2 DEF AddAtaLamports, Attempt
  <2> HIDE DEF v
  <2>6. /\ Sound(M, A) /\ M.ata[a] = v /\ M.ok = L.ok
        /\ \A b \in Atas(A) \ {a} : M.ata[b] = L.ata[b]
    BY <2>1, <2>4, SetBackedAta
  <2> HIDE DEF M
  <2>7. Extends(L, M, {a}, A)
    BY <2>6 DEF Extends
  <2> QED BY <1>2, <2>5, <2>6, <2>7 DEF v
<1>3. CASE ~(L.ok /\ L.ata[a].live)
  BY <1>1, <1>3, Fail DEF Sound, Backed, Extends, AddAtaLamports, Attempt
<1> QED BY <1>2, <1>3

\* A system transfer to a token account.
LEMMA FundAtaFact ==
  ASSUME NEW A, NEW L, Sound(L, A), NEW x \in A, NEW a \in Atas(A), NEW n \in Nat,
         NEW R, R = FundAta(L, x, a, n)
  PROVE  /\ Sound(R, A) /\ Extends(L, R, {a}, A)
         /\ R.ok => R.ata[a] = [L.ata[a] EXCEPT !.lamports = @ + n] /\ L.ata[a].live
<1> DEFINE P == SubLamports(L, x, n)
<1>1. Sound(P, A) /\ Extends(L, P, {}, A) /\ P.ata[a] = L.ata[a]
  BY SubLamportsFact DEF Extends
<1> HIDE DEF P
<1>2. FundAta(L, x, a, n) = AddAtaLamports(P, a, n)
  BY DEF FundAta, P
<1> QED BY <1>1, <1>2, AddAtaLamportsFact DEF Extends

\* A new token account is empty; an existing one is never replaced.
LEMMA OpenAtaFact ==
  ASSUME NEW A, NEW L, Sound(L, A), NEW x \in A, NEW a \in Atas(A),
         NEW R, R = OpenAta(L, x, a)
  PROVE  /\ Sound(R, A) /\ Extends(L, R, {a}, A)
         /\ R.ok => ~L.ata[a].live /\ R.ata[a].live /\ R.ata[a].amount = 0
<1> DEFINE P == SubLamports(L, x, RENT_ATA)
           v == [live |-> TRUE, amount |-> 0, lamports |-> RENT_ATA]
<1>1. Sound(P, A) /\ Extends(L, P, {}, A) /\ P.ata[a] = L.ata[a] /\ P \in Bank(A)
  BY SubLamportsFact, LedgerAssumption DEF Extends, Sound
<1> HIDE DEF P
<1>2. OpenAta(L, x, a) = Attempt(P, ~P.ata[a].live, [P EXCEPT !.ata[a] = v])
  BY DEF OpenAta, P
<1>3. CASE P.ok /\ ~P.ata[a].live
  <2>1. v \in AtaState /\ v.lamports >= RENT_ATA + TokenLamports(a, v.amount)
    BY LedgerAssumption DEF AtaState, TokenLamports
  <2>2. OpenAta(L, x, a) = [P EXCEPT !.ata[a] = v]
    BY <1>2, <1>3 DEF Attempt
  <2>3. v.live /\ v.amount = 0
    OBVIOUS
  <2> HIDE DEF v
  <2> QED BY <1>1, <1>3, <2>1, <2>2, <2>3, SetBackedAta DEF Extends
<1>4. CASE ~(P.ok /\ ~P.ata[a].live)
  BY <1>1, <1>2, <1>4, Fail DEF Sound, Backed, Extends, Attempt
<1> QED BY <1>3, <1>4

\* init_if_needed leaves an existing token account as it is.
LEMMA InitIfNeededAtaFact ==
  ASSUME NEW A, NEW L, Sound(L, A), NEW x \in A, NEW a \in Atas(A),
         NEW R, R = InitIfNeededAta(L, x, a)
  PROVE  /\ Sound(R, A) /\ Extends(L, R, {a}, A)
         /\ R.ok => R.ata[a].live
         /\ (R.ok /\ L.ata[a].live) => R.ata[a] = L.ata[a]
         /\ (R.ok /\ ~L.ata[a].live) => R.ata[a].amount = 0
<1>1. CASE L.ata[a].live
  BY <1>1 DEF InitIfNeededAta, Extends
<1>2. CASE ~L.ata[a].live
  BY <1>2, OpenAtaFact DEF InitIfNeededAta
<1> QED BY <1>1, <1>2

\* TakeTokens takes exactly n tokens and never more than there are.
LEMMA TakeTokensFact ==
  ASSUME NEW A, NEW L, Sound(L, A), NEW a \in Atas(A), NEW n \in Nat,
         NEW R, R = TakeTokens(L, a, n)
  PROVE  /\ Sound(R, A) /\ Extends(L, R, {a}, A)
         /\ R.ok => /\ L.ata[a].live /\ R.ata[a].live
                    /\ R.ata[a].amount = L.ata[a].amount - n
<1> DEFINE cond == /\ L.ata[a].live
                   /\ n <= L.ata[a].amount
                   /\ TokenLamports(a, n) <= L.ata[a].lamports
           v == [live |-> TRUE, amount |-> L.ata[a].amount - n,
                 lamports |-> L.ata[a].lamports - TokenLamports(a, n)]
           M == [L EXCEPT !.ata[a] = v]
<1>1. L \in Bank(A) /\ L.ata[a] \in AtaState
  BY DEF Sound, Bank, Atas
<1>2. CASE L.ok /\ cond
  <2>1. v \in AtaState
    BY <1>1, <1>2 DEF AtaState, TokenLamports
  <2>2. L.ata[a].lamports >= RENT_ATA + TokenLamports(a, L.ata[a].amount)
    BY <1>2 DEF Sound, Backed
  <2>3. v.lamports >= RENT_ATA + TokenLamports(a, v.amount)
    BY <1>1, <2>2, LedgerAssumption DEF AtaState, TokenLamports
  <2>4. TakeTokens(L, a, n) = M
    BY <1>2 DEF TakeTokens, Attempt
  <2>5. v.live /\ v.amount = L.ata[a].amount - n
    OBVIOUS
  <2> HIDE DEF v
  <2>6. /\ Sound(M, A) /\ M.ata[a] = v /\ M.ok = L.ok
        /\ \A b \in Atas(A) \ {a} : M.ata[b] = L.ata[b]
    BY <2>1, <2>3, SetBackedAta
  <2> HIDE DEF M
  <2> QED BY <1>2, <2>4, <2>5, <2>6 DEF Extends
<1>3. CASE ~(L.ok /\ cond)
  BY <1>1, <1>3, Fail DEF Sound, Backed, Extends, TakeTokens, Attempt
<1> QED BY <1>2, <1>3

\* PutTokens adds exactly n tokens.
LEMMA PutTokensFact ==
  ASSUME NEW A, NEW L, Sound(L, A), NEW a \in Atas(A), NEW n \in Nat,
         NEW R, R = PutTokens(L, a, n)
  PROVE  /\ Sound(R, A) /\ Extends(L, R, {a}, A)
         /\ R.ok => /\ L.ata[a].live /\ R.ata[a].live
                    /\ R.ata[a].amount = L.ata[a].amount + n
                    /\ R.ata[a].lamports >= L.ata[a].lamports
<1> DEFINE v == [live |-> TRUE, amount |-> L.ata[a].amount + n,
                 lamports |-> L.ata[a].lamports + TokenLamports(a, n)]
           M == [L EXCEPT !.ata[a] = v]
<1>1. L \in Bank(A) /\ L.ata[a] \in AtaState
  BY DEF Sound, Bank, Atas
<1>2. CASE L.ok /\ L.ata[a].live
  <2>1. v \in AtaState
    BY <1>1 DEF AtaState, TokenLamports
  <2>2. L.ata[a].lamports >= RENT_ATA + TokenLamports(a, L.ata[a].amount)
    BY <1>2 DEF Sound, Backed
  <2>3. v.lamports >= RENT_ATA + TokenLamports(a, v.amount)
    BY <1>1, <2>2, LedgerAssumption DEF AtaState, TokenLamports
  <2>4. PutTokens(L, a, n) = M
    BY <1>2 DEF PutTokens, Attempt
  <2>5. v.live /\ v.amount = L.ata[a].amount + n /\ v.lamports >= L.ata[a].lamports
    BY <1>1 DEF AtaState, TokenLamports
  <2> HIDE DEF v
  <2>6. /\ Sound(M, A) /\ M.ata[a] = v /\ M.ok = L.ok
        /\ \A b \in Atas(A) \ {a} : M.ata[b] = L.ata[b]
    BY <2>1, <2>3, SetBackedAta
  <2> HIDE DEF M
  <2> QED BY <1>2, <2>4, <2>5, <2>6 DEF Extends
<1>3. CASE ~(L.ok /\ L.ata[a].live)
  BY <1>1, <1>3, Fail DEF Sound, Backed, Extends, PutTokens, Attempt
<1> QED BY <1>2, <1>3

\* A token transfer between two accounts moves n tokens from one to the other.
LEMMA TransferTokensFact ==
  ASSUME NEW A, NEW L, Sound(L, A), NEW a \in Atas(A), NEW b \in Atas(A), a # b,
         NEW n \in Nat,
         NEW R, R = TransferTokens(L, a, b, n)
  PROVE  /\ Sound(R, A) /\ Extends(L, R, {a, b}, A)
         /\ R.ok => /\ L.ata[a].live /\ R.ata[a].live
                    /\ L.ata[b].live /\ R.ata[b].live
                    /\ R.ata[a].amount = L.ata[a].amount - n
                    /\ R.ata[b].amount = L.ata[b].amount + n
                    /\ R.ata[b].lamports >= L.ata[b].lamports
<1> DEFINE T == TakeTokens(L, a, n)
           M == PutTokens(T, b, n)
<1>0. T = TakeTokens(L, a, n)
  OBVIOUS
<1> HIDE DEF T
<1>1. /\ Sound(T, A) /\ Extends(L, T, {a}, A)
      /\ T.ok => /\ L.ata[a].live /\ T.ata[a].live
                 /\ T.ata[a].amount = L.ata[a].amount - n
  BY <1>0, TakeTokensFact
<1>2. /\ Sound(M, A) /\ Extends(T, M, {b}, A)
      /\ M.ok => /\ T.ata[b].live /\ M.ata[b].live
                 /\ M.ata[b].amount = T.ata[b].amount + n
                 /\ M.ata[b].lamports >= T.ata[b].lamports
  BY <1>1, PutTokensFact
<1>3. TransferTokens(L, a, b, n) = M
  BY <1>0 DEF TransferTokens
<1> HIDE DEF M
<1> QED BY <1>1, <1>2, <1>3 DEF Extends

\* A closed token account keeps nothing.
LEMMA CloseAtaFact ==
  ASSUME NEW A, NEW L, Sound(L, A), NEW a \in Atas(A), NEW x \in A,
         NEW R, R = CloseAta(L, a, x)
  PROVE  Sound(R, A) /\ Extends(L, R, {a}, A)
<1> DEFINE cond == L.ata[a].live /\ (L.ata[a].amount = 0 \/ a[2] = NATIVE_MINT)
           C == AddLamports(L, x, L.ata[a].lamports)
           M == [C EXCEPT !.ata[a] = NoAta]
<1>1. L.ata[a].lamports \in Nat
  BY DEF Sound, Bank, Atas, AtaState
<1>2. Sound(C, A) /\ Extends(L, C, {}, A) /\ C \in Bank(A)
  BY <1>1, AddLamportsFact DEF Sound
<1> HIDE DEF C
<1>3. CloseAta(L, a, x) = Attempt(C, cond, M)
  BY DEF CloseAta, C
<1>4. CASE C.ok /\ cond
  <2>1. NoAta \in AtaState /\ ~NoAta.live
    BY DEF NoAta, AtaState
  <2>2. /\ Sound(M, A) /\ M.ok = C.ok
        /\ \A b \in Atas(A) \ {a} : M.ata[b] = C.ata[b]
    BY <1>2, <2>1, SetBackedAta
  <2>3. CloseAta(L, a, x) = M
    BY <1>3, <1>4 DEF Attempt
  <2> HIDE DEF M
  <2> QED BY <1>2, <2>2, <2>3 DEF Extends
<1>5. CASE ~(C.ok /\ cond)
  BY <1>2, <1>3, <1>5, Fail DEF Sound, Backed, Extends, Attempt
<1> QED BY <1>4, <1>5

\* sync_native turns into tokens all lamports beyond the reserve.
LEMMA SyncNativeFact ==
  ASSUME NEW A, NEW L, Sound(L, A), NEW a \in Atas(A),
         NEW R, R = SyncNative(L, a)
  PROVE  /\ Sound(R, A) /\ Extends(L, R, {a}, A)
         /\ R.ok => /\ L.ata[a].live /\ R.ata[a].live /\ a[2] = NATIVE_MINT
                    /\ R.ata[a].amount = L.ata[a].lamports - RENT_ATA
                    /\ R.ata[a].amount >= L.ata[a].amount
                    /\ R.ata[a].lamports = L.ata[a].lamports
<1> DEFINE cond == /\ L.ata[a].live
                   /\ a[2] = NATIVE_MINT
                   /\ L.ata[a].lamports >= RENT_ATA + L.ata[a].amount
           v == [live |-> TRUE, amount |-> L.ata[a].lamports - RENT_ATA,
                 lamports |-> L.ata[a].lamports]
           M == [L EXCEPT !.ata[a] = v]
<1>1. L \in Bank(A) /\ L.ata[a] \in AtaState
  BY DEF Sound, Bank, Atas
<1>2. CASE L.ok /\ cond
  <2>1. /\ v \in AtaState /\ v.lamports >= RENT_ATA + TokenLamports(a, v.amount)
        /\ v.amount >= L.ata[a].amount
    BY <1>1, <1>2, LedgerAssumption DEF AtaState, TokenLamports
  <2>2. SyncNative(L, a) = M
    BY <1>2 DEF SyncNative, Attempt
  <2>3. v.live /\ v.amount = L.ata[a].lamports - RENT_ATA /\ v.lamports = L.ata[a].lamports
    OBVIOUS
  <2> HIDE DEF v
  <2>4. /\ Sound(M, A) /\ M.ata[a] = v /\ M.ok = L.ok
        /\ \A b \in Atas(A) \ {a} : M.ata[b] = L.ata[b]
    BY <2>1, SetBackedAta
  <2> HIDE DEF M
  <2> QED BY <1>2, <2>1, <2>2, <2>3, <2>4 DEF Extends
<1>3. CASE ~(L.ok /\ cond)
  BY <1>1, <1>3, Fail DEF Sound, Backed, Extends, SyncNative, Attempt
<1> QED BY <1>2, <1>3

-----------------------------------------------------------------------------
\* The transfers of common/src/escrow.rs.

\* uni_transfer of tokens, zero included.
LEMMA UniTransferTokenFact ==
  ASSUME NEW A, NEW L, Sound(L, A), NEW a \in Atas(A), NEW b \in Atas(A), a # b,
         NEW n \in Nat,
         NEW R, R = UniTransferToken(L, a, b, n)
  PROVE  /\ Sound(R, A) /\ Extends(L, R, {a, b}, A)
         /\ (R.ok /\ L.ata[a].live) =>
              R.ata[a].live /\ R.ata[a].amount = L.ata[a].amount - n
         /\ (R.ok /\ L.ata[b].live) =>
              R.ata[b].live /\ R.ata[b].amount = L.ata[b].amount + n
<1>1. L.ata[a].amount \in Nat /\ L.ata[b].amount \in Nat
  BY DEF Sound, Bank, Atas, AtaState
<1>2. CASE n = 0
  BY <1>1, <1>2 DEF UniTransferToken, Extends
<1>3. CASE n # 0
  BY <1>3, TransferTokensFact DEF UniTransferToken
<1> QED BY <1>2, <1>3

\* uni_transfer of lamports to a wallet.
LEMMA UniTransferNativeFact ==
  ASSUME NEW A, NEW L, Sound(L, A), NEW x \in A, NEW y \in A, NEW n \in Nat
  PROVE  Sound(UniTransferNative(L, x, y, n), A) /\ Extends(L, UniTransferNative(L, x, y, n), {}, A)
BY MoveLamportsFact DEF UniTransferNative, Extends

\* uni_transfer of lamports to a token account.
LEMMA UniTransferToAtaFact ==
  ASSUME NEW A, NEW L, Sound(L, A), NEW x \in A, NEW a \in Atas(A), NEW n \in Nat,
         NEW R, R = UniTransferToAta(L, x, a, n)
  PROVE  /\ Sound(R, A) /\ Extends(L, R, {a}, A)
         /\ R.ok => /\ L.ata[a].live => R.ata[a].live
                    /\ R.ata[a].amount = L.ata[a].amount
                    /\ R.ata[a].lamports = L.ata[a].lamports + n
<1>1. L.ata[a] \in AtaState
  BY DEF Sound, Bank, Atas
<1>2. CASE n = 0
  BY <1>1, <1>2 DEF UniTransferToAta, Extends, AtaState
<1>3. CASE n # 0
  <2> DEFINE M == FundAta(L, x, a, n)
  <2>1. /\ Sound(M, A) /\ Extends(L, M, {a}, A)
        /\ M.ok => M.ata[a] = [L.ata[a] EXCEPT !.lamports = @ + n]
    BY FundAtaFact
  <2>2. UniTransferToAta(L, x, a, n) = M
    BY <1>3 DEF UniTransferToAta
  <2> HIDE DEF M
  <2> QED BY <1>1, <2>1, <2>2 DEF AtaState
<1> QED BY <1>2, <1>3

\* The payout of an escrow's tokens touches the two token accounts it names.
LEMMA WithdrawAndCloseFact ==
  ASSUME NEW A, NEW L, Sound(L, A), NEW a \in Atas(A), NEW b \in Atas(A), a # b,
         NEW x \in A,
         NEW R, R = WithdrawAndCloseTokenAta(L, a, b, x)
  PROVE  Sound(R, A) /\ Extends(L, R, {a, b}, A)
<1> DEFINE n == L.ata[a].amount
           T == UniTransferToken(L, a, b, n)
           M == CloseAta(T, a, x)
<1>1. n \in Nat
  BY DEF Sound, Bank, Atas, AtaState
<1> HIDE DEF n
<1>2. Sound(T, A) /\ Extends(L, T, {a, b}, A)
  BY <1>1, UniTransferTokenFact
<1>3. WithdrawAndCloseTokenAta(L, a, b, x) = M
  BY DEF WithdrawAndCloseTokenAta, n
<1> HIDE DEF T
<1>4. Sound(M, A) /\ Extends(T, M, {a}, A)
  BY <1>2, CloseAtaFact
<1> HIDE DEF M
<1> QED BY <1>2, <1>3, <1>4, ExtendsTransitive

\* The payout of a native asset closes the escrow's token account.
LEMMA ProcessPayoutFact ==
  ASSUME NEW A, NEW L, Sound(L, A), NEW x \in A, NEW r \in A, x # r, NEW y \in A,
         NEW m \in Mints, NEW native \in BOOLEAN, NEW n \in Nat,
         NEW R, R = ProcessPayout(L, x, m, native, n, r, y)
  PROVE  Sound(R, A) /\ Extends(L, R, {Ata(x, m), Ata(r, m)}, A)
<1>1. Ata(x, m) \in Atas(A) /\ Ata(r, m) \in Atas(A) /\ Ata(x, m) # Ata(r, m)
  BY DEF Ata, Atas
<1>2. CASE native
  <2> DEFINE C == CloseAta(L, Ata(x, m), x)
             M == MoveLamports(C, x, r, n)
  <2>1. Sound(C, A) /\ Extends(L, C, {Ata(x, m)}, A)
    BY <1>1, CloseAtaFact
  <2>2. ProcessPayout(L, x, m, native, n, r, y) = M
    BY <1>2 DEF ProcessPayout
  <2> HIDE DEF C
  <2>3. Sound(M, A) /\ Extends(C, M, {}, A)
    BY <2>1, MoveLamportsFact
  <2> HIDE DEF M
  <2> QED BY <2>1, <2>2, <2>3 DEF Extends
<1>3. CASE ~native
  BY <1>1, <1>3, WithdrawAndCloseFact DEF ProcessPayout
<1> QED BY <1>2, <1>3

\* The safety deposit is lamports.
LEMMA PaySafetyDepositFact ==
  ASSUME NEW A, NEW L, Sound(L, A), NEW x \in A, NEW y \in A, NEW r \in A,
         NEW n \in Nat,
         NEW R, R = PaySafetyDeposit(L, x, n, y, r)
  PROVE  Sound(R, A) /\ Extends(L, R, {}, A)
BY MoveLamportsFact DEF PaySafetyDeposit, Extends

\* A rescue touches the two token accounts it names.
LEMMA RescueFundsFact ==
  ASSUME NEW A, NEW L, Sound(L, A), NEW x \in A, NEW r \in A, x # r,
         NEW m \in Mints, NEW n \in Nat,
         NEW R, R = RescueFunds(L, x, r, m, n)
  PROVE  Sound(R, A) /\ Extends(L, R, {Ata(x, m), Ata(r, m)}, A)
<1> DEFINE T == UniTransferToken(L, Ata(x, m), Ata(r, m), n)
           M == CloseAta(T, Ata(x, m), r)
<1>1. Ata(x, m) \in Atas(A) /\ Ata(r, m) \in Atas(A) /\ Ata(x, m) # Ata(r, m)
  BY DEF Ata, Atas
<1>2. Sound(T, A) /\ Extends(L, T, {Ata(x, m), Ata(r, m)}, A)
  BY <1>1, UniTransferTokenFact
<1>3. RescueFunds(L, x, r, m, n) \in {M, T}
  BY DEF RescueFunds
<1> HIDE DEF T
<1>4. Sound(M, A) /\ Extends(T, M, {Ata(x, m)}, A)
  BY <1>1, <1>2, CloseAtaFact
<1> HIDE DEF M
<1>5. Extends(L, M, {Ata(x, m), Ata(r, m)}, A)
  BY <1>2, <1>4, ExtendsTransitive
<1> QED BY <1>2, <1>3, <1>4, <1>5

-----------------------------------------------------------------------------
\* When each operator succeeds, and what it then does to the lamports and to the
\* token accounts that it names.

\* The parts of a bank.
LEMMA BankParts ==
  ASSUME NEW A, NEW L, Sound(L, A)
  PROVE  /\ L \in Bank(A) /\ L.sol \in [A -> Nat] /\ L.ata \in [Atas(A) -> AtaState]
         /\ L.ok \in BOOLEAN
         /\ \A x \in A : L.sol[x] \in Nat
         /\ \A a \in Atas(A) :
              /\ L.ata[a] \in AtaState /\ L.ata[a].live \in BOOLEAN
              /\ L.ata[a].amount \in Nat /\ L.ata[a].lamports \in Nat
              /\ L.ata[a].live => L.ata[a].lamports >= RENT_ATA + TokenLamports(a, L.ata[a].amount)
BY DEF Sound, Backed, Bank, Atas, AtaState

\* A change of the lamports of one address changes no other part of the bank.
LEMMA SolChange ==
  ASSUME NEW A, NEW L \in Bank(A), NEW x \in A, NEW v
  PROVE  /\ [L EXCEPT !.sol[x] = v].ata = L.ata
         /\ [L EXCEPT !.sol[x] = v].ok = L.ok
         /\ [L EXCEPT !.sol[x] = v].sol[x] = v
         /\ \A z \in A \ {x} : [L EXCEPT !.sol[x] = v].sol[z] = L.sol[z]
BY DEF Bank

\* A change of one token account changes no other part of the bank.
LEMMA AtaChange ==
  ASSUME NEW A, NEW L \in Bank(A), NEW a \in Atas(A), NEW v
  PROVE  /\ [L EXCEPT !.ata[a] = v].sol = L.sol
         /\ [L EXCEPT !.ata[a] = v].ok = L.ok
         /\ [L EXCEPT !.ata[a] = v].ata[a] = v
         /\ \A b \in Atas(A) \ {a} : [L EXCEPT !.ata[a] = v].ata[b] = L.ata[b]
BY DEF Bank, Atas

\* SubLamports succeeds exactly if there are enough.
LEMMA SubLamportsEffect ==
  ASSUME NEW A, NEW L, Sound(L, A), NEW x \in A, NEW n \in Nat,
         NEW R, R = SubLamports(L, x, n)
  PROVE  /\ R.ok <=> L.ok /\ n <= L.sol[x]
         /\ R.ata = L.ata
         /\ R.ok => /\ R.sol[x] = L.sol[x] - n
                    /\ \A z \in A \ {x} : R.sol[z] = L.sol[z]
<1>1. L \in Bank(A)
  BY DEF Sound
<1>2. CASE L.ok /\ n <= L.sol[x]
  BY <1>1, <1>2, SolChange DEF SubLamports, Attempt
<1>3. CASE ~(L.ok /\ n <= L.sol[x])
  BY <1>1, <1>3, Fail DEF SubLamports, Attempt
<1> QED BY <1>2, <1>3

\* AddLamports never fails.
LEMMA AddLamportsEffect ==
  ASSUME NEW A, NEW L, Sound(L, A), NEW x \in A, NEW n \in Nat,
         NEW R, R = AddLamports(L, x, n)
  PROVE  /\ R.ok <=> L.ok
         /\ R.ata = L.ata
         /\ R.ok => /\ R.sol[x] = L.sol[x] + n
                    /\ \A z \in A \ {x} : R.sol[z] = L.sol[z]
<1>1. L \in Bank(A)
  BY DEF Sound
<1>2. CASE L.ok
  <2>1. R = [L EXCEPT !.sol[x] = L.sol[x] + n]
    BY <1>2 DEF AddLamports, Attempt
  <2> QED BY <1>1, <1>2, <2>1, SolChange
<1>3. CASE ~L.ok
  <2>1. R = [L EXCEPT !.ok = FALSE]
    BY <1>3 DEF AddLamports, Attempt
  <2> QED BY <1>1, <1>3, <2>1, Fail
<1> QED BY <1>2, <1>3

\* A transfer of lamports between two addresses.
LEMMA MoveLamportsEffect ==
  ASSUME NEW A, NEW L, Sound(L, A), NEW x \in A, NEW y \in A, NEW n \in Nat,
         NEW R, R = MoveLamports(L, x, y, n)
  PROVE  /\ R.ok <=> L.ok /\ n <= L.sol[x]
         /\ R.ata = L.ata
         /\ (R.ok /\ x # y) => R.sol[x] = L.sol[x] - n /\ R.sol[y] = L.sol[y] + n
         /\ (R.ok /\ x = y) => R.sol[x] = L.sol[x]
         /\ R.ok => \A z \in A \ {x, y} : R.sol[z] = L.sol[z]
<1> DEFINE M == SubLamports(L, x, n)
<1>0. M = SubLamports(L, x, n) /\ R = AddLamports(M, y, n)
  BY DEF MoveLamports
<1> HIDE DEF M
<1>1. /\ M.ok <=> L.ok /\ n <= L.sol[x]
      /\ M.ata = L.ata
      /\ M.ok => /\ M.sol[x] = L.sol[x] - n
                 /\ \A z \in A \ {x} : M.sol[z] = L.sol[z]
  BY <1>0, SubLamportsEffect
<1>2. Sound(M, A)
  BY <1>0, SubLamportsFact
<1>4. /\ R.ok <=> M.ok
      /\ R.ata = M.ata
      /\ R.ok => /\ R.sol[y] = M.sol[y] + n
                 /\ \A z \in A \ {y} : R.sol[z] = M.sol[z]
  BY <1>0, <1>2, AddLamportsEffect
<1>5. L.sol[x] \in Nat /\ L.sol[y] \in Nat
  BY BankParts
<1>6. CASE x = y
  BY <1>1, <1>4, <1>5, <1>6
<1>7. CASE x # y
  BY <1>1, <1>4, <1>7
<1> QED BY <1>6, <1>7

\* The close of a program account never fails and leaves nothing.
LEMMA CloseAccountEffect ==
  ASSUME NEW A, NEW L, Sound(L, A), NEW x \in A, NEW y \in A, x # y,
         NEW R, R = CloseAccount(L, x, y)
  PROVE  /\ R.ok <=> L.ok
         /\ R.ata = L.ata
         /\ R.ok => /\ R.sol[x] = 0 /\ R.sol[y] = L.sol[y] + L.sol[x]
                    /\ \A z \in A \ {x, y} : R.sol[z] = L.sol[z]
<1>1. L.sol[x] \in Nat
  BY BankParts
<1>2. R = MoveLamports(L, x, y, L.sol[x])
  BY DEF CloseAccount
<1>3. L.sol[x] <= L.sol[x] /\ L.sol[x] - L.sol[x] = 0
  BY <1>1
<1>4. /\ R.ok <=> L.ok /\ L.sol[x] <= L.sol[x]
      /\ R.ata = L.ata
      /\ R.ok => R.sol[x] = L.sol[x] - L.sol[x] /\ R.sol[y] = L.sol[y] + L.sol[x]
      /\ R.ok => \A z \in A \ {x, y} : R.sol[z] = L.sol[z]
  BY <1>1, <1>2, MoveLamportsEffect
<1> QED BY <1>3, <1>4

\* A new token account costs its reserve.
LEMMA OpenAtaEffect ==
  ASSUME NEW A, NEW L, Sound(L, A), NEW x \in A, NEW a \in Atas(A),
         NEW R, R = OpenAta(L, x, a)
  PROVE  /\ R.ok <=> L.ok /\ RENT_ATA <= L.sol[x] /\ ~L.ata[a].live
         /\ R.ok => /\ R.sol[x] = L.sol[x] - RENT_ATA
                    /\ \A z \in A \ {x} : R.sol[z] = L.sol[z]
                    /\ R.ata[a] = [live |-> TRUE, amount |-> 0, lamports |-> RENT_ATA]
<1> DEFINE P == SubLamports(L, x, RENT_ATA)
           v == [live |-> TRUE, amount |-> 0, lamports |-> RENT_ATA]
           M == [P EXCEPT !.ata[a] = v]
<1>1. /\ P.ok <=> L.ok /\ RENT_ATA <= L.sol[x]
      /\ P.ata = L.ata
      /\ P.ok => /\ P.sol[x] = L.sol[x] - RENT_ATA
                 /\ \A z \in A \ {x} : P.sol[z] = L.sol[z]
  BY LedgerAssumption, SubLamportsEffect
<1>2. P \in Bank(A)
  BY LedgerAssumption, SubLamportsFact DEF Sound
<1>3. R = Attempt(P, ~P.ata[a].live, M)
  BY DEF OpenAta
<1> HIDE DEF P, v
<1>4. M.sol = P.sol /\ M.ok = P.ok /\ M.ata[a] = v
  BY <1>2, AtaChange
<1>5. CASE P.ok /\ ~P.ata[a].live
  <2>1. R = M
    BY <1>3, <1>5 DEF Attempt
  <2> HIDE DEF M
  <2> QED BY <1>1, <1>4, <1>5, <2>1 DEF v
<1>6. CASE ~(P.ok /\ ~P.ata[a].live)
  BY <1>1, <1>2, <1>3, <1>6, Fail DEF Attempt
<1> QED BY <1>5, <1>6

\* TakeTokens takes tokens, with the lamports of wrapped SOL, if they are there.
LEMMA TakeTokensEffect ==
  ASSUME NEW A, NEW L, Sound(L, A), NEW a \in Atas(A), NEW n \in Nat,
         NEW R, R = TakeTokens(L, a, n)
  PROVE  /\ R.ok <=> L.ok /\ L.ata[a].live /\ n <= L.ata[a].amount
         /\ R.sol = L.sol
         /\ R.ok => R.ata[a] = [live |-> TRUE, amount |-> L.ata[a].amount - n,
                                lamports |-> L.ata[a].lamports - TokenLamports(a, n)]
<1> DEFINE v == [live |-> TRUE, amount |-> L.ata[a].amount - n,
                 lamports |-> L.ata[a].lamports - TokenLamports(a, n)]
           M == [L EXCEPT !.ata[a] = v]
           cond == L.ata[a].live /\ n <= L.ata[a].amount
<1>1. L \in Bank(A) /\ L.ata[a].amount \in Nat /\ L.ata[a].lamports \in Nat
  BY BankParts
<1>2. cond => TokenLamports(a, n) <= L.ata[a].lamports
  <2> SUFFICES ASSUME cond PROVE TokenLamports(a, n) <= L.ata[a].lamports
    OBVIOUS
  <2>1. L.ata[a].lamports >= RENT_ATA + TokenLamports(a, L.ata[a].amount)
    BY BankParts
  <2> QED BY <1>1, <2>1, LedgerAssumption DEF TokenLamports
<1>3. R = IF L.ok /\ cond THEN M ELSE [L EXCEPT !.ok = FALSE]
  BY <1>2 DEF TakeTokens, Attempt
<1> HIDE DEF v, cond
<1>4. M.sol = L.sol /\ M.ok = L.ok /\ M.ata[a] = v
  BY <1>1, AtaChange
<1>5. CASE L.ok /\ cond
  <2>1. R = M
    BY <1>3, <1>5
  <2> HIDE DEF M
  <2> QED BY <1>4, <1>5, <2>1 DEF v, cond
<1>6. CASE ~(L.ok /\ cond)
  <2>1. R = [L EXCEPT !.ok = FALSE] /\ R.sol = L.sol
    BY <1>1, <1>3, <1>6 DEF Bank
  <2>2. R.ok = FALSE
    BY <1>1, <2>1, Fail
  <2> QED BY <1>6, <2>1, <2>2 DEF cond
<1> QED BY <1>5, <1>6

\* PutTokens only needs the account.
LEMMA PutTokensEffect ==
  ASSUME NEW A, NEW L, Sound(L, A), NEW a \in Atas(A), NEW n \in Nat,
         NEW R, R = PutTokens(L, a, n)
  PROVE  /\ R.ok <=> L.ok /\ L.ata[a].live
         /\ R.sol = L.sol
         /\ R.ok => R.ata[a] = [live |-> TRUE, amount |-> L.ata[a].amount + n,
                                lamports |-> L.ata[a].lamports + TokenLamports(a, n)]
<1> DEFINE v == [live |-> TRUE, amount |-> L.ata[a].amount + n,
                 lamports |-> L.ata[a].lamports + TokenLamports(a, n)]
           M == [L EXCEPT !.ata[a] = v]
<1>1. L \in Bank(A)
  BY DEF Sound
<1>2. R = IF L.ok /\ L.ata[a].live THEN M ELSE [L EXCEPT !.ok = FALSE]
  BY DEF PutTokens, Attempt
<1> HIDE DEF v
<1>3. M.sol = L.sol /\ M.ok = L.ok /\ M.ata[a] = v
  BY <1>1, AtaChange
<1>4. CASE L.ok /\ L.ata[a].live
  <2>1. R = M
    BY <1>2, <1>4
  <2> HIDE DEF M
  <2> QED BY <1>3, <1>4, <2>1 DEF v
<1>5. CASE ~(L.ok /\ L.ata[a].live)
  <2>1. R = [L EXCEPT !.ok = FALSE] /\ R.sol = L.sol
    BY <1>1, <1>2, <1>5 DEF Bank
  <2>2. R.ok = FALSE
    BY <1>1, <2>1, Fail
  <2> QED BY <1>5, <2>1, <2>2
<1> QED BY <1>4, <1>5

\* A token transfer succeeds if both accounts are open and the tokens are there.
LEMMA TransferTokensEffect ==
  ASSUME NEW A, NEW L, Sound(L, A), NEW a \in Atas(A), NEW b \in Atas(A), a # b,
         NEW n \in Nat,
         NEW R, R = TransferTokens(L, a, b, n)
  PROVE  /\ R.ok <=> L.ok /\ L.ata[a].live /\ L.ata[b].live /\ n <= L.ata[a].amount
         /\ R.sol = L.sol
         /\ R.ok => /\ R.ata[a] = [live |-> TRUE, amount |-> L.ata[a].amount - n,
                                   lamports |-> L.ata[a].lamports - TokenLamports(a, n)]
                    /\ R.ata[b] = [live |-> TRUE, amount |-> L.ata[b].amount + n,
                                   lamports |-> L.ata[b].lamports + TokenLamports(b, n)]
<1> DEFINE T == TakeTokens(L, a, n)
<1>1. T = TakeTokens(L, a, n) /\ R = PutTokens(T, b, n)
  BY DEF TransferTokens
<1> HIDE DEF T
<1>2. /\ T.ok <=> L.ok /\ L.ata[a].live /\ n <= L.ata[a].amount
      /\ T.sol = L.sol
      /\ T.ok => T.ata[a] = [live |-> TRUE, amount |-> L.ata[a].amount - n,
                             lamports |-> L.ata[a].lamports - TokenLamports(a, n)]
  BY <1>1, TakeTokensEffect
<1>3. Sound(T, A) /\ T.ata[b] = L.ata[b]
  BY <1>1, TakeTokensFact DEF Extends
<1>4. /\ R.ok <=> T.ok /\ T.ata[b].live
      /\ R.sol = T.sol
      /\ R.ok => R.ata[b] = [live |-> TRUE, amount |-> T.ata[b].amount + n,
                             lamports |-> T.ata[b].lamports + TokenLamports(b, n)]
  BY <1>1, <1>3, PutTokensEffect
<1>5. R.ata[a] = T.ata[a]
  BY <1>1, <1>3, PutTokensFact DEF Extends
<1> QED BY <1>2, <1>3, <1>4, <1>5

\* uni_transfer of tokens: nothing is asked of a zero amount.
LEMMA UniTransferTokenEffect ==
  ASSUME NEW A, NEW L, Sound(L, A), NEW a \in Atas(A), NEW b \in Atas(A), a # b,
         NEW n \in Nat,
         NEW R, R = UniTransferToken(L, a, b, n)
  PROVE  /\ R.ok <=> /\ L.ok
                     /\ n = 0 \/ (L.ata[a].live /\ L.ata[b].live /\ n <= L.ata[a].amount)
         /\ R.sol = L.sol
         /\ R.ok => /\ R.ata[a].live = L.ata[a].live
                    /\ R.ata[a].amount = L.ata[a].amount - n
                    /\ R.ata[a].lamports = L.ata[a].lamports - TokenLamports(a, n)
                    /\ R.ata[b].live = L.ata[b].live
                    /\ R.ata[b].amount = L.ata[b].amount + n
                    /\ R.ata[b].lamports = L.ata[b].lamports + TokenLamports(b, n)
<1>1. /\ L.ata[a].amount \in Nat /\ L.ata[b].amount \in Nat
      /\ L.ata[a].lamports \in Nat /\ L.ata[b].lamports \in Nat
      /\ L.ata[a].live \in BOOLEAN /\ L.ata[b].live \in BOOLEAN
  BY BankParts
<1>2. CASE n = 0
  BY <1>1, <1>2 DEF UniTransferToken, TokenLamports
<1>3. CASE n # 0
  <2>1. R = TransferTokens(L, a, b, n)
    BY <1>3 DEF UniTransferToken
  <2>2. /\ R.ok <=> L.ok /\ L.ata[a].live /\ L.ata[b].live /\ n <= L.ata[a].amount
        /\ R.sol = L.sol
        /\ R.ok => /\ R.ata[a] = [live |-> TRUE, amount |-> L.ata[a].amount - n,
                                  lamports |-> L.ata[a].lamports - TokenLamports(a, n)]
                   /\ R.ata[b] = [live |-> TRUE, amount |-> L.ata[b].amount + n,
                                  lamports |-> L.ata[b].lamports + TokenLamports(b, n)]
    BY <2>1, TransferTokensEffect
  <2>3. R.ok <=> /\ L.ok
                 /\ n = 0 \/ (L.ata[a].live /\ L.ata[b].live /\ n <= L.ata[a].amount)
    BY <1>3, <2>2
  <2>4. ASSUME R.ok
        PROVE  /\ R.ata[a].live = L.ata[a].live
               /\ R.ata[a].amount = L.ata[a].amount - n
               /\ R.ata[a].lamports = L.ata[a].lamports - TokenLamports(a, n)
               /\ R.ata[b].live = L.ata[b].live
               /\ R.ata[b].amount = L.ata[b].amount + n
               /\ R.ata[b].lamports = L.ata[b].lamports + TokenLamports(b, n)
    <3>1. L.ata[a].live = TRUE /\ L.ata[b].live = TRUE
      BY <1>1, <2>2, <2>4
    <3>2. R.ata[a] = [live |-> TRUE, amount |-> L.ata[a].amount - n,
                      lamports |-> L.ata[a].lamports - TokenLamports(a, n)]
      BY <2>2, <2>4
    <3>3. R.ata[b] = [live |-> TRUE, amount |-> L.ata[b].amount + n,
                      lamports |-> L.ata[b].lamports + TokenLamports(b, n)]
      BY <2>2, <2>4
    <3>4. R.ata[a].live = TRUE /\ R.ata[b].live = TRUE
      BY <3>2, <3>3
    <3>5. R.ata[a].live = L.ata[a].live /\ R.ata[b].live = L.ata[b].live
      BY <3>1, <3>4
    <3>6. R.ata[a].amount = L.ata[a].amount - n /\ R.ata[b].amount = L.ata[b].amount + n
      BY <3>2, <3>3
    <3>7. /\ R.ata[a].lamports = L.ata[a].lamports - TokenLamports(a, n)
          /\ R.ata[b].lamports = L.ata[b].lamports + TokenLamports(b, n)
      BY <3>2, <3>3
    <3> QED BY <3>5, <3>6, <3>7
  <2> QED BY <2>2, <2>3, <2>4
<1> QED BY <1>2, <1>3

\* close_account gives all lamports of the account to x.
LEMMA CloseAtaEffect ==
  ASSUME NEW A, NEW L, Sound(L, A), NEW a \in Atas(A), NEW x \in A,
         NEW R, R = CloseAta(L, a, x)
  PROVE  /\ R.ok <=> L.ok /\ L.ata[a].live /\ (L.ata[a].amount = 0 \/ a[2] = NATIVE_MINT)
         /\ R.ok => /\ R.ata[a] = NoAta
                    /\ R.sol[x] = L.sol[x] + L.ata[a].lamports
                    /\ \A z \in A \ {x} : R.sol[z] = L.sol[z]
<1> DEFINE cond == L.ata[a].live /\ (L.ata[a].amount = 0 \/ a[2] = NATIVE_MINT)
           C == AddLamports(L, x, L.ata[a].lamports)
           M == [C EXCEPT !.ata[a] = NoAta]
<1>1. L.ata[a].lamports \in Nat
  BY BankParts
<1>2. /\ C.ok <=> L.ok
      /\ C.ata = L.ata
      /\ C.ok => /\ C.sol[x] = L.sol[x] + L.ata[a].lamports
                 /\ \A z \in A \ {x} : C.sol[z] = L.sol[z]
  BY <1>1, AddLamportsEffect
<1>3. C \in Bank(A)
  BY <1>1, AddLamportsFact DEF Sound
<1>4. R = IF C.ok /\ cond THEN M ELSE [C EXCEPT !.ok = FALSE]
  BY DEF CloseAta, Attempt
<1> HIDE DEF C, cond
<1>5. M.sol = C.sol /\ M.ok = C.ok /\ M.ata[a] = NoAta
  BY <1>3, AtaChange
<1>6. CASE C.ok /\ cond
  <2>1. R = M
    BY <1>4, <1>6
  <2> HIDE DEF M
  <2> QED BY <1>2, <1>5, <1>6, <2>1 DEF cond
<1>7. CASE ~(C.ok /\ cond)
  <2>1. R = [C EXCEPT !.ok = FALSE]
    BY <1>4, <1>7
  <2>2. R.ok = FALSE
    BY <1>3, <2>1, Fail
  <2> QED BY <1>2, <1>7, <2>2 DEF cond
<1> QED BY <1>6, <1>7

\* Lamports for a token account come out of the sender's.
LEMMA FundAtaEffect ==
  ASSUME NEW A, NEW L, Sound(L, A), NEW x \in A, NEW a \in Atas(A), NEW n \in Nat,
         NEW R, R = FundAta(L, x, a, n)
  PROVE  R.ok => /\ R.sol[x] = L.sol[x] - n
                 /\ \A z \in A \ {x} : R.sol[z] = L.sol[z]
<1> DEFINE P == SubLamports(L, x, n)
           M == [P EXCEPT !.ata[a].lamports = @ + n]
<1>1. P = SubLamports(L, x, n) /\ R = AddAtaLamports(P, a, n)
  BY DEF FundAta
<1> HIDE DEF P
<1>2. P.ok => /\ P.sol[x] = L.sol[x] - n
              /\ \A z \in A \ {x} : P.sol[z] = L.sol[z]
  BY <1>1, SubLamportsEffect
<1>3. P \in Bank(A)
  BY <1>1, SubLamportsFact DEF Sound
<1>4. CASE P.ok /\ P.ata[a].live
  <2>1. R = M
    BY <1>1, <1>4 DEF AddAtaLamports, Attempt
  <2>2. R.sol = P.sol
    BY <1>3, <2>1 DEF Bank
  <2> QED BY <1>2, <1>4, <2>2
<1>5. CASE ~(P.ok /\ P.ata[a].live)
  <2>1. R = [P EXCEPT !.ok = FALSE]
    BY <1>1, <1>5 DEF AddAtaLamports, Attempt
  <2>2. R.ok = FALSE
    BY <1>3, <2>1, Fail
  <2> QED BY <2>2
<1> QED BY <1>4, <1>5

\* sync_native moves no lamports.
LEMMA SyncNativeEffect ==
  ASSUME NEW A, NEW L, Sound(L, A), NEW a \in Atas(A),
         NEW R, R = SyncNative(L, a)
  PROVE  /\ R.sol = L.sol
         /\ R.ata[a].lamports = L.ata[a].lamports
<1> DEFINE cond == /\ L.ata[a].live
                   /\ a[2] = NATIVE_MINT
                   /\ L.ata[a].lamports >= RENT_ATA + L.ata[a].amount
           v == [live     |-> TRUE,
                 amount   |-> L.ata[a].lamports - RENT_ATA,
                 lamports |-> L.ata[a].lamports]
           M == [L EXCEPT !.ata[a] = v]
<1>1. R = IF L.ok /\ cond THEN M ELSE [L EXCEPT !.ok = FALSE]
  BY DEF SyncNative, Attempt
<1>2. v.lamports = L.ata[a].lamports
  OBVIOUS
<1>3. L \in Bank(A)
  BY BankParts
<1> HIDE DEF cond, v
<1>4. M.sol = L.sol /\ M.ata[a] = v
  BY <1>3, AtaChange
<1>5. [L EXCEPT !.ok = FALSE].sol = L.sol /\ [L EXCEPT !.ok = FALSE].ata = L.ata
  BY <1>3 DEF Bank
<1> HIDE DEF M
<1>6. CASE R = M
  BY <1>2, <1>4, <1>6
<1>7. CASE R = [L EXCEPT !.ok = FALSE]
  BY <1>5, <1>7
<1> QED BY <1>1, <1>6, <1>7

\* The account that init_if_needed opens costs its payer the reserve.
LEMMA InitIfNeededAtaEffect ==
  ASSUME NEW A, NEW L, Sound(L, A), NEW x \in A, NEW a \in Atas(A),
         NEW R, R = InitIfNeededAta(L, x, a)
  PROVE  /\ R.ok <=> L.ok /\ (L.ata[a].live \/ RENT_ATA <= L.sol[x])
         /\ R.ok => /\ R.ata[a].live
                    /\ R.sol[x] = L.sol[x] - (IF L.ata[a].live THEN 0 ELSE RENT_ATA)
                    /\ \A z \in A \ {x} : R.sol[z] = L.sol[z]
<1>1. L.sol[x] \in Nat
  BY BankParts
<1>2. CASE L.ata[a].live
  <2>1. R = L
    BY <1>2 DEF InitIfNeededAta
  <2>2. L.sol[x] - 0 = L.sol[x]
    BY <1>1
  <2> QED BY <1>2, <2>1, <2>2
<1>3. CASE ~L.ata[a].live
  <2>1. R = OpenAta(L, x, a)
    BY <1>3 DEF InitIfNeededAta
  <2>2. R.ok => R.ata[a].live
    BY InitIfNeededAtaFact
  <2>3. /\ R.ok <=> L.ok /\ RENT_ATA <= L.sol[x] /\ ~L.ata[a].live
        /\ R.ok => /\ R.sol[x] = L.sol[x] - RENT_ATA
                   /\ \A z \in A \ {x} : R.sol[z] = L.sol[z]
    BY <2>1, OpenAtaEffect
  <2>4. R.ok <=> L.ok /\ (L.ata[a].live \/ RENT_ATA <= L.sol[x])
    <3> DEFINE enough == RENT_ATA <= L.sol[x]
    <3>1. R.ok <=> L.ok /\ enough /\ ~L.ata[a].live
      BY <2>3
    <3> HIDE DEF enough
    <3>2. R.ok <=> L.ok /\ (L.ata[a].live \/ enough)
      BY <1>3, <3>1
    <3> QED BY <3>2 DEF enough
  <2>5. (IF L.ata[a].live THEN 0 ELSE RENT_ATA) = RENT_ATA
    BY <1>3
  <2>6. R.ok => R.sol[x] = L.sol[x] - (IF L.ata[a].live THEN 0 ELSE RENT_ATA)
    BY <2>3, <2>5
  <2> QED BY <2>2, <2>3, <2>4, <2>6
<1> QED BY <1>2, <1>3

\* uni_transfer of lamports between wallets.
LEMMA UniTransferNativeEffect ==
  ASSUME NEW A, NEW L, Sound(L, A), NEW x \in A, NEW y \in A, NEW n \in Nat,
         NEW R, R = UniTransferNative(L, x, y, n)
  PROVE  /\ R.ok <=> L.ok /\ n <= L.sol[x]
         /\ R.ata = L.ata
         /\ (R.ok /\ x # y) => R.sol[x] = L.sol[x] - n /\ R.sol[y] = L.sol[y] + n
         /\ (R.ok /\ x = y) => R.sol[x] = L.sol[x]
         /\ R.ok => \A z \in A \ {x, y} : R.sol[z] = L.sol[z]
<1>1. L.sol[x] \in Nat /\ L.sol[y] \in Nat
  BY BankParts
<1>2. CASE n = 0
  BY <1>1, <1>2 DEF UniTransferNative
<1>3. CASE n # 0
  <2>1. R = MoveLamports(L, x, y, n)
    BY <1>3 DEF UniTransferNative
  <2> QED BY <2>1, MoveLamportsEffect
<1> QED BY <1>2, <1>3

\* uni_transfer of lamports to a token account.
LEMMA UniTransferToAtaEffect ==
  ASSUME NEW A, NEW L, Sound(L, A), NEW x \in A, NEW a \in Atas(A), NEW n \in Nat,
         NEW R, R = UniTransferToAta(L, x, a, n)
  PROVE  R.ok => /\ R.sol[x] = L.sol[x] - n
                 /\ \A z \in A \ {x} : R.sol[z] = L.sol[z]
                 /\ R.ata[a].lamports = L.ata[a].lamports + n
<1>1. L.sol[x] \in Nat /\ L.ata[a].lamports \in Nat
  BY BankParts
<1>2. CASE n = 0
  BY <1>1, <1>2 DEF UniTransferToAta
<1>3. CASE n # 0
  <2>1. R = FundAta(L, x, a, n)
    BY <1>3 DEF UniTransferToAta
  <2>2. R.ok => R.ata[a].lamports = L.ata[a].lamports + n
    <3>1. L.ata[a] \in AtaState
      BY BankParts
    <3> DEFINE M == FundAta(L, x, a, n)
    <3>2. /\ Sound(M, A) /\ Extends(L, M, {a}, A)
          /\ M.ok => M.ata[a] = [L.ata[a] EXCEPT !.lamports = @ + n]
      BY FundAtaFact
    <3>3. R = M
      BY <2>1
    <3> HIDE DEF M
    <3> QED BY <3>1, <3>2, <3>3 DEF AtaState
  <2> QED BY <2>1, <2>2, FundAtaEffect
<1> QED BY <1>2, <1>3

\* withdraw_and_close_token_ata fails only if one of the accounts is closed; the
\* receiver gets all tokens and x all lamports that are none of the tokens'.
LEMMA WithdrawAndCloseEffect ==
  ASSUME NEW A, NEW L, Sound(L, A), NEW a \in Atas(A), NEW b \in Atas(A), a # b,
         a[2] = b[2], NEW x \in A,
         NEW R, R = WithdrawAndCloseTokenAta(L, a, b, x)
  PROVE  /\ (L.ok /\ L.ata[a].live /\ L.ata[b].live) => R.ok
         /\ R.ok => /\ L.ata[a].live /\ R.ata[a] = NoAta
                    /\ R.ata[b].live = L.ata[b].live
                    /\ R.ata[b].amount = L.ata[b].amount + L.ata[a].amount
                    /\ R.sol[x] = L.sol[x] + L.ata[a].lamports - TokenLamports(a, L.ata[a].amount)
                    /\ \A z \in A \ {x} : R.sol[z] = L.sol[z]
<1> DEFINE n == L.ata[a].amount
           T == UniTransferToken(L, a, b, n)
<1>1. T = UniTransferToken(L, a, b, n) /\ R = CloseAta(T, a, x)
  BY DEF WithdrawAndCloseTokenAta
<1>2. n \in Nat /\ n <= n /\ n - n = 0
  BY BankParts
<1>3. n = L.ata[a].amount
  OBVIOUS
<1> HIDE DEF T, n
<1>4. /\ T.ok <=> /\ L.ok
                  /\ n = 0 \/ (L.ata[a].live /\ L.ata[b].live /\ n <= L.ata[a].amount)
      /\ T.sol = L.sol
      /\ T.ok => /\ T.ata[a].live = L.ata[a].live
                 /\ T.ata[a].amount = L.ata[a].amount - n
                 /\ T.ata[a].lamports = L.ata[a].lamports - TokenLamports(a, n)
                 /\ T.ata[b].live = L.ata[b].live
                 /\ T.ata[b].amount = L.ata[b].amount + n
  BY <1>1, <1>2, UniTransferTokenEffect
<1>5. Sound(T, A)
  BY <1>1, <1>2, UniTransferTokenFact
<1>6. /\ R.ok <=> T.ok /\ T.ata[a].live /\ (T.ata[a].amount = 0 \/ a[2] = NATIVE_MINT)
      /\ R.ok => /\ R.ata[a] = NoAta
                 /\ R.sol[x] = T.sol[x] + T.ata[a].lamports
                 /\ \A z \in A \ {x} : R.sol[z] = T.sol[z]
  BY <1>1, <1>5, CloseAtaEffect
<1>7. R.ata[b] = T.ata[b]
  BY <1>1, <1>5, CloseAtaFact DEF Extends
<1>8. L.sol[x] \in Nat /\ L.ata[a].lamports \in Nat /\ TokenLamports(a, n) \in Nat
  BY <1>2, BankParts DEF TokenLamports
<1>9. (L.ok /\ L.ata[a].live /\ L.ata[b].live) => R.ok
  BY <1>2, <1>3, <1>4, <1>6
<1>10. ASSUME R.ok
       PROVE  /\ L.ata[a].live /\ R.ata[a] = NoAta
              /\ R.ata[b].live = L.ata[b].live
              /\ R.ata[b].amount = L.ata[b].amount + n
              /\ R.sol[x] = L.sol[x] + L.ata[a].lamports - TokenLamports(a, n)
              /\ \A z \in A \ {x} : R.sol[z] = L.sol[z]
  <2>1. R.sol[x] = L.sol[x] + (L.ata[a].lamports - TokenLamports(a, n))
    BY <1>4, <1>6, <1>10
  <2>2. R.sol[x] = L.sol[x] + L.ata[a].lamports - TokenLamports(a, n)
    BY <1>8, <2>1
  <2> QED BY <1>4, <1>6, <1>7, <1>10, <2>2
<1> QED BY <1>3, <1>9, <1>10

\* The payout of a native asset: the escrow's address keeps what the lamports of
\* its token account exceed the amount by.
LEMMA NativePayoutEffect ==
  ASSUME NEW A, NEW L, Sound(L, A), NEW x \in A, NEW r \in A, x # r,
         NEW n \in Nat, NEW a \in Atas(A),
         NEW R, R = MoveLamports(CloseAta(L, a, x), x, r, n)
  PROVE  /\ R.ok <=> /\ L.ok /\ L.ata[a].live /\ (L.ata[a].amount = 0 \/ a[2] = NATIVE_MINT)
                     /\ n <= L.sol[x] + L.ata[a].lamports
         /\ Extends(L, R, {a}, A)
         /\ R.ok => /\ R.ata[a] = NoAta
                    /\ R.sol[x] = L.sol[x] + L.ata[a].lamports - n
                    /\ R.sol[r] = L.sol[r] + n
                    /\ \A z \in A \ {x, r} : R.sol[z] = L.sol[z]
<1> DEFINE C == CloseAta(L, a, x)
<1>1. C = CloseAta(L, a, x) /\ R = MoveLamports(C, x, r, n)
  OBVIOUS
<1> HIDE DEF C
<1>3. /\ C.ok <=> L.ok /\ L.ata[a].live /\ (L.ata[a].amount = 0 \/ a[2] = NATIVE_MINT)
      /\ C.ok => /\ C.ata[a] = NoAta
                 /\ C.sol[x] = L.sol[x] + L.ata[a].lamports
                 /\ \A z \in A \ {x} : C.sol[z] = L.sol[z]
  BY <1>1, CloseAtaEffect
<1>4. Sound(C, A)
  BY <1>1, CloseAtaFact
<1>5. /\ R.ok <=> C.ok /\ n <= C.sol[x]
      /\ R.ata = C.ata
      /\ R.ok => R.sol[x] = C.sol[x] - n /\ R.sol[r] = C.sol[r] + n
      /\ R.ok => \A z \in A \ {x, r} : R.sol[z] = C.sol[z]
  BY <1>1, <1>4, MoveLamportsEffect
<1>6. R.ok <=> /\ L.ok /\ L.ata[a].live /\ (L.ata[a].amount = 0 \/ a[2] = NATIVE_MINT)
               /\ n <= L.sol[x] + L.ata[a].lamports
  BY <1>3, <1>5
<1>7. ASSUME R.ok
      PROVE  /\ R.ata[a] = NoAta
             /\ R.sol[x] = L.sol[x] + L.ata[a].lamports - n
             /\ R.sol[r] = L.sol[r] + n
             /\ \A z \in A \ {x, r} : R.sol[z] = L.sol[z]
  <2>1. C.ok /\ C.ata[a] = NoAta /\ C.sol[x] = L.sol[x] + L.ata[a].lamports
    BY <1>3, <1>5, <1>7
  <2>2. R.ata[a] = NoAta
    BY <1>5, <2>1
  <2>3. R.sol[x] = L.sol[x] + L.ata[a].lamports - n
    <3>1. R.sol[x] = C.sol[x] - n
      BY <1>5, <1>7
    <3>2. C.sol[x] = L.sol[x] + L.ata[a].lamports
      BY <2>1
    <3>3. L.sol[x] \in Nat /\ L.ata[a].lamports \in Nat
      BY BankParts
    <3> QED BY <3>1, <3>2, <3>3
  <2>4. C.sol[r] = L.sol[r] /\ \A z \in A \ {x, r} : C.sol[z] = L.sol[z]
    BY <1>3, <2>1
  <2>5. R.sol[r] = L.sol[r] + n /\ \A z \in A \ {x, r} : R.sol[z] = L.sol[z]
    BY <1>5, <1>7, <2>4
  <2> QED BY <2>2, <2>3, <2>5
<1>8. Extends(L, C, {a}, A)
  BY <1>1, CloseAtaFact
<1>9. Extends(L, R, {a}, A)
  BY <1>5, <1>8 DEF Extends
<1> QED BY <1>6, <1>7, <1>9

\* The safety deposit fails only for want of lamports.
LEMMA PaySafetyDepositEffect ==
  ASSUME NEW A, NEW L, Sound(L, A), NEW x \in A, NEW y \in A, NEW r \in A, x # r,
         NEW n \in Nat,
         NEW R, R = PaySafetyDeposit(L, x, n, y, r)
  PROVE  /\ R.ok <=> L.ok /\ (r = y \/ n <= L.sol[x])
         /\ R.ata = L.ata
         /\ r = y => R = L
         /\ (R.ok /\ r # y) => /\ R.sol[x] = L.sol[x] - n /\ R.sol[r] = L.sol[r] + n
                               /\ \A z \in A \ {x, r} : R.sol[z] = L.sol[z]
<1>1. CASE r = y
  BY <1>1 DEF PaySafetyDeposit
<1>2. CASE r # y
  <2>1. R = MoveLamports(L, x, r, n)
    BY <1>2 DEF PaySafetyDeposit
  <2> QED BY <1>2, <2>1, MoveLamportsEffect
<1> QED BY <1>1, <1>2

\* The end of an escrow account x: its lamports are all paid out, the deposit n
\* to r and the rest to y.
LEMMA CloseEscrowEffect ==
  ASSUME NEW A, NEW L, Sound(L, A), NEW x \in A, NEW y \in A, NEW r \in A, x # r, x # y,
         NEW n \in Nat,
         NEW R, R = CloseAccount(PaySafetyDeposit(L, x, n, y, r), x, y)
  PROVE  /\ R.ok <=> L.ok /\ (r = y \/ n <= L.sol[x])
         /\ R.ata = L.ata
         /\ R.ok => /\ R.sol[x] = 0
                    /\ r = y => R.sol[y] = L.sol[y] + L.sol[x]
                    /\ r # y => /\ R.sol[r] = L.sol[r] + n
                                /\ R.sol[y] = L.sol[y] + L.sol[x] - n
                    /\ \A z \in A \ {x, y, r} : R.sol[z] = L.sol[z]
<1> DEFINE D == PaySafetyDeposit(L, x, n, y, r)
<1>1. D = PaySafetyDeposit(L, x, n, y, r) /\ R = CloseAccount(D, x, y)
  OBVIOUS
<1> HIDE DEF D
<1>2. /\ D.ok <=> L.ok /\ (r = y \/ n <= L.sol[x])
      /\ D.ata = L.ata
      /\ r = y => D = L
      /\ (D.ok /\ r # y) => /\ D.sol[x] = L.sol[x] - n /\ D.sol[r] = L.sol[r] + n
                            /\ \A z \in A \ {x, r} : D.sol[z] = L.sol[z]
  BY <1>1, PaySafetyDepositEffect
<1>3. Sound(D, A)
  BY <1>1, PaySafetyDepositFact
<1>4. /\ R.ok <=> D.ok
      /\ R.ata = D.ata
      /\ R.ok => /\ R.sol[x] = 0 /\ R.sol[y] = D.sol[y] + D.sol[x]
                 /\ \A z \in A \ {x, y} : R.sol[z] = D.sol[z]
  BY <1>1, <1>3, CloseAccountEffect
<1>5. L.sol[x] \in Nat /\ L.sol[y] \in Nat
  BY BankParts
<1>6. CASE r = y
  <2>1. D = L
    BY <1>2, <1>6
  <2> QED BY <1>4, <1>6, <2>1
<1>7. CASE r # y
  <2>1. R.ok <=> L.ok /\ (r = y \/ n <= L.sol[x])
    BY <1>2, <1>4
  <2>2. ASSUME R.ok
        PROVE  /\ R.sol[x] = 0
               /\ R.sol[r] = L.sol[r] + n
               /\ R.sol[y] = L.sol[y] + L.sol[x] - n
               /\ \A z \in A \ {x, y, r} : R.sol[z] = L.sol[z]
    <3>1. /\ D.sol[x] = L.sol[x] - n /\ D.sol[r] = L.sol[r] + n
          /\ \A z \in A \ {x, r} : D.sol[z] = L.sol[z]
      BY <1>2, <1>4, <1>7, <2>2
    <3>2. D.sol[y] = L.sol[y]
      BY <1>7, <3>1
    <3>3. R.sol[r] = L.sol[r] + n
      BY <1>4, <1>7, <2>2, <3>1
    <3>4. R.sol[y] = L.sol[y] + L.sol[x] - n
      BY <1>4, <1>5, <2>2, <3>1, <3>2
    <3> QED BY <1>4, <2>2, <3>1, <3>3, <3>4
  <2> QED BY <1>2, <1>4, <1>7, <2>1, <2>2
<1> QED BY <1>6, <1>7

\* The end of an escrow account x whose asset is native: d lamports to m, the safety
\* deposit n to u unless u is t, the rest to t.
LEMMA UnwrapAndCloseEffect ==
  ASSUME NEW A, NEW L, Sound(L, A), NEW x \in A, NEW m \in A, NEW t \in A, NEW u \in A,
         x # m, x # t, x # u, NEW a \in Atas(A), NEW d \in Nat, NEW n \in Nat,
         NEW rest, rest = L.sol[x] + L.ata[a].lamports - d,
         NEW R, R = CloseAccount(PaySafetyDeposit(MoveLamports(CloseAta(L, a, x), x, m, d), x, n, t, u), x, t)
  PROVE  /\ (/\ L.ok /\ L.ata[a].live /\ (L.ata[a].amount = 0 \/ a[2] = NATIVE_MINT)
             /\ rest >= n) => R.ok
         /\ R.ok => /\ R.ata[a] = NoAta
                    /\ \A b \in Atas(A) \ {a} : R.ata[b] = L.ata[b]
                    /\ R.sol[x] = 0
                    /\ R.sol[m] >= L.sol[m] + d
                    /\ u = t => R.sol[t] >= L.sol[t] + rest
                    /\ u # t => /\ R.sol[u] >= L.sol[u] + n
                                /\ R.sol[t] >= L.sol[t] + rest - n
                    /\ \A z \in A \ {x, t, u, m} : R.sol[z] = L.sol[z]
<1> DEFINE C == CloseAta(L, a, x)
           P == MoveLamports(C, x, m, d)
<1>1. /\ R = CloseAccount(PaySafetyDeposit(P, x, n, t, u), x, t)
      /\ P = MoveLamports(CloseAta(L, a, x), x, m, d)
  OBVIOUS
<1>3. Sound(C, A)
  BY CloseAtaFact
<1> HIDE DEF C
<1>4. Sound(P, A)
  BY <1>3, MoveLamportsFact
<1> HIDE DEF P
<1>2. /\ P.ok <=> /\ L.ok /\ L.ata[a].live
                  /\ (L.ata[a].amount = 0 \/ a[2] = NATIVE_MINT)
                  /\ d <= L.sol[x] + L.ata[a].lamports
      /\ Extends(L, P, {a}, A)
      /\ P.ok => /\ P.ata[a] = NoAta
                 /\ P.sol[x] = L.sol[x] + L.ata[a].lamports - d
                 /\ P.sol[m] = L.sol[m] + d
                 /\ \A z \in A \ {x, m} : P.sol[z] = L.sol[z]
  BY <1>1, NativePayoutEffect
<1>5. /\ R.ok <=> P.ok /\ (u = t \/ n <= P.sol[x])
      /\ R.ata = P.ata
      /\ R.ok => /\ R.sol[x] = 0
                 /\ u = t => R.sol[t] = P.sol[t] + P.sol[x]
                 /\ u # t => /\ R.sol[u] = P.sol[u] + n
                             /\ R.sol[t] = P.sol[t] + P.sol[x] - n
                 /\ \A z \in A \ {x, t, u} : R.sol[z] = P.sol[z]
  <2>1. /\ Sound(P, A) /\ x \in A /\ t \in A /\ u \in A /\ x # u /\ x # t /\ n \in Nat
        /\ R = CloseAccount(PaySafetyDeposit(P, x, n, t, u), x, t)
    BY <1>1, <1>4
  <2> QED BY ONLY <2>1, CloseEscrowEffect
<1>6. /\ \A z \in A : L.sol[z] \in Nat /\ P.sol[z] \in Nat
      /\ L.ata[a].lamports \in Nat
  BY <1>4, BankParts
<1>7. ASSUME L.ok, L.ata[a].live, L.ata[a].amount = 0 \/ a[2] = NATIVE_MINT, rest >= n
      PROVE  R.ok
  <2>1. d <= L.sol[x] + L.ata[a].lamports
    BY <1>6, <1>7
  <2>2. P.ok
    BY <1>2, <1>7, <2>1
  <2>3. n <= P.sol[x]
    BY <1>2, <1>7, <2>2
  <2> QED BY <1>5, <2>2, <2>3
<1>8. ASSUME R.ok
      PROVE  /\ R.ata[a] = NoAta
             /\ \A b \in Atas(A) \ {a} : R.ata[b] = L.ata[b]
             /\ R.sol[x] = 0
             /\ R.sol[m] >= L.sol[m] + d
             /\ u = t => R.sol[t] >= L.sol[t] + rest
             /\ u # t => /\ R.sol[u] >= L.sol[u] + n
                         /\ R.sol[t] >= L.sol[t] + rest - n
             /\ \A z \in A \ {x, t, u, m} : R.sol[z] = L.sol[z]
  <2>1. P.ok /\ (u = t \/ n <= P.sol[x])
    BY <1>5, <1>8
  <2>2. P.sol[x] = rest
    BY <1>2, <2>1
  <2>3. \A z \in A \ {x} : P.sol[z] >= L.sol[z]
    BY <1>2, <1>6, <2>1
  <2>4. P.sol[t] >= L.sol[t] /\ P.sol[u] >= L.sol[u]
    BY <2>3
  <2>5. u = t => R.sol[t] >= L.sol[t] + rest
    BY <1>5, <1>6, <1>8, <2>2, <2>4
  <2>6. u # t => R.sol[t] >= L.sol[t] + rest - n
    BY <1>5, <1>6, <1>8, <2>2, <2>4
  <2>7. u # t => R.sol[u] >= L.sol[u] + n
    BY <1>5, <1>6, <1>8, <2>4
  <2>8. R.sol[m] >= P.sol[m]
    BY <1>5, <1>6, <1>8, <2>1
  <2>9. R.sol[m] >= L.sol[m] + d
    BY <1>2, <2>1, <2>8
  <2>10. \A z \in A \ {x, t, u, m} : R.sol[z] = L.sol[z]
    BY <1>2, <1>5, <1>8, <2>1
  <2>11. /\ R.ata[a] = NoAta
         /\ \A b \in Atas(A) \ {a} : R.ata[b] = L.ata[b]
    BY <1>2, <1>5, <2>1 DEF Extends
  <2> QED BY <1>5, <1>8, <2>5, <2>6, <2>7, <2>9, <2>10, <2>11
<1> QED BY <1>7, <1>8

\* The end of an escrow account x of tokens: the tokens to the account b, the safety
\* deposit n to u unless u is t, all other lamports to t.
LEMMA TransferAndCloseEffect ==
  ASSUME NEW A, NEW L, Sound(L, A), NEW x \in A, NEW t \in A, NEW u \in A, x # t, x # u,
         NEW a \in Atas(A), NEW b \in Atas(A), a # b, a[2] = b[2], NEW n \in Nat,
         NEW rest, rest = L.sol[x] + (L.ata[a].lamports - TokenLamports(a, L.ata[a].amount)),
         NEW R, R = CloseAccount(PaySafetyDeposit(WithdrawAndCloseTokenAta(L, a, b, t), x, n, t, u), x, t)
  PROVE  /\ (L.ok /\ L.ata[a].live /\ L.ata[b].live /\ n <= L.sol[x]) => R.ok
         /\ R.ok => /\ R.ata[a] = NoAta
                    /\ R.ata[b].live = L.ata[b].live
                    /\ R.ata[b].amount = L.ata[b].amount + L.ata[a].amount
                    /\ \A c \in Atas(A) \ {a, b} : R.ata[c] = L.ata[c]
                    /\ R.sol[x] = 0
                    /\ u = t => R.sol[t] = L.sol[t] + rest
                    /\ u # t => /\ R.sol[u] = L.sol[u] + n
                                /\ R.sol[t] = L.sol[t] + rest - n
                    /\ \A z \in A \ {x, t, u} : R.sol[z] = L.sol[z]
<1> DEFINE W == WithdrawAndCloseTokenAta(L, a, b, t)
           extra == L.ata[a].lamports - TokenLamports(a, L.ata[a].amount)
<1>1. W = WithdrawAndCloseTokenAta(L, a, b, t) /\ R = CloseAccount(PaySafetyDeposit(W, x, n, t, u), x, t)
  OBVIOUS
<1>2. L.sol[x] \in Nat /\ L.sol[t] \in Nat /\ extra \in Int
  BY BankParts DEF TokenLamports
<1>3. rest = L.sol[x] + extra
  OBVIOUS
<1>4. W.ok => W.sol[t] = L.sol[t] + extra
  <2>1. W.ok => W.sol[t] = L.sol[t] + L.ata[a].lamports - TokenLamports(a, L.ata[a].amount)
    BY <1>1, WithdrawAndCloseEffect
  <2>2. L.ata[a].lamports \in Nat /\ TokenLamports(a, L.ata[a].amount) \in Nat
    BY BankParts DEF TokenLamports
  <2> QED BY <1>2, <2>1, <2>2
<1> HIDE DEF W, extra
<1>5. /\ (L.ok /\ L.ata[a].live /\ L.ata[b].live) => W.ok
      /\ W.ok => /\ L.ata[a].live /\ W.ata[a] = NoAta
                 /\ W.ata[b].live = L.ata[b].live
                 /\ W.ata[b].amount = L.ata[b].amount + L.ata[a].amount
                 /\ \A z \in A \ {t} : W.sol[z] = L.sol[z]
  BY <1>1, WithdrawAndCloseEffect
<1>6. Sound(W, A) /\ Extends(L, W, {a, b}, A)
  BY <1>1, WithdrawAndCloseFact
<1>7. /\ R.ok <=> W.ok /\ (u = t \/ n <= W.sol[x])
      /\ R.ata = W.ata
      /\ R.ok => /\ R.sol[x] = 0
                 /\ u = t => R.sol[t] = W.sol[t] + W.sol[x]
                 /\ u # t => /\ R.sol[u] = W.sol[u] + n
                             /\ R.sol[t] = W.sol[t] + W.sol[x] - n
                 /\ \A z \in A \ {x, t, u} : R.sol[z] = W.sol[z]
  <2>1. x \in A /\ t \in A /\ u \in A /\ x # u /\ x # t /\ n \in Nat
    OBVIOUS
  <2>2. Sound(W, A) /\ R = CloseAccount(PaySafetyDeposit(W, x, n, t, u), x, t)
    BY <1>1, <1>6
  <2> QED BY ONLY <2>1, <2>2, CloseEscrowEffect
<1>8. W.ok => W.sol[x] = L.sol[x]
  BY <1>5
<1>9. (L.ok /\ L.ata[a].live /\ L.ata[b].live /\ n <= L.sol[x]) => R.ok
  BY <1>5, <1>7, <1>8
<1>10. ASSUME R.ok
       PROVE  /\ R.ata[a] = NoAta
              /\ R.ata[b].live = L.ata[b].live
              /\ R.ata[b].amount = L.ata[b].amount + L.ata[a].amount
              /\ \A c \in Atas(A) \ {a, b} : R.ata[c] = L.ata[c]
              /\ R.sol[x] = 0
              /\ u = t => R.sol[t] = L.sol[t] + rest
              /\ u # t => /\ R.sol[u] = L.sol[u] + n
                          /\ R.sol[t] = L.sol[t] + rest - n
              /\ \A z \in A \ {x, t, u} : R.sol[z] = L.sol[z]
  <2>0. W.ok
    BY <1>7, <1>10
  <2>1. /\ R.ata[a] = NoAta
        /\ R.ata[b].live = L.ata[b].live
        /\ R.ata[b].amount = L.ata[b].amount + L.ata[a].amount
    BY <1>5, <1>7, <2>0
  <2>2. \A c \in Atas(A) \ {a, b} : R.ata[c] = L.ata[c]
    BY <1>6, <1>7 DEF Extends
  <2>3. u = t => R.sol[t] = L.sol[t] + rest
    BY <1>2, <1>3, <1>4, <1>7, <1>8, <1>10, <2>0
  <2>4. u # t => R.sol[t] = L.sol[t] + rest - n
    BY <1>2, <1>3, <1>4, <1>7, <1>8, <1>10, <2>0
  <2>5. u # t => R.sol[u] = L.sol[u] + n
    BY <1>5, <1>7, <1>10, <2>0
  <2>6. \A z \in A \ {x, t, u} : R.sol[z] = L.sol[z]
    BY <1>5, <1>7, <1>10, <2>0
  <2> QED BY <1>7, <1>10, <2>1, <2>2, <2>3, <2>4, <2>5, <2>6
<1> QED BY <1>9, <1>10

\* A rescue gives its recipient the tokens and, if it takes all, the lamports.
LEMMA RescueFundsEffect ==
  ASSUME NEW A, NEW L, Sound(L, A), NEW x \in A, NEW r \in A, x # r,
         NEW m \in Mints, NEW n \in Nat,
         NEW R, R = RescueFunds(L, x, r, m, n)
  PROVE  R.ok => /\ R.sol[r] >= L.sol[r]
                 /\ \A z \in A \ {r} : R.sol[z] = L.sol[z]
<1> DEFINE a == Ata(x, m)
           b == Ata(r, m)
           T == UniTransferToken(L, a, b, n)
<1>1. a \in Atas(A) /\ b \in Atas(A) /\ a # b
  BY DEF Ata, Atas
<1>2. T = UniTransferToken(L, a, b, n) /\ (R = T \/ R = CloseAta(T, a, r))
  BY DEF RescueFunds
<1> HIDE DEF T, a, b
<1>3. T.sol = L.sol /\ Sound(T, A)
  <2>1. T = UniTransferToken(L, a, b, n)
    BY <1>2
  <2>2. T.sol = L.sol
    BY <1>1, <2>1, UniTransferTokenEffect
  <2>3. Sound(T, A)
    BY <1>1, <2>1, UniTransferTokenFact
  <2> QED BY <2>2, <2>3
<1>4. L.sol[r] \in Nat /\ T.ata[a].lamports \in Nat
  BY <1>1, <1>3, BankParts
<1>5. CASE R = T
  BY <1>3, <1>4, <1>5
<1>6. CASE R = CloseAta(T, a, r)
  <2>1. R.ok => /\ R.sol[r] = T.sol[r] + T.ata[a].lamports
                /\ \A z \in A \ {r} : R.sol[z] = T.sol[z]
    BY <1>1, <1>3, <1>6, CloseAtaEffect
  <2> QED BY <1>3, <1>4, <2>1
<1> QED BY <1>2, <1>5, <1>6

-----------------------------------------------------------------------------
\* No operator leaves anything in a token account that it closes.

Tidy(L, M, A) ==
  \A a \in Atas(A) : M.ata[a].live \/ M.ata[a] = NoAta \/ M.ata[a] = L.ata[a]

\* A chain of tidy operators is tidy.
LEMMA TidyTransitive ==
  ASSUME NEW A, NEW L, NEW M, NEW N, Tidy(L, M, A), Tidy(M, N, A)
  PROVE  Tidy(L, N, A)
BY DEF Tidy

\* The write of one token account, open or empty, is tidy.
LEMMA TidyWrite ==
  ASSUME NEW A, NEW L, Sound(L, A), NEW a \in Atas(A), NEW v, v.live \/ v = NoAta,
         NEW R, R = [L EXCEPT !.ata[a] = v] \/ R = [L EXCEPT !.ok = FALSE]
  PROVE  Tidy(L, R, A)
<1>1. L \in Bank(A)
  BY DEF Sound
<1>2. CASE R = [L EXCEPT !.ata[a] = v]
  <2>1. R.ata[a] = v /\ \A b \in Atas(A) \ {a} : R.ata[b] = L.ata[b]
    BY <1>1, <1>2, AtaChange
  <2> QED BY <2>1 DEF Tidy
<1>3. CASE R = [L EXCEPT !.ok = FALSE]
  <2>1. R.ata = L.ata
    BY <1>1, <1>3, Fail
  <2> QED BY <2>1 DEF Tidy
<1> QED BY <1>2, <1>3

\* An account that a payer opens is open.
LEMMA TidyOpen ==
  ASSUME NEW A, NEW L, Sound(L, A), NEW x \in A, NEW a \in Atas(A),
         NEW R, R \in {OpenAta(L, x, a), InitIfNeededAta(L, x, a)}
  PROVE  Tidy(L, R, A)
<1> DEFINE P == SubLamports(L, x, RENT_ATA)
           v == [live |-> TRUE, amount |-> 0, lamports |-> RENT_ATA]
<1>1. Sound(P, A)
  BY SubLamportsFact, LedgerAssumption
<1>2. P.ata = L.ata
  BY SubLamportsEffect, LedgerAssumption
<1>3. \/ R = L
      \/ R = [P EXCEPT !.ata[a] = v]
      \/ R = [P EXCEPT !.ok = FALSE]
  BY DEF OpenAta, InitIfNeededAta, Attempt
<1>4. v.live
  OBVIOUS
<1> HIDE DEF P, v
<1>5. CASE R = L
  BY <1>5 DEF Tidy
<1>6. CASE R = [P EXCEPT !.ata[a] = v] \/ R = [P EXCEPT !.ok = FALSE]
  <2>1. Tidy(P, R, A)
    BY <1>1, <1>4, <1>6, TidyWrite
  <2> QED BY <1>2, <2>1 DEF Tidy
<1> QED BY <1>3, <1>5, <1>6

\* Transfers of tokens take none from a closed account and give none to one.
LEMMA TidyTransfer ==
  ASSUME NEW A, NEW L, Sound(L, A), NEW a \in Atas(A), NEW b \in Atas(A), NEW n \in Nat,
         NEW R, R \in {TransferTokens(L, a, b, n), UniTransferToken(L, a, b, n)}
  PROVE  Tidy(L, R, A)
<1> DEFINE v == [live |-> TRUE, amount |-> L.ata[a].amount - n,
                 lamports |-> L.ata[a].lamports - TokenLamports(a, n)]
           T == TakeTokens(L, a, n)
           w == [live |-> TRUE, amount |-> T.ata[b].amount + n,
                 lamports |-> T.ata[b].lamports + TokenLamports(b, n)]
<1>1. Sound(T, A)
  BY TakeTokensFact
<1>2. Tidy(L, T, A)
  <2>1. T = [L EXCEPT !.ata[a] = v] \/ T = [L EXCEPT !.ok = FALSE]
    BY DEF TakeTokens, Attempt
  <2>2. v.live
    OBVIOUS
  <2> HIDE DEF v, T
  <2> QED BY <2>1, <2>2, TidyWrite
<1>3. \/ R = L
      \/ R = [T EXCEPT !.ata[b] = w]
      \/ R = [T EXCEPT !.ok = FALSE]
  BY DEF TransferTokens, UniTransferToken, PutTokens, Attempt
<1>4. w.live
  OBVIOUS
<1> HIDE DEF T, v, w
<1>5. CASE R = L
  BY <1>5 DEF Tidy
<1>6. CASE R = [T EXCEPT !.ata[b] = w] \/ R = [T EXCEPT !.ok = FALSE]
  <2>1. Tidy(T, R, A)
    BY <1>1, <1>4, <1>6, TidyWrite
  <2> QED BY <1>2, <2>1, TidyTransitive
<1> QED BY <1>3, <1>5, <1>6

\* A token account that is closed is empty.
LEMMA TidyClose ==
  ASSUME NEW A, NEW L, Sound(L, A), NEW a \in Atas(A), NEW x \in A,
         NEW R, R = CloseAta(L, a, x)
  PROVE  Tidy(L, R, A)
<1> DEFINE C == AddLamports(L, x, L.ata[a].lamports)
<1>1. L.ata[a].lamports \in Nat
  BY BankParts
<1>2. Sound(C, A) /\ C.ata = L.ata
  BY <1>1, AddLamportsFact, AddLamportsEffect
<1>3. R = [C EXCEPT !.ata[a] = NoAta] \/ R = [C EXCEPT !.ok = FALSE]
  BY DEF CloseAta, Attempt
<1> HIDE DEF C
<1>4. Tidy(C, R, A)
  BY <1>2, <1>3, TidyWrite
<1> QED BY <1>2, <1>4 DEF Tidy

\* Lamports go to an open token account only, and sync_native needs one.
LEMMA TidyFund ==
  ASSUME NEW A, NEW L, Sound(L, A), NEW x \in A, NEW a \in Atas(A), NEW n \in Nat,
         NEW R, R \in {FundAta(L, x, a, n), UniTransferToAta(L, x, a, n), SyncNative(L, a)}
  PROVE  Tidy(L, R, A)
<1>1. CASE R = L
  BY <1>1 DEF Tidy
<1>2. CASE R = FundAta(L, x, a, n)
  <2>1. Extends(L, R, {a}, A)
    BY <1>2, FundAtaFact
  <2> DEFINE P == SubLamports(L, x, n)
             v == [P.ata[a] EXCEPT !.lamports = @ + n]
  <2>2. Sound(P, A) /\ P.ata = L.ata
    BY SubLamportsFact, SubLamportsEffect
  <2>3. \/ P.ata[a].live /\ R = [P EXCEPT !.ata[a] = v]
        \/ R = [P EXCEPT !.ok = FALSE]
    BY <1>2 DEF FundAta, AddAtaLamports, Attempt
  <2>4. P.ata[a] \in AtaState
    BY <2>2, BankParts
  <2>5. v.live = P.ata[a].live
    BY <2>4 DEF AtaState
  <2> HIDE DEF P, v
  <2>6. Tidy(P, R, A)
    <3>1. CASE P.ata[a].live /\ R = [P EXCEPT !.ata[a] = v]
      BY <2>2, <2>5, <3>1, TidyWrite
    <3>2. CASE R = [P EXCEPT !.ok = FALSE]
      BY <2>2, <3>2, Fail DEF Sound, Tidy
    <3> QED BY <2>3, <3>1, <3>2
  <2> QED BY <2>2, <2>6 DEF Tidy
<1>3. CASE R = SyncNative(L, a)
  <2> DEFINE v == [live |-> TRUE, amount |-> L.ata[a].lamports - RENT_ATA,
                   lamports |-> L.ata[a].lamports]
  <2>1. R = [L EXCEPT !.ata[a] = v] \/ R = [L EXCEPT !.ok = FALSE]
    BY <1>3 DEF SyncNative, Attempt
  <2>2. v.live
    OBVIOUS
  <2> HIDE DEF v
  <2> QED BY <2>1, <2>2, TidyWrite
<1> QED BY <1>1, <1>2, <1>3 DEF UniTransferToAta

\* A payout opens nothing and closes the escrow's token account only.
LEMMA TidyPayout ==
  ASSUME NEW A, NEW L, Sound(L, A), NEW x \in A, NEW r \in A, x # r, NEW t \in A,
         NEW m \in Mints, NEW native \in BOOLEAN, NEW n \in Nat,
         NEW R, R = ProcessPayout(L, x, m, native, n, r, t)
  PROVE  Tidy(L, R, A)
<1> DEFINE a == Ata(x, m)
           b == Ata(r, m)
<1>1. a \in Atas(A) /\ b \in Atas(A) /\ a # b
  BY DEF Ata, Atas
<1>2. CASE native
  <2> DEFINE C == CloseAta(L, a, x)
  <2>1. R = MoveLamports(C, x, r, n)
    BY <1>2 DEF ProcessPayout
  <2>2. Sound(C, A) /\ Tidy(L, C, A)
    BY <1>1, CloseAtaFact, TidyClose
  <2> HIDE DEF C
  <2>3. R.ata = C.ata
    BY <2>1, <2>2, MoveLamportsEffect
  <2> QED BY <2>2, <2>3 DEF Tidy
<1>3. CASE ~native
  <2> DEFINE q == L.ata[a].amount
             T == UniTransferToken(L, a, b, q)
  <2>1. R = CloseAta(T, a, t)
    BY <1>3 DEF ProcessPayout, WithdrawAndCloseTokenAta
  <2>2. q \in Nat
    BY <1>1, BankParts
  <2>3. T = UniTransferToken(L, a, b, q)
    OBVIOUS
  <2> HIDE DEF q, T, a, b
  <2>4. Sound(T, A)
    BY <1>1, <2>2, <2>3, UniTransferTokenFact
  <2>5. Tidy(L, T, A)
    BY <1>1, <2>2, <2>3, TidyTransfer
  <2>6. Tidy(T, R, A)
    BY <1>1, <2>1, <2>4, TidyClose
  <2> QED BY <2>5, <2>6, TidyTransitive
<1> QED BY <1>2, <1>3

\* Nor does a rescue.
LEMMA TidyRescue ==
  ASSUME NEW A, NEW L, Sound(L, A), NEW x \in A, NEW r \in A, x # r,
         NEW m \in Mints, NEW n \in Nat,
         NEW R, R = RescueFunds(L, x, r, m, n)
  PROVE  Tidy(L, R, A)
<1> DEFINE a == Ata(x, m)
           b == Ata(r, m)
           T == UniTransferToken(L, a, b, n)
<1>1. a \in Atas(A) /\ b \in Atas(A) /\ a # b
  BY DEF Ata, Atas
<1>2. R = T \/ R = CloseAta(T, a, r)
  BY DEF RescueFunds
<1>3. T = UniTransferToken(L, a, b, n)
  OBVIOUS
<1> HIDE DEF T, a, b
<1>4. Sound(T, A)
  BY <1>1, <1>3, UniTransferTokenFact
<1>5. Tidy(L, T, A)
  BY <1>1, <1>3, TidyTransfer
<1>6. R = CloseAta(T, a, r) => Tidy(T, R, A)
  BY <1>1, <1>4, TidyClose
<1> QED BY <1>2, <1>5, <1>6, TidyTransitive

-----------------------------------------------------------------------------
\* What an operator takes from users.

\* M, if it succeeds, takes no lamports from U, and neither closes a token account
\* of V nor takes tokens from one.
Spares(L, M, U, V) ==
  M.ok => /\ L.ok
          /\ \A u \in U : M.sol[u] >= L.sol[u]
          /\ \A a \in Atas(V) :
               L.ata[a].live => M.ata[a].live /\ M.ata[a].amount >= L.ata[a].amount

\* A chain of sparing operators is sparing.
LEMMA SparesTransitive ==
  ASSUME NEW A, NEW L, NEW M, NEW N, Sound(L, A), Sound(M, A), Sound(N, A),
         NEW U \in SUBSET A, NEW V \in SUBSET A, Spares(L, M, U, V), Spares(M, N, U, V)
  PROVE  Spares(L, N, U, V)
<1>1. \A u \in U : L.sol[u] \in Nat /\ M.sol[u] \in Nat /\ N.sol[u] \in Nat
  BY BankParts
<1>2. \A a \in Atas(V) : /\ L.ata[a].amount \in Nat /\ M.ata[a].amount \in Nat
                         /\ N.ata[a].amount \in Nat
  BY BankParts DEF Atas
<1>3. SUFFICES ASSUME N.ok PROVE Spares(L, N, U, V)
  BY DEF Spares
<1>4. M.ok /\ L.ok
  BY <1>3 DEF Spares
<1>5. \A u \in U : N.sol[u] >= L.sol[u]
  BY <1>1, <1>3, <1>4 DEF Spares
<1>6. \A a \in Atas(V) :
        L.ata[a].live => N.ata[a].live /\ N.ata[a].amount >= L.ata[a].amount
  BY <1>2, <1>3, <1>4 DEF Spares
<1> QED BY <1>4, <1>5, <1>6 DEF Spares

\* What an operator does to the token accounts that it names is all that counts.
LEMMA SparesBy ==
  ASSUME NEW A, NEW L, Sound(L, A), NEW R, NEW S, Extends(L, R, S, A),
         NEW U \in SUBSET A, NEW V \in SUBSET A,
         R.ok => \A u \in U : R.sol[u] >= L.sol[u],
         R.ok => \A a \in S \cap Atas(V) :
                   L.ata[a].live => R.ata[a].live /\ R.ata[a].amount >= L.ata[a].amount
  PROVE  Spares(L, R, U, V)
<1>1. \A a \in Atas(V) : a \in Atas(A) /\ L.ata[a].amount \in Nat
  BY BankParts DEF Atas
<1>2. \A a \in Atas(V) \ S : R.ata[a] = L.ata[a]
  BY <1>1 DEF Extends
<1>3. \A a \in Atas(V) \ S :
        L.ata[a].live => R.ata[a].live /\ R.ata[a].amount >= L.ata[a].amount
  BY <1>1, <1>2
<1> QED BY <1>3 DEF Extends, Spares

\* A transfer of lamports takes some from its source.
LEMMA SparesMove ==
  ASSUME NEW A, NEW L, Sound(L, A), NEW U \in SUBSET A, NEW V \in SUBSET A,
         NEW x \in A, x \notin U, NEW y \in A, NEW n \in Nat,
         NEW R, R \in {MoveLamports(L, x, y, n), UniTransferNative(L, x, y, n)}
  PROVE  Spares(L, R, U, V)
<1>1. Extends(L, R, {}, A)
  BY MoveLamportsFact, UniTransferNativeFact
<1>2. \A u \in A : L.sol[u] \in Nat
  BY BankParts
<1>3. (R.ok /\ x # y) => R.sol[y] = L.sol[y] + n
  BY MoveLamportsEffect, UniTransferNativeEffect
<1>4. R.ok => \A z \in A \ {x, y} : R.sol[z] = L.sol[z]
  BY MoveLamportsEffect, UniTransferNativeEffect
<1>5. R.ok => \A u \in U : R.sol[u] >= L.sol[u]
  BY <1>2, <1>3, <1>4
<1> QED BY <1>1, <1>5, SparesBy

\* The close of a program account takes its lamports.
LEMMA SparesCloseAccount ==
  ASSUME NEW A, NEW L, Sound(L, A), NEW U \in SUBSET A, NEW V \in SUBSET A,
         NEW x \in A, x \notin U, NEW y \in A, NEW R, R = CloseAccount(L, x, y)
  PROVE  Spares(L, R, U, V)
<1>1. L.sol[x] \in Nat
  BY BankParts
<1> QED BY <1>1, SparesMove DEF CloseAccount

\* A safety deposit comes from the escrow account.
LEMMA SparesDeposit ==
  ASSUME NEW A, NEW L, Sound(L, A), NEW U \in SUBSET A, NEW V \in SUBSET A,
         NEW x \in A, x \notin U, NEW y \in A, NEW r \in A, NEW n \in Nat,
         NEW R, R = PaySafetyDeposit(L, x, n, y, r)
  PROVE  Spares(L, R, U, V)
<1>1. CASE r = y
  <2>1. R = L /\ \A u \in U : L.sol[u] \in Nat
    BY <1>1, BankParts DEF PaySafetyDeposit
  <2>2. Extends(L, R, {}, A)
    BY <2>1 DEF Extends
  <2> QED BY <2>1, <2>2, SparesBy
<1>2. CASE r # y
  BY <1>2, SparesMove DEF PaySafetyDeposit
<1> QED BY <1>1, <1>2

\* The open of a token account costs its payer, and no open one is touched.
LEMMA SparesOpen ==
  ASSUME NEW A, NEW L, Sound(L, A), NEW U \in SUBSET A, NEW V \in SUBSET A,
         NEW x \in A, x \notin U, NEW a \in Atas(A),
         NEW R, R \in {OpenAta(L, x, a), InitIfNeededAta(L, x, a)}
  PROVE  Spares(L, R, U, V)
<1>1. \A u \in A : L.sol[u] \in Nat
  BY BankParts
<1>2. \A b \in Atas(A) : L.ata[b].amount \in Nat
  BY BankParts
<1>3. CASE R = L
  <2>1. Extends(L, R, {}, A)
    BY <1>3 DEF Extends
  <2> QED BY <1>1, <1>3, <2>1, SparesBy
<1>4. CASE R = OpenAta(L, x, a)
  <2>1. Extends(L, R, {a}, A) /\ (R.ok => ~L.ata[a].live)
    BY <1>4, OpenAtaFact
  <2>2. R.ok => \A z \in A \ {x} : R.sol[z] = L.sol[z]
    BY <1>4, OpenAtaEffect
  <2>3. R.ok => \A u \in U : R.sol[u] >= L.sol[u]
    BY <1>1, <2>2
  <2> QED BY <2>1, <2>3, SparesBy
<1> QED BY <1>3, <1>4 DEF InitIfNeededAta

\* A transfer takes tokens from its source only.
LEMMA SparesTransfer ==
  ASSUME NEW A, NEW L, Sound(L, A), NEW U \in SUBSET A, NEW V \in SUBSET A,
         NEW a \in Atas(A), NEW b \in Atas(A), a # b, a \notin Atas(V), NEW n \in Nat,
         NEW R, R \in {TransferTokens(L, a, b, n), UniTransferToken(L, a, b, n)}
  PROVE  Spares(L, R, U, V)
<1>1. (\A u \in A : L.sol[u] \in Nat) /\ L.ata[b].amount \in Nat
  BY BankParts
<1>2. R = L \/ R = TransferTokens(L, a, b, n)
  BY DEF UniTransferToken
<1>3. CASE R = L
  <2>1. Extends(L, R, {}, A)
    BY <1>3 DEF Extends
  <2> QED BY <1>1, <1>3, <2>1, SparesBy
<1>4. CASE R = TransferTokens(L, a, b, n)
  <2>1. /\ Extends(L, R, {a, b}, A)
        /\ R.ok => R.ata[b].live /\ R.ata[b].amount = L.ata[b].amount + n
    BY <1>4, TransferTokensFact
  <2>2. R.ok => R.ata[b].live /\ R.ata[b].amount >= L.ata[b].amount
    BY <1>1, <2>1
  <2>3. /\ R.ok <=> L.ok /\ L.ata[a].live /\ L.ata[b].live /\ n <= L.ata[a].amount
        /\ R.sol = L.sol
        /\ R.ok => /\ R.ata[a] = [live |-> TRUE, amount |-> L.ata[a].amount - n,
                                  lamports |-> L.ata[a].lamports - TokenLamports(a, n)]
                   /\ R.ata[b] = [live |-> TRUE, amount |-> L.ata[b].amount + n,
                                  lamports |-> L.ata[b].lamports + TokenLamports(b, n)]
    BY <1>4, TransferTokensEffect
  <2>4. \A u \in U : R.sol[u] >= L.sol[u]
    BY <1>1, <2>3
  <2>5. R.ok => \A c \in {a, b} \cap Atas(V) :
                  L.ata[c].live => R.ata[c].live /\ R.ata[c].amount >= L.ata[c].amount
    BY <2>2
  <2> QED BY <2>1, <2>4, <2>5, SparesBy
<1> QED BY <1>2, <1>3, <1>4

\* The lamports of a closed token account go to somebody.
LEMMA SparesCloseAta ==
  ASSUME NEW A, NEW L, Sound(L, A), NEW U \in SUBSET A, NEW V \in SUBSET A,
         NEW a \in Atas(A), a \notin Atas(V), NEW x \in A, NEW R, R = CloseAta(L, a, x)
  PROVE  Spares(L, R, U, V)
<1>1. (\A u \in A : L.sol[u] \in Nat) /\ L.ata[a].lamports \in Nat
  BY BankParts
<1>2. Extends(L, R, {a}, A)
  BY CloseAtaFact
<1>3. R.ok => /\ R.sol[x] = L.sol[x] + L.ata[a].lamports
              /\ \A z \in A \ {x} : R.sol[z] = L.sol[z]
  BY CloseAtaEffect
<1>4. R.ok => \A u \in U : R.sol[u] >= L.sol[u]
  BY <1>1, <1>3
<1> QED BY <1>2, <1>4, SparesBy

\* Lamports for a token account are its sender's.
LEMMA SparesFund ==
  ASSUME NEW A, NEW L, Sound(L, A), NEW U \in SUBSET A, NEW V \in SUBSET A,
         NEW x \in A, x \notin U, NEW a \in Atas(A), NEW n \in Nat,
         NEW R, R \in {FundAta(L, x, a, n), UniTransferToAta(L, x, a, n)}
  PROVE  Spares(L, R, U, V)
<1>1. \A u \in A : L.sol[u] \in Nat
  BY BankParts
<1>2. L.ata[a] \in AtaState
  BY BankParts
<1>3. CASE R = L
  <2>1. Extends(L, R, {}, A)
    BY <1>3 DEF Extends
  <2> QED BY <1>1, <1>3, <2>1, SparesBy
<1>4. CASE R = FundAta(L, x, a, n)
  <2>1. /\ Extends(L, R, {a}, A)
        /\ R.ok => R.ata[a] = [L.ata[a] EXCEPT !.lamports = @ + n]
    BY <1>4, FundAtaFact
  <2>2. R.ok => /\ R.sol[x] = L.sol[x] - n
                /\ \A z \in A \ {x} : R.sol[z] = L.sol[z]
    BY <1>4, FundAtaEffect
  <2>3. R.ok => \A u \in U : R.sol[u] >= L.sol[u]
    BY <1>1, <2>2
  <2>4. R.ok => (L.ata[a].live => R.ata[a].live /\ R.ata[a].amount >= L.ata[a].amount)
    BY <1>2, <2>1 DEF AtaState
  <2> QED BY <2>1, <2>3, <2>4, SparesBy
<1> QED BY <1>3, <1>4 DEF UniTransferToAta

\* sync_native counts what was sent to an account, and takes nothing.
LEMMA SparesSync ==
  ASSUME NEW A, NEW L, Sound(L, A), NEW U \in SUBSET A, NEW V \in SUBSET A,
         NEW a \in Atas(A), NEW R, R = SyncNative(L, a)
  PROVE  Spares(L, R, U, V)
<1>1. \A u \in A : L.sol[u] \in Nat
  BY BankParts
<1>2. L.ata[a].amount \in Nat /\ L.ata[a].lamports \in Nat
  BY BankParts
<1>3. /\ Extends(L, R, {a}, A)
      /\ R.ok => /\ L.ata[a].live /\ R.ata[a].live /\ a[2] = NATIVE_MINT
                 /\ R.ata[a].amount = L.ata[a].lamports - RENT_ATA
  BY SyncNativeFact
<1>4. R.sol = L.sol /\ R.ata[a].lamports = L.ata[a].lamports
  BY SyncNativeEffect
<1>5. R.ok => L.ata[a].lamports >= RENT_ATA + L.ata[a].amount
  BY <1>3 DEF Sound, Backed, TokenLamports
<1>6. R.ok => R.ata[a].live /\ R.ata[a].amount >= L.ata[a].amount
  BY <1>2, <1>3, <1>5, LedgerAssumption
<1>7. \A u \in U : R.sol[u] >= L.sol[u]
  BY <1>1, <1>4
<1> QED BY <1>3, <1>6, <1>7, SparesBy

\* A payout takes from the escrow and its token account.
LEMMA SparesWithdrawAndClose ==
  ASSUME NEW A, NEW L, Sound(L, A), NEW U \in SUBSET A, NEW V \in SUBSET A,
         NEW a \in Atas(A), NEW b \in Atas(A), a # b, a \notin Atas(V), NEW x \in A,
         NEW R, R = WithdrawAndCloseTokenAta(L, a, b, x)
  PROVE  Spares(L, R, U, V)
<1> DEFINE n == L.ata[a].amount
           T == UniTransferToken(L, a, b, n)
<1>1. n \in Nat
  BY BankParts
<1>2. T = UniTransferToken(L, a, b, n) /\ R = CloseAta(T, a, x)
  BY DEF WithdrawAndCloseTokenAta
<1> HIDE DEF n, T
<1>3. Sound(T, A)
  BY <1>1, <1>2, UniTransferTokenFact
<1>4. Spares(L, T, U, V)
  BY <1>1, <1>2, SparesTransfer
<1>5. Spares(T, R, U, V)
  BY <1>2, <1>3, SparesCloseAta
<1>6. Sound(R, A)
  BY <1>2, <1>3, CloseAtaFact
<1> QED BY <1>3, <1>4, <1>5, <1>6, SparesTransitive

\* A payout takes nothing from users: it comes out of the escrow and its ATA.
LEMMA SparesPayout ==
  ASSUME NEW A, NEW L, Sound(L, A), NEW U \in SUBSET A, NEW V \in SUBSET A,
         NEW x \in A, x \notin U, x \notin V, NEW r \in A, x # r, NEW y \in A,
         NEW m \in Mints, NEW native \in BOOLEAN, NEW n \in Nat,
         NEW R, R = ProcessPayout(L, x, m, native, n, r, y)
  PROVE  Spares(L, R, U, V)
<1> DEFINE a == Ata(x, m)
           b == Ata(r, m)
<1>1. a \in Atas(A) /\ b \in Atas(A) /\ a # b /\ a \notin Atas(V)
  BY DEF Ata, Atas
<1>2. CASE native
  <2> DEFINE C == CloseAta(L, a, x)
  <2>1. C = CloseAta(L, a, x) /\ R = MoveLamports(C, x, r, n)
    BY <1>2 DEF ProcessPayout
  <2> HIDE DEF C, a, b
  <2>2. Sound(C, A)
    BY <1>1, <2>1, CloseAtaFact
  <2>3. Spares(L, C, U, V)
    BY <1>1, <2>1, SparesCloseAta
  <2>4. Spares(C, R, U, V)
    BY <2>1, <2>2, SparesMove
  <2>5. Sound(R, A)
    BY <2>1, <2>2, MoveLamportsFact
  <2> QED BY <2>2, <2>3, <2>4, <2>5, SparesTransitive
<1>3. CASE ~native
  <2>1. R = WithdrawAndCloseTokenAta(L, a, b, y)
    BY <1>3 DEF ProcessPayout
  <2> HIDE DEF a, b
  <2> QED BY <1>1, <2>1, SparesWithdrawAndClose
<1> QED BY <1>2, <1>3

\* A rescue takes from the owner's token account, and not from its recipient.
LEMMA SparesRescue ==
  ASSUME NEW A, NEW L, Sound(L, A), NEW U \in SUBSET A, NEW V \in SUBSET A,
         NEW x \in A, x \notin V, NEW r \in A, x # r, NEW m \in Mints, NEW n \in Nat,
         NEW R, R = RescueFunds(L, x, r, m, n)
  PROVE  Spares(L, R, U, V)
<1> DEFINE a == Ata(x, m)
           b == Ata(r, m)
           T == UniTransferToken(L, a, b, n)
<1>1. a \in Atas(A) /\ b \in Atas(A) /\ a # b /\ a \notin Atas(V)
  BY DEF Ata, Atas
<1>2. R = T \/ R = CloseAta(T, a, r)
  BY DEF RescueFunds
<1>3. T = UniTransferToken(L, a, b, n)
  OBVIOUS
<1> HIDE DEF T, a, b
<1>4. Sound(T, A)
  BY <1>1, <1>3, UniTransferTokenFact
<1>5. Spares(L, T, U, V)
  BY <1>1, <1>3, SparesTransfer
<1>6. CASE R = CloseAta(T, a, r)
  <2>1. Spares(T, R, U, V)
    BY <1>1, <1>4, <1>6, SparesCloseAta
  <2>2. Sound(R, A)
    BY <1>1, <1>4, <1>6, CloseAtaFact
  <2> QED BY <1>4, <1>5, <2>1, <2>2, SparesTransitive
<1> QED BY <1>2, <1>5, <1>6

=============================================================================
