------------------------------- MODULE Ledger -------------------------------
(***************************************************************************)
(* What the escrow programs use of the System, SPL Token and Associated    *)
(* Token programs: lamport balances of the addresses that are not token    *)
(* accounts, and the associated token accounts (ATAs) of those addresses.  *)
(* None of this code is in the repository; every operator is modelled from *)
(* the calls the repository makes.                                         *)
(*                                                                         *)
(* An instruction is a chain of operators from one bank to the next.  The  *)
(* first one that fails leaves ok = FALSE, which every later one keeps: a  *)
(* transaction whose chain ends with ok = FALSE is not a step at all, the  *)
(* way Solana reverts a transaction any of whose calls fails.              *)
(***************************************************************************)
EXTENDS Integers

CONSTANTS Mints,        \* the token mints
          NATIVE_MINT,  \* wrapped SOL: tokens of this mint are lamports
          RENT_ATA      \* rent-exempt reserve of a token account

ASSUME LedgerAssumption == NATIVE_MINT \in Mints /\ RENT_ATA \in Nat

AtaState == [live : BOOLEAN, amount : Nat, lamports : Nat]
NoAta == [live |-> FALSE, amount |-> 0, lamports |-> 0]

\* The address of an owner's ATA is derived from the owner and the mint.
Ata(owner, mint) == <<owner, mint>>

Bank(owners) ==
  [sol : [owners -> Nat], ata : [owners \X Mints -> AtaState], ok : BOOLEAN]

\* The lamports that n tokens of ATA a carry with them.
TokenLamports(a, n) == IF a[2] = NATIVE_MINT THEN n ELSE 0

\* The next bank M if the bank L is sound and the call's condition holds.
Attempt(L, cond, M) == IF L.ok /\ cond THEN M ELSE [L EXCEPT !.ok = FALSE]

-----------------------------------------------------------------------------
\* System program transfers and the direct sub_lamports / add_lamports.

SubLamports(L, x, n) == Attempt(L, n <= L.sol[x], [L EXCEPT !.sol[x] = @ - n])
AddLamports(L, x, n) == Attempt(L, TRUE, [L EXCEPT !.sol[x] = @ + n])
MoveLamports(L, from, to, n) == AddLamports(SubLamports(L, from, n), to, n)

\* A system transfer whose destination is the address of a token account.
AddAtaLamports(L, a, n) ==
  Attempt(L, L.ata[a].live, [L EXCEPT !.ata[a].lamports = @ + n])
FundAta(L, from, a, n) == AddAtaLamports(SubLamports(L, from, n), a, n)

\* Anchor's "init" of a program account at x, which holds nothing before, and
\* its "close": the account's whole balance goes to one recipient.
InitAccount(L, payer, x, rent) == MoveLamports(L, payer, x, rent)
CloseAccount(L, x, to) == MoveLamports(L, x, to, L.sol[x])

-----------------------------------------------------------------------------
\* SPL token accounts.

OpenAta(L, payer, a) ==
  LET P == SubLamports(L, payer, RENT_ATA)
  IN  Attempt(P, ~P.ata[a].live,
              [P EXCEPT !.ata[a] = [live |-> TRUE, amount |-> 0, lamports |-> RENT_ATA]])

\* Anchor's "init_if_needed" on an associated token account.
InitIfNeededAta(L, payer, a) == IF L.ata[a].live THEN L ELSE OpenAta(L, payer, a)

TakeTokens(L, a, n) ==
  Attempt(L, /\ L.ata[a].live
             /\ n <= L.ata[a].amount
             /\ TokenLamports(a, n) <= L.ata[a].lamports,
          [L EXCEPT !.ata[a] = [live     |-> TRUE,
                                amount   |-> L.ata[a].amount - n,
                                lamports |-> L.ata[a].lamports - TokenLamports(a, n)]])

PutTokens(L, a, n) ==
  Attempt(L, L.ata[a].live,
          [L EXCEPT !.ata[a] = [live     |-> TRUE,
                                amount   |-> L.ata[a].amount + n,
                                lamports |-> L.ata[a].lamports + TokenLamports(a, n)]])

\* transfer_checked between two accounts of the same mint.
TransferTokens(L, from, to, n) == PutTokens(TakeTokens(L, from, n), to, n)

\* close_account: a native account may still hold tokens, any other may not.
CloseAta(L, a, to) ==
  LET C == AddLamports(L, to, L.ata[a].lamports)
  IN  Attempt(C, L.ata[a].live /\ (L.ata[a].amount = 0 \/ a[2] = NATIVE_MINT),
              [C EXCEPT !.ata[a] = NoAta])

\* sync_native: lamports beyond the reserve become wrapped SOL.
SyncNative(L, a) ==
  Attempt(L, /\ L.ata[a].live
             /\ a[2] = NATIVE_MINT
             /\ L.ata[a].lamports >= RENT_ATA + L.ata[a].amount,
          [L EXCEPT !.ata[a] = [live     |-> TRUE,
                                amount   |-> L.ata[a].lamports - RENT_ATA,
                                lamports |-> L.ata[a].lamports]])

=============================================================================
