---------------------------- MODULE EscrowCommon ----------------------------
(***************************************************************************)
(* common/src/escrow.rs: the transfers that both escrow programs make,     *)
(* each an operator from the bank an instruction has reached to the next.  *)
(***************************************************************************)
EXTENDS Ledger, Timelocks

\* uni_transfer makes no call at all for a zero amount.
UniTransferNative(L, from, to, n) ==
  IF n = 0 THEN L ELSE MoveLamports(L, from, to, n)
UniTransferToAta(L, from, a, n) == IF n = 0 THEN L ELSE FundAta(L, from, a, n)
UniTransferToken(L, from, to, n) == IF n = 0 THEN L ELSE TransferTokens(L, from, to, n)

\* Mutant: the close comes before the transfer.
WithdrawAndCloseTokenAta_Swapped(L, escrow_ata, to, rent_recipient) ==
  LET C == CloseAta(L, escrow_ata, rent_recipient)
  IN  UniTransferToken(C, escrow_ata, to, C.ata[escrow_ata].amount)

\* The escrow's whole token balance goes to the ATA "to", the lamports of
\* its closed ATA to rent_recipient.
WithdrawAndCloseTokenAta(L, escrow_ata, to, rent_recipient) ==
  CloseAta(UniTransferToken(L, escrow_ata, to, L.ata[escrow_ata].amount),
           escrow_ata, rent_recipient)

\* Mutant: a native asset is not unwrapped.
ProcessPayout_Wrapped(L, escrow, mint, asset_is_native, amount, recipient, rent_recipient) ==
  IF asset_is_native THEN MoveLamports(L, escrow, recipient, amount)
  ELSE WithdrawAndCloseTokenAta(L, Ata(escrow, mint), Ata(recipient, mint), rent_recipient)

\* A native asset is unwrapped into the escrow account, from which only the
\* escrow's amount goes on to the recipient.
ProcessPayout(L, escrow, mint, asset_is_native, amount, recipient, rent_recipient) ==
  IF asset_is_native
  THEN MoveLamports(CloseAta(L, Ata(escrow, mint), escrow), escrow, recipient, amount)
  ELSE WithdrawAndCloseTokenAta(L, Ata(escrow, mint), Ata(recipient, mint), rent_recipient)

\* Mutant: the deposit stays with the rent, whoever signs.
PaySafetyDeposit_Never(L, escrow, safety_deposit, rent_recipient, recipient) == L

\* The tail of "withdraw" and "cancel" in the programs' utils.rs.
PaySafetyDeposit(L, escrow, safety_deposit, rent_recipient, recipient) ==
  IF recipient = rent_recipient THEN L
  ELSE MoveLamports(L, escrow, recipient, safety_deposit)

\* Mutant: the time of a live account is not checked.
RescueOpen_Unchecked(live, tl, t) == TRUE

\* The time check applies only while the account still exists.
RescueOpen(live, tl, t) == live => RescueReached(tl, t)

\* Mutant: the balance is read after the transfer.
RescueFunds_AfterTransfer(L, owner, recipient, mint, rescue_amount) ==
  LET T == UniTransferToken(L, Ata(owner, mint), Ata(recipient, mint), rescue_amount)
  IN  IF rescue_amount = T.ata[Ata(owner, mint)].amount
      THEN CloseAta(T, Ata(owner, mint), recipient)
      ELSE T

RescueFunds(L, owner, recipient, mint, rescue_amount) ==
  LET T == UniTransferToken(L, Ata(owner, mint), Ata(recipient, mint), rescue_amount)
  IN  IF rescue_amount = L.ata[Ata(owner, mint)].amount
      THEN CloseAta(T, Ata(owner, mint), recipient)
      ELSE T

=============================================================================
