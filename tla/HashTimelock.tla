---------------------------- MODULE HashTimelock ----------------------------
(***************************************************************************)
(* What an escrow promises, whichever chain it is on and whatever accounts, *)
(* rents, deposits and signers it takes: an amount is locked; before its   *)
(* deadline it goes to the payee, if the secret of its hash is out; from   *)
(* its deadline on it can only go back to the payer; and until it expires  *)
(* it is there.  An expired lock promises nothing any more.                *)
(*                                                                         *)
(* EscrowSrcProperties and EscrowDstProperties show by a refinement mapping *)
(* that the programs keep it.                                              *)
(***************************************************************************)
EXTENDS Integers, LockStates

CONSTANTS Locks,   \* the names of the locks, which can be used again
          Hash,    \* of each lock
          Amount   \* of each lock

VARIABLES clock,
          opened,  \* the hashes whose secrets are out
          lock,    \* the state of each
          held,    \* what there is behind each lock
          wealth   \* what there is in each account of payees and payers

vars == <<clock, opened, lock, held, wealth>>

IsLocked(l) == lock[l].status = "locked"
Gains(account, n) == wealth'[account] >= wealth[account] + n

-----------------------------------------------------------------------------
\* What may become of a lock in one step.

Stay(l) == lock'[l] = lock[l]

Secure(l) == lock[l] = Free /\ lock'[l].status = "locked"

Redeem(l) ==
  /\ IsLocked(l) /\ lock'[l] = Free
  /\ Hash[l] \in opened
  /\ clock < lock[l].deadline
  /\ Gains(lock[l].payee, Amount[l])

Refund(l) ==
  /\ IsLocked(l) /\ lock'[l] = Free
  /\ clock >= lock[l].deadline
  /\ Gains(lock[l].payer, Amount[l])

Expire(l) == IsLocked(l) /\ lock'[l] = Expired /\ clock' >= lock[l].expiry

\* A lock that promises nothing comes and goes.
Void(l) == {lock[l], lock'[l]} = {Free, Expired}

-----------------------------------------------------------------------------

Init == lock = [l \in Locks |-> Free]

Next ==
  /\ clock' >= clock
  /\ opened \subseteq opened'
  /\ \A l \in Locks :
       /\ Stay(l) \/ Secure(l) \/ Redeem(l) \/ Refund(l) \/ Expire(l) \/ Void(l)
       /\ lock'[l].status = "locked" => held'[l] >= Amount[l]

Spec == Init /\ [][Next]_vars

=============================================================================
