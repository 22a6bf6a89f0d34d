----------------------------- MODULE LockStates -----------------------------
(***************************************************************************)
(* The states of a lock of HashTimelock: free, locked under its terms, or  *)
(* past its expiry, when nothing is promised of it any more.               *)
(***************************************************************************)

Free == [status |-> "free"]
Expired == [status |-> "expired"]
Locked(payee, payer, deadline, expiry) ==
  [status |-> "locked", payee |-> payee, payer |-> payer, deadline |-> deadline,
   expiry |-> expiry]

=============================================================================
