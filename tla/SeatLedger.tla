----------------------------- MODULE SeatLedger -----------------------------
(***************************************************************************)
(* What the intake promises a partner about licences, without locks,       *)
(* leases, queues or processes: a request either takes nothing, or opens   *)
(* one account within the cap; the account is closed once, at a charge of  *)
(* at most what it held; the partner's counter moves with the accounts.    *)
(***************************************************************************)
EXTENDS Naturals

CONSTANTS Requests, Cap

VARIABLES
  used,      \* the partner's licences_used
  balance,   \* balance[r]: the share of used that request r accounts for
  account    \* account[r]: has r opened or closed its account?

ledgerVars == <<used, balance, account>>

LedgerInit ==
  /\ used = 0
  /\ balance = [r \in Requests |-> 0]
  /\ account = [r \in Requests |-> "none"]

(* A reservation within the cap.                                           *)
Open(r) ==
  /\ account[r] = "none"
  /\ account' = [account EXCEPT ![r] = "open"]
  /\ \E n \in 1 .. Cap : /\ used + n <= Cap
                         /\ used' = used + n
                         /\ balance' = [balance EXCEPT ![r] = n]

(* Part of a reservation is handed back before any work is done; never all. *)
Trim(r) ==
  /\ account[r] = "open"
  /\ \E n \in 1 .. balance[r] :
       /\ balance' = [balance EXCEPT ![r] = n]
       /\ used' = used - (balance[r] - n)
  /\ UNCHANGED account

(* The charge stays on the counter, the rest goes back, for good.          *)
Close(r) ==
  /\ account[r] = "open"
  /\ account' = [account EXCEPT ![r] = "closed"]
  /\ \E charge \in 0 .. balance[r] :
       /\ balance' = [balance EXCEPT ![r] = charge]
       /\ used' = used - (balance[r] - charge)

LedgerNext == \E r \in Requests : Open(r) \/ Trim(r) \/ Close(r)

LedgerSpec == LedgerInit /\ [][LedgerNext]_ledgerVars
=============================================================================
