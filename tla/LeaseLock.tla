------------------------------ MODULE LeaseLock ------------------------------
(***************************************************************************)
(* What a domain lock promises, without documents and versions: it has at  *)
(* most one owner; it passes to a client only while it is free or its      *)
(* lease has lapsed; only its owner renews or frees it; and a client is    *)
(* refused only for a cause: somebody else owned the lock while it asked,  *)
(* or it was given the lock without being told.                            *)
(***************************************************************************)
CONSTANTS Clients, NoOwner, AnswersLost

VARIABLES
  owner,   \* the client whose lock it is, or NoOwner
  live,    \* has its lease not lapsed?
  phase,   \* phase[c]: "out", "asking", "holding", "refused" or "gone"
  cause    \* cause[c]: is there a cause to refuse c?

leaseVars == <<owner, live, phase, cause>>

LeaseInit ==
  /\ owner = NoOwner
  /\ live = FALSE
  /\ phase = [c \in Clients |-> "out"]
  /\ cause = [c \in Clients |-> FALSE]

Ask(c) ==
  /\ phase[c] = "out"
  /\ phase' = [phase EXCEPT ![c] = "asking"]
  /\ cause' = [cause EXCEPT ![c] = owner # NoOwner]
  /\ UNCHANGED <<owner, live>>

(* The lock becomes c's; the others that ask have a competitor.            *)
Take(c) ==
  /\ phase[c] = "asking"
  /\ owner = NoOwner \/ ~live
  /\ owner' = c
  /\ live' = TRUE

Grant(c) ==
  /\ Take(c)
  /\ phase' = [phase EXCEPT ![c] = "holding"]
  /\ cause' = [d \in Clients |-> cause[d] \/ (d # c /\ phase[d] = "asking")]

(* ... without c's knowledge: it asks on, or is told that it was refused.  *)
GrantUnseen(c) ==
  /\ AnswersLost
  /\ Take(c)
  /\ phase' \in {phase, [phase EXCEPT ![c] = "refused"]}
  /\ cause' = [d \in Clients |-> cause[d] \/ phase[d] = "asking"]

Refuse(c) ==
  /\ phase[c] = "asking"
  /\ cause[c]
  /\ phase' = [phase EXCEPT ![c] = "refused"]
  /\ UNCHANGED <<owner, live, cause>>

Renew(c) ==
  /\ owner = c
  /\ live' = TRUE
  /\ UNCHANGED <<owner, phase, cause>>

(* A client stops holding, or dies while asking or holding; its lock may   *)
(* stay behind.                                                            *)
Part(c) ==
  /\ phase[c] \in {"asking", "holding"}
  /\ phase' = [phase EXCEPT ![c] = "gone"]
  /\ UNCHANGED <<owner, live, cause>>

Free(c) ==
  /\ owner = c
  /\ phase[c] = "gone"
  /\ owner' = NoOwner
  /\ live' = FALSE
  /\ UNCHANGED <<phase, cause>>

Lapse ==
  /\ live' = FALSE
  /\ UNCHANGED <<owner, phase, cause>>

LeaseNext ==
  \/ \E c \in Clients : \/ Ask(c) \/ Grant(c) \/ GrantUnseen(c) \/ Refuse(c)
                        \/ Renew(c) \/ Part(c) \/ Free(c)
  \/ Lapse

LeaseSpec == LeaseInit /\ [][LeaseNext]_leaseVars
=============================================================================
