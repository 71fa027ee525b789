-------------------------- MODULE IntakeProperties --------------------------
(***************************************************************************)
(* What the intake promises a partner whose system repeats its requests,   *)
(* sends them in bulk and mixes them with the legacy routes.               *)
(***************************************************************************)
EXTENDS Intake, Functions

(* However often a keyed request is sent, at whatever moment of the first  *)
(* one's way through accept() or accept_bulk(), and whether the first was  *)
(* refused, served or died, all jobs of one scope and key come from one    *)
(* call (IdempotencyRepository.claim).  Legacy routes are not covered: they *)
(* look up and create in two steps.                                        *)
OneJobPerKey ==
  \A x, y \in Items :
    /\ Exists(x) /\ Exists(y)
    /\ Kind(x[1]) \in {"single", "bulk"} /\ Keyed(x[1])
    /\ Scope(x[1]) = Scope(y[1])
    => x[1] = y[1]

(* Call c is shown its own claim, the answer to the create being lost: it  *)
(* replays a job or a batch that nobody will create.                       *)
MetItself(c) ==
  /\ "lost" \in Faults
  /\ pc[c] = "read" \/ answer[c] \in [told: {"replay", "missing"}, id: {OwnId(c), NoItem}]

(* A key is spent only on something: its record names a call that is still *)
(* being served, one that was accepted, one whose server died, one that an *)
(* unexpected error of the store ended, or one that took its own claim for *)
(* somebody else's, the answer being lost, and replays a job or a batch    *)
(* that nobody will create.  Every refusal gives the key back, so that the *)
(* client may retry with it (IdempotencyRepository.forget).                *)
KeysAreSpentOnResults ==
  \A s \in Scopes : keys[s] # NoRecord =>
    LET c == keys[s].result[1]
    IN /\ Scope(c) = s /\ keys[s].body = call[c].body
       /\ \/ pc[c] \notin {"start", "read", "answered"}
          \/ answer[c].told \in {"accepted", "batch", "broken"}
          \/ MetItself(c)

(* The counter's slots are handed out once each and none is skipped, by    *)
(* single requests and blocks alike; the items of a bulk call hold one     *)
(* block, in list order (PlanMixRepository.reserve, accept_bulk).          *)
SlotsPartition ==
  /\ \A n \in 1 .. counter : \E x \in Items : item[x].slot = n
  /\ \A x, y \in Items :
       /\ item[x].slot # 0 /\ item[x].slot = item[y].slot => x = y
       /\ x[1] = y[1] /\ x[2] < y[2] /\ item[x].slot # 0 /\ item[y].slot # 0
            => item[y].slot - item[x].slot
                 = Cardinality({z \in Entries(x[1]) : Valid(z) /\ x[2] < z[2] /\ z[2] <= y[2]})

(* What an item or its job holds of the quota: a settled job what it was   *)
(* charged, unless the refund of the rest failed.                          *)
Charge(x) ==
  IF ~Exists(x) THEN item[x].seats
  ELSE IF job[x].settled /\ "refund" \notin job[x].left THEN job[x].added
  ELSE job[x].reserved

(* licences_used is what the jobs were charged or still reserve, plus what *)
(* requests in accept() hold at this moment, plus what two kinds of        *)
(* mishaps keep for good: a request that died, or that an error ended,     *)
(* between adjust_licences_used and create_job, and a settlement whose     *)
(* refund failed.  No order of refusals, cuts to the commitment cap,       *)
(* failures and partial charges loses or gains a seat.  (Left out here: a  *)
(* counter whose write is done and reported as failed, which is the        *)
(* subject of the group commit, and a job whose hand-over raises, which is *)
(* that of the job life cycle.)                                            *)
NothingElseLeaks == used = SumFunctionOnSet([x \in Items |-> Charge(x)], Items)

(* A domain lock is held by an item in accept(), by a job that is not      *)
(* settled, or by the remains of a crash or of an error that nothing       *)
(* caught, in accept() or in the settlement; and both hold it all the      *)
(* time.                                                                   *)
LocksFollowJobs ==
  /\ \A d \in Domains : lock[d] # NoItem =>
       LET x == lock[d] IN
         /\ DomainOf(x) = d
         /\ IF Exists(x) THEN ~job[x].settled \/ "lock" \in job[x].left
            ELSE item[x].pc \in {"reserve", "unlock", "dead", "broken"} \cup Holding
  /\ \A x \in Items :
       \/ item[x].pc \in {"reserve", "slot", "cut", "create"}
       \/ Exists(x) /\ ~job[x].settled
       => lock[DomainOf(x)] = x

(* Every call is answered unless its server dies, and in the end no domain *)
(* is locked, no job is unsettled and no stored batch reads as still in    *)
(* progress, whatever was refused or died.                                 *)
AllIsReturned ==
  <>[](/\ \A c \in Calls : pc[c] \in {"answered", "dead"}
       /\ \A d \in Domains : lock[d] = NoItem
       /\ \A x \in Items : job[x].settled
       /\ \A c \in Calls : batch[c] # <<>> => BatchStatus(c) # "IN_PROGRESS")
=============================================================================
