--------------------------- MODULE JobProperties ----------------------------
(***************************************************************************)
(* What the job life cycle should guarantee.                               *)
(***************************************************************************)
EXTENDS JobLifecycle, Functions

(* The seats of `used` that request j accounts for, read off its document  *)
(* and its request: the reservation until its books are closed, what it    *)
(* was charged afterwards.                                                 *)
HeldBy(j) ==
  IF job[j].settled /\ closings[j] > 0
    THEN Smaller(job[j].reserved, job[j].added)
    ELSE api[j].seats

SeatsSold(d) == Minus(google[d], InitialSeats[d])

(* A reservation is given back at most once, whoever closes it: the worker *)
(* that finished, a worker that took over, a reconciler or accept()'s own  *)
(* error path (mark_settled: "so quota is never refunded twice").          *)
NeverRefundedTwice == \A j \in Jobs : closings[j] <= 1

(* The requests whose reservation nobody will give back any more: settled, *)
(* but the thread that flipped the flag is gone before its refund (later   *)
(* ones meet the flag and do nothing), or accept() ended before the job    *)
(* had its document.                                                       *)
Forsaken ==
  {j \in Jobs :
     /\ closings[j] = 0 /\ api[j].seats > 0
     /\ \/ job[j].settled /\ ~\E a \in Actors : actor[a].job = j /\ actor[a].pc = "refund"
        \/ api[j].pc = "dead" /\ ~Exists(j)}

(* The settled flag is written before the refund and keeps everybody else  *)
(* from it, so a death in between loses the rest of the reservation; but   *)
(* one death never loses more than one reservation.                        *)
OneLossPerDeath == Cardinality(Forsaken) <= crashes

(* Nothing is under way and every job is settled.                          *)
AtRest ==
  /\ \A a \in Actors : actor[a].pc = "idle"
  /\ \A j \in Jobs : api[j].pc \notin InAccept /\ (Exists(j) => job[j].settled)

(* Once all work is done, of the partner's counter there is left what      *)
(* Google gained on the domains of his jobs, and the forsaken reservations *)
(* in full.                                                                *)
BooksAtRest ==
  AtRest => used = SumFunctionOnSet(
                     [j \in Jobs |-> IF j \in Forsaken THEN api[j].seats
                                     ELSE SeatsSold(DomainOf[j])], Jobs)

(* What deaths cost the partner, exactly: one reservation for each death   *)
(* at most, and nothing else is ever missing from the books, for domains   *)
(* with one request each.  ("Guarded by the job's settled flag, so it      *)
(* happens exactly once" is what settle() promises: a death between the    *)
(* flag and the refund makes it not happen at all.)                        *)
SeatsComeBack == OneLossPerDeath /\ BooksAtRest

(* Whatever Google has added for the partner is covered by his counter, so *)
(* that the cap bounds what is bought and not just what is reserved.       *)
GoogleWithinQuota ==
  SumFunctionOnSet([d \in Domains |-> SeatsSold(d)], Domains) <= used

(* At most one job at a time changes a domain ("only one operation per     *)
(* domain at a time").                                                     *)
OneOperationPerDomain ==
  \A v, w \in Workers :
    Running(v) /\ Running(w) /\ Dom(v) = Dom(w) => actor[v].job = actor[w].job

(* A second worker joins a running job only after the first one's lease    *)
(* has lapsed: a redelivered task does not run beside a live worker.       *)
TakeoverOnlyAfterLapse ==
  [][ \A j \in Jobs :
        RunnersOf(j) # {} /\ ~(RunnersOf(j)' \subseteq RunnersOf(j))
          => job[j].beat # "live" ]_vars

(* A domain lock leaves a job's hands only when it has expired or when     *)
(* that job itself is over, whoever else finishes late in between.         *)
LockNotStolen ==
  [][ \A d \in Domains :
        lock[d].token # NoJob /\ lock[d].live /\ lock'[d].token # lock[d].token
          => LET j == lock[d].token
             IN job[j].settled \/ api[j].pc = "unlock" ]_vars

(* A job that completes in spite of crashes and takeovers is charged what  *)
(* its domain really gained, no more and no less, for a domain on which no *)
(* other request works: this is what seats_before is recorded for.         *)
ResumeChargesExactly ==
  \A j \in Jobs :
    /\ job[j].settled
    /\ job[j].status = "COMPLETED"
    /\ \A k \in Jobs \ {j} : DomainOf[k] # DomainOf[j]
    => job[j].added = SeatsSold(DomainOf[j])

(* Whoever settles it, and however it ended: a settled job that nobody is  *)
(* working on is charged what its domain gained, for a domain on which no  *)
(* other request works ("charged only what Google actually added; the rest *)
(* of the reservation is refunded").                                       *)
SettledAtGooglesFigure ==
  \A j \in Jobs :
    /\ job[j].settled
    /\ RunnersOf(j) = {}
    /\ \A k \in Jobs \ {j} : DomainOf[k] # DomainOf[j]
    => job[j].added = SeatsSold(DomainOf[j])

(* Nothing that was settled is charged differently later: the figure the   *)
(* refund was computed from stays on the record.                           *)
ChargeIsFinal ==
  [][ \A j \in Jobs : job[j].settled => job'[j].settled /\ job'[j].added = job[j].added ]_vars

(* Every job that got its document is settled in the end, whatever died on *)
(* the way.                                                                *)
EveryJobSettles == \A j \in Jobs : Exists(j) ~> job[j].settled

(* What the scheduling guarantees: threads run, the queue redelivers until *)
(* it gets a 2xx, the sweep comes round again, and time passes.            *)
Fairness ==
  /\ \A j \in Jobs : /\ WF_vars(Accept(j))
                     /\ WF_vars(\E w \in Workers : Deliver(w, j))
                     /\ WF_vars(\E r \in Reconcilers : Snapshot(r, j))
                     /\ WF_vars(Lapse(j)) /\ WF_vars(GoSilent(j))
  /\ \A w \in Workers : WF_vars(Work(w))
  /\ \A r \in Reconcilers : WF_vars(FailStale(r))
  /\ \A a \in Actors : WF_vars(Settle(a))
  /\ \A d \in Domains : WF_vars(LockExpires(d))

FairSpec == Spec /\ Fairness

-----------------------------------------------------------------------------
(* The intake implements the ledger: a request's account is open from the  *)
(* reservation on and closed by the first closing of its books.            *)
Ledger == INSTANCE SeatLedger WITH
  Requests <- Jobs,
  balance  <- [j \in Jobs |-> HeldBy(j)],
  account  <- [j \in Jobs |-> IF closings[j] > 0 THEN "closed"
                              ELSE IF api[j].seats > 0 THEN "open" ELSE "none"]

ImplementsLedger == Ledger!LedgerSpec
=============================================================================
