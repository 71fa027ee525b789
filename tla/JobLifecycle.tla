---------------------------- MODULE JobLifecycle ----------------------------
(***************************************************************************)
(* The life of a partner's provisioning request, from the API call that    *)
(* accepts it to the settlement of its licence quota:                      *)
(*                                                                         *)
(*   accept      domain lock, quota reservation, plan slot, job document,  *)
(*               hand-over to the queue (ProvisioningIntake.accept);       *)
(*   run_job     claim of the job's lease, provisioning at Google,         *)
(*               settlement (ProvisioningIntake.run_job, settle,           *)
(*               ProvisioningService.provision_company);                   *)
(*   reconcile   the sweep that fails and settles jobs which stopped       *)
(*               beating (ProvisioningIntake.reconcile_stale_jobs).        *)
(*                                                                         *)
(* Requests, workers and reconcilers interleave one store access or one    *)
(* Google call at a time.  A compare-and-swap loop of the repositories is  *)
(* one atomic action; what the loops themselves guarantee is the subject   *)
(* of other modules.  Clocks are abstracted to what the code compares them *)
(* with: a heartbeat is "live" (within the worker lease), "lapsed" or      *)
(* "silent" (older than job_stale_after_seconds), a lock is live or has    *)
(* expired.                                                                *)
(***************************************************************************)
EXTENDS Naturals, FiniteSets

CONSTANTS
  Jobs,          \* the accepted-or-refused requests of one partner, one job id each
  Domains,       \* the primary domains they name
  Workers,       \* threads that run jobs
  Reconcilers,   \* threads or servers that sweep stale jobs
  NoJob,         \* the token of a free lock, the job of an idle actor
  DomainOf,      \* [Jobs -> Domains]
  Seats,         \* [Jobs -> Nat \ {0}], license_count of each request
  InitialSeats,  \* [Domains -> Nat], what Google holds before; 0 = no subscription
  Cap,           \* max_licence_cap of the partner
  CommitCap,     \* plan_mix_max_licences, the cap of a commitment slot
  Batch,         \* GOOGLE_MAX_SEATS_PER_CALL
  Durable,       \* TRUE: Cloud Tasks queue; FALSE: the in-memory pool
  Faults,        \* which of FaultKinds the environment may produce
  MaxCrashes     \* bound on process deaths in one behaviour

FaultKinds ==
  { "late",       \* a job may wait, or lie crashed, longer than its lock lives
    "stall",      \* a live worker may fail to beat for longer than its lease
    "error",      \* a step may raise while Google has sold nothing for it
    "halfDone",   \* ... and also after Google has, the answer lost or not recorded
    "dispatch",   \* the hand-over may raise, the task queued or not
    "refund" }    \* the write of the refund may raise

Actors == Workers \cup Reconcilers

ASSUME ConstantsAssumption ==
  /\ IsFiniteSet(Jobs) /\ IsFiniteSet(Domains)
  /\ NoJob \notin Jobs
  /\ Workers \cap Reconcilers = {}
  /\ DomainOf \in [Jobs -> Domains]
  /\ Seats \in [Jobs -> Nat \ {0}]
  /\ InitialSeats \in [Domains -> Nat]
  /\ Cap \in Nat
  /\ CommitCap \in Nat \ {0}
  /\ Batch \in Nat \ {0}
  /\ Durable \in BOOLEAN
  /\ Faults \subseteq FaultKinds
  /\ MaxCrashes \in Nat

VARIABLES
  api,       \* api[j]: where accept() of request j is, and the seats it holds
  job,       \* job[j]: the job document; status "NONE" while there is none
  lock,      \* lock[d]: the domain lock document
  used,      \* licences_used of the partner
  task,      \* task[j]: the queue's entry for the job
  google,    \* google[d]: seats of the domain's subscription at Google
  actor,     \* actor[a]: program counter and locals of a worker or reconciler
  crashes,   \* process deaths so far
  closings   \* closings[j]: how often j's reservation has been given back (history)

vars == <<api, job, lock, used, task, google, actor, crashes, closings>>

-----------------------------------------------------------------------------
Smaller(m, n) == IF m < n THEN m ELSE n
Minus(m, n) == IF m > n THEN m - n ELSE 0       \* max(0, m - n)

Statuses == {"NONE", "PENDING", "RUNNING", "SUBSCRIBED", "COMPLETED", "FAILED"}
Terminal == {"COMPLETED", "FAILED"}

(* The steps of accept(); "undo" and "unlock" are its except blocks.       *)
ApiSteps == {"start", "locked", "reserved", "planned", "created", "accepted",
             "undo", "unlock", "refused", "dead"}
InAccept == {"locked", "reserved", "planned", "created", "undo", "unlock"}

(* The steps of provision_company(), between which a heartbeat thread runs *)
Provisioning == {"validate", "list", "base", "create", "scale", "note",
                 "finish", "failing", "failed"}
(* The steps of settle(), which both workers and reconcilers execute.      *)
Settling == {"settle", "refund", "unlock"}
ActorSteps == {"idle", "claim", "stale"} \cup Provisioning \cup Settling

NoDoc == [status |-> "NONE", settled |-> FALSE, leased |-> FALSE, beat |-> "live",
          recorded |-> FALSE, before |-> 0, added |-> 0, reserved |-> 0]

(* base: the local `before`; current: the seats Google reported; charge:   *)
(* what the actor will settle; open: the snapshot said "not terminal".     *)
Idle == [pc |-> "idle", job |-> NoJob, current |-> 0, base |-> 0, charge |-> 0,
         open |-> FALSE]

ApiRecord == [pc: ApiSteps, seats: Nat]
JobRecord == [status: Statuses, settled: BOOLEAN, leased: BOOLEAN,
              beat: {"live", "lapsed", "silent"}, recorded: BOOLEAN,
              before: Nat, added: Nat, reserved: Nat]
LockRecord == [token: Jobs \cup {NoJob}, live: BOOLEAN]
ActorRecord == [pc: ActorSteps, job: Jobs \cup {NoJob}, current: Nat, base: Nat,
                charge: Nat, open: BOOLEAN]

(* A thread that has something to do knows its job.                        *)
ActorType ==
  /\ actor \in [Actors -> ActorRecord]
  /\ \A a \in Actors : actor[a].pc # "idle" => actor[a].job \in Jobs

(* The values of every variable.                                           *)
TypeOK ==
  /\ api \in [Jobs -> ApiRecord]
  /\ job \in [Jobs -> JobRecord]
  /\ lock \in [Domains -> LockRecord]
  /\ used \in Nat
  /\ task \in [Jobs -> {"none", "queued", "gone"}]
  /\ google \in [Domains -> Nat]
  /\ ActorType
  /\ crashes \in Nat
  /\ closings \in [Jobs -> Nat]

Init ==
  /\ api = [j \in Jobs |-> [pc |-> "start", seats |-> 0]]
  /\ job = [j \in Jobs |-> NoDoc]
  /\ lock = [d \in Domains |-> [token |-> NoJob, live |-> FALSE]]
  /\ used = 0
  /\ task = [j \in Jobs |-> "none"]
  /\ google = InitialSeats
  /\ actor = [a \in Actors |-> Idle]
  /\ crashes = 0
  /\ closings = [j \in Jobs |-> 0]

Exists(j) == job[j].status # "NONE"
JobOf(a) == job[actor[a].job]
Dom(a) == DomainOf[actor[a].job]
Target(a) == JobOf(a).reserved      \* license_count of the stored request

Running(w) == actor[w].pc \in Provisioning
RunnersOf(j) == {w \in Workers : Running(w) /\ actor[w].job = j}
HoldsLiveLock(j) == lock[DomainOf[j]].token = j /\ lock[DomainOf[j]].live

-----------------------------------------------------------------------------
(* accept()                                                                *)

ApiTo(j, pc) == api' = [api EXCEPT ![j].pc = pc]

(* Mutant: release without the token check.                                *)
ReleaseLockAnyToken(j) ==
  lock' = [lock EXCEPT ![DomainOf[j]] = [token |-> NoJob, live |-> FALSE]]

(* LockRepository.release: removes the lock only if j's token is still on it. *)
ReleaseLock(j) ==
  lock' = IF lock[DomainOf[j]].token = j
            THEN [lock EXCEPT ![DomainOf[j]] = [token |-> NoJob, live |-> FALSE]]
            ELSE lock

(* Mutant: acquire overwrites a live lock.                                 *)
AcquireLockBlindly(j) ==
  /\ api[j].pc = "start"
  /\ lock' = [lock EXCEPT ![DomainOf[j]] = [token |-> j, live |-> TRUE]]
  /\ ApiTo(j, "locked")
  /\ UNCHANGED <<job, used, task, google, actor, crashes, closings>>

(* LockRepository.acquire: a free lock, or one that has expired, is taken. *)
AcquireLock(j) ==
  /\ api[j].pc = "start"
  /\ ~lock[DomainOf[j]].live
  /\ lock' = [lock EXCEPT ![DomainOf[j]] = [token |-> j, live |-> TRUE]]
  /\ ApiTo(j, "locked")
  /\ UNCHANGED <<job, used, task, google, actor, crashes, closings>>

DomainBusy(j) ==
  /\ api[j].pc = "start"
  /\ lock[DomainOf[j]].live
  /\ ApiTo(j, "refused")
  /\ UNCHANGED <<job, lock, used, task, google, actor, crashes, closings>>

(* adjust_licences_used(seats, enforce_cap=True), atomic.                  *)
Reserve(j) ==
  /\ api[j].pc = "locked"
  /\ used + Seats[j] <= Cap
  /\ used' = used + Seats[j]
  /\ api' = [api EXCEPT ![j] = [pc |-> "reserved", seats |-> Seats[j]]]
  /\ UNCHANGED <<job, lock, task, google, actor, crashes, closings>>

OverQuota(j) ==
  /\ api[j].pc = "locked"
  /\ used + Seats[j] > Cap
  /\ ApiTo(j, "unlock")
  /\ UNCHANGED <<job, lock, used, task, google, actor, crashes, closings>>

(* The plan slot: on a commitment slot the seats above CommitCap are handed *)
(* back at once.  Which slot the request gets is left open here.            *)
AssignPlan(j) ==
  /\ api[j].pc = "reserved"
  /\ \E kept \in {api[j].seats, Smaller(api[j].seats, CommitCap)} :
       /\ api' = [api EXCEPT ![j] = [pc |-> "planned", seats |-> kept]]
       /\ used' = Minus(used, api[j].seats - kept)
  /\ UNCHANGED <<job, lock, task, google, actor, crashes, closings>>

CreateJob(j) ==
  /\ api[j].pc = "planned"
  /\ job' = [job EXCEPT ![j] = [NoDoc EXCEPT !.status = "PENDING",
                                             !.reserved = api[j].seats]]
  /\ ApiTo(j, "created")
  /\ UNCHANGED <<lock, used, task, google, actor, crashes, closings>>

Dispatch(j) ==
  /\ api[j].pc = "created"
  /\ task' = [task EXCEPT ![j] = "queued"]
  /\ ApiTo(j, "accepted")
  /\ UNCHANGED <<job, lock, used, google, actor, crashes, closings>>

(* The hand-over raises; after a timeout the task may be queued all the same. *)
DispatchRaises(j) ==
  /\ "dispatch" \in Faults
  /\ api[j].pc = "created"
  /\ task' \in {task} \cup
               (IF Durable THEN {[task EXCEPT ![j] = "queued"]} ELSE {})
  /\ ApiTo(j, "undo")
  /\ UNCHANGED <<job, lock, used, google, actor, crashes, closings>>

(* The plan slot or the job document cannot be written.                    *)
AcceptRaises(j) ==
  /\ "error" \in Faults
  /\ api[j].pc \in {"reserved", "planned"}
  /\ ApiTo(j, "undo")
  /\ UNCHANGED <<job, lock, used, task, google, actor, crashes, closings>>

(* Only two errors of the reservation are caught, and none of the lock's or *)
(* of the except blocks' own writes: any other ends the call where it is.  *)
(* If the write had been done all the same, that is its step and then this *)
(* one, from "reserved" too, which the caller has not got to see.          *)
AcceptEscapes(j) ==
  /\ "error" \in Faults
  /\ api[j].pc \in {"start", "locked", "reserved", "undo", "unlock"}
  /\ ApiTo(j, "dead")
  /\ UNCHANGED <<job, lock, used, task, google, actor, crashes, closings>>

(* Mutant: the error path refunds what was requested, not what is still held. *)
UndoRequestedSeats(j) ==
  /\ api[j].pc = "undo"
  /\ used' = Minus(used, Seats[j])
  /\ closings' = [closings EXCEPT ![j] = @ + 1]
  /\ api' = [api EXCEPT ![j] = [pc |-> "unlock", seats |-> 0]]
  /\ UNCHANGED <<job, lock, task, google, actor, crashes>>

(* except: increment_licences_used(-seats) ...                             *)
UndoReservation(j) ==
  /\ api[j].pc = "undo"
  /\ used' = Minus(used, api[j].seats)
  /\ closings' = [closings EXCEPT ![j] = @ + 1]
  /\ api' = [api EXCEPT ![j] = [pc |-> "unlock", seats |-> 0]]
  /\ UNCHANGED <<job, lock, task, google, actor, crashes>>

(* ... and release of the domain lock, as after a quota refusal.           *)
UnlockRefused(j) ==
  /\ api[j].pc = "unlock"
  /\ ReleaseLock(j)
  /\ ApiTo(j, "refused")
  /\ UNCHANGED <<job, used, task, google, actor, crashes, closings>>

Accept(j) ==
  \/ AcquireLock(j) \/ DomainBusy(j)
  \/ Reserve(j) \/ OverQuota(j)
  \/ AssignPlan(j) \/ CreateJob(j) \/ Dispatch(j)
  \/ DispatchRaises(j) \/ AcceptRaises(j)
  \/ AcceptEscapes(j) \/ UndoReservation(j) \/ UnlockRefused(j)

-----------------------------------------------------------------------------
(* run_job(): one worker thread, from delivery to the start of settle().   *)

To(a, pc) == actor' = [actor EXCEPT ![a].pc = pc]

SetStatus(j, s) == job' = [job EXCEPT ![j].status = s]

(* Cloud Tasks delivers a queued task until a 2xx answer removes it, also   *)
(* while an earlier delivery is still running; the pool starts it once.    *)
Deliver(w, j) ==
  /\ actor[w].pc = "idle"
  /\ task[j] = "queued"
  /\ task' = IF Durable THEN task ELSE [task EXCEPT ![j] = "gone"]
  /\ actor' = [actor EXCEPT ![w] = [Idle EXCEPT !.pc = "claim", !.job = j]]
  /\ UNCHANGED <<api, job, lock, used, google, crashes, closings>>

(* Mutant: the lease of another live worker is not looked at.              *)
LeaseNeverHeld(j) == FALSE

(* JobRepository.claim.  Every invocation is a new lease owner, so a lease  *)
(* with a live beat is always somebody else's.                             *)
LeaseHeld(j) == job[j].leased /\ job[j].beat = "live"

(* Mutant: a job that is already settled is claimed again.                 *)
ClaimSettledToo(w) ==
  /\ actor[w].pc = "claim"
  /\ Exists(actor[w].job) /\ ~LeaseHeld(actor[w].job)
  /\ job' = [job EXCEPT ![actor[w].job] = [@ EXCEPT !.leased = TRUE, !.beat = "live"]]
  /\ To(w, "validate")
  /\ UNCHANGED <<api, lock, used, task, google, crashes, closings>>

Claim(w) ==
  /\ actor[w].pc = "claim"
  /\ Exists(actor[w].job) /\ ~JobOf(w).settled /\ ~LeaseHeld(actor[w].job)
  /\ job' = [job EXCEPT ![actor[w].job] = [@ EXCEPT !.leased = TRUE, !.beat = "live"]]
  /\ To(w, "validate")
  /\ UNCHANGED <<api, lock, used, task, google, crashes, closings>>

(* "missing" and "done" are answered 2xx, "busy" 503: the task stays queued. *)
ClaimRefused(w) ==
  /\ actor[w].pc = "claim"
  /\ ~Exists(actor[w].job) \/ JobOf(w).settled \/ LeaseHeld(actor[w].job)
  /\ task' = IF Exists(actor[w].job) /\ ~JobOf(w).settled
                THEN task
                ELSE [task EXCEPT ![actor[w].job] = "gone"]
  /\ actor' = [actor EXCEPT ![w] = Idle]
  /\ UNCHANGED <<api, job, lock, used, google, crashes, closings>>

(* The heartbeat thread: the job's heartbeat_at is written without looking *)
(* at the owner, then the domain lock is renewed if the token still fits.  *)
Beat(w) ==
  /\ Running(w)
  /\ job' = [job EXCEPT ![actor[w].job].beat = "live"]
  /\ lock' = IF lock[Dom(w)].token = actor[w].job
               THEN [lock EXCEPT ![Dom(w)].live = TRUE]
               ELSE lock
  /\ UNCHANGED <<api, used, task, google, actor, crashes, closings>>

(* Steps 1 and 2 of provision_company: validation and the customer record. *)
EnsureCustomer(w) ==
  /\ actor[w].pc = "validate"
  /\ SetStatus(actor[w].job, "RUNNING")
  /\ To(w, "list")
  /\ UNCHANGED <<api, lock, used, task, google, crashes, closings>>

ListSeats(w) ==
  /\ actor[w].pc = "list"
  /\ actor' = [actor EXCEPT ![w] = [@ EXCEPT !.pc = "base", !.current = google[Dom(w)]]]
  /\ UNCHANGED <<api, job, lock, used, task, google, crashes, closings>>

(* Mutant: a resumed attempt takes Google's current figure as its base.     *)
RecordBaseAfresh(w) ==
  /\ actor[w].pc = "base"
  /\ LET now  == actor[w].current
         next == IF now > Target(w) THEN "failing"
                 ELSE IF now = 0 THEN "create"
                 ELSE IF now < Target(w) THEN "scale" ELSE "note"
     IN /\ actor' = [actor EXCEPT ![w] = [@ EXCEPT !.pc = next, !.base = now]]
        /\ job' = [job EXCEPT ![actor[w].job] =
                     [@ EXCEPT !.recorded = TRUE, !.before = now]]
  /\ UNCHANGED <<api, lock, used, task, google, crashes, closings>>

(* _seats_before: the figure recorded by the first attempt wins.  Then the *)
(* refusal to shrink, and the choice between creating and scaling.         *)
RecordBase(w) ==
  /\ actor[w].pc = "base"
  /\ LET now  == actor[w].current
         base == IF JobOf(w).recorded THEN JobOf(w).before ELSE now
         next == IF now > Target(w) THEN "failing"
                 ELSE IF now = 0 THEN "create"
                 ELSE IF now < Target(w) THEN "scale" ELSE "note"
     IN /\ actor' = [actor EXCEPT ![w] = [@ EXCEPT !.pc = next, !.base = base]]
        /\ job' = [job EXCEPT ![actor[w].job] =
                     [@ EXCEPT !.recorded = TRUE, !.before = base]]
  /\ UNCHANGED <<api, lock, used, task, google, crashes, closings>>

(* The call took effect; its answer may be lost beyond the retries.        *)
Answered(next) == {next} \cup (IF "halfDone" \in Faults THEN {"failing"} ELSE {})

(* create_subscription with the first batch: one subscription per domain   *)
(* and SKU, so one that is there keeps its seats.                          *)
Opened(w) ==
  IF google[Dom(w)] = 0 THEN Smaller(Target(w), Batch) ELSE google[Dom(w)]

(* If somebody else's subscription has appeared, the mock adapter's        *)
(* SubscriptionAlreadyExistsError leads to its seats being adopted and the *)
(* real API's 409 to a failure.                                            *)
CreateSubscription(w) ==
  /\ actor[w].pc = "create"
  /\ LET now  == Opened(w)
         next == IF now < Target(w) THEN "scale" ELSE "note"
     IN /\ google' = [google EXCEPT ![Dom(w)] = now]
        /\ \E pc \in Answered(next) \cup (IF google[Dom(w)] = 0 THEN {} ELSE {"failing"}) :
             actor' = [actor EXCEPT ![w] = [@ EXCEPT !.pc = pc, !.current = now]]
  /\ UNCHANGED <<api, job, lock, used, task, crashes, closings>>

(* One change_seats call of _scale_seats: an absolute figure, computed from *)
(* what this worker believes the current one to be.                        *)
ScaleSeats(w) ==
  /\ actor[w].pc = "scale"
  /\ LET now == Smaller(actor[w].current + Batch, Target(w))
     IN /\ google' = [google EXCEPT ![Dom(w)] = now]
        /\ \E pc \in Answered(IF now < Target(w) THEN "scale" ELSE "note") :
             actor' = [actor EXCEPT ![w] = [@ EXCEPT !.pc = pc, !.current = now]]
  /\ UNCHANGED <<api, job, lock, used, task, crashes, closings>>

(* Status SUBSCRIPTION_CREATED with licences_added.                        *)
NoteAdded(w) ==
  /\ actor[w].pc = "note"
  /\ LET added == Minus(Target(w), actor[w].base)
     IN /\ job' = [job EXCEPT ![actor[w].job] =
                     [@ EXCEPT !.status = "SUBSCRIBED", !.added = added]]
        /\ actor' = [actor EXCEPT ![w] = [@ EXCEPT !.pc = "finish", !.charge = added]]
  /\ UNCHANGED <<api, lock, used, task, google, crashes, closings>>

(* The admin user and the e-mails, neither of which fails the job.         *)
Complete(w) ==
  /\ actor[w].pc = "finish"
  /\ SetStatus(actor[w].job, "COMPLETED")
  /\ To(w, "settle")
  /\ UNCHANGED <<api, lock, used, task, google, crashes, closings>>

(* A step raises.  Between the first sold seat and the note of it this is  *)
(* the harder case, and a fault of its own.                                *)
SoldUnrecorded(w) ==
  actor[w].pc \in {"scale", "note"} /\ actor[w].current > actor[w].base

StepRaises(w) ==
  /\ actor[w].pc \in Provisioning \ {"failing", "failed"}
  /\ IF SoldUnrecorded(w) THEN "halfDone" \in Faults ELSE "error" \in Faults
  /\ To(w, "failing")
  /\ UNCHANGED <<api, job, lock, used, task, google, crashes, closings>>

(* The except block of provision_company ...                               *)
MarkFailed(w) ==
  /\ actor[w].pc = "failing"
  /\ SetStatus(actor[w].job, "FAILED")
  /\ To(w, "failed")
  /\ UNCHANGED <<api, lock, used, task, google, crashes, closings>>

(* Mutant: a failed job is charged nothing, whatever its document says.     *)
ChargeNothingOnFailure(w) ==
  /\ actor[w].pc = "failed"
  /\ actor' = [actor EXCEPT ![w] = [@ EXCEPT !.pc = "settle", !.charge = 0]]
  /\ job' = IF JobOf(w).status \in Terminal
              THEN job
              ELSE [job EXCEPT ![actor[w].job].status = "FAILED"]
  /\ UNCHANGED <<api, lock, used, task, google, crashes, closings>>

(* ... and that of run_job, which charges what the document says.          *)
ReadCharge(w) ==
  /\ actor[w].pc = "failed"
  /\ actor' = [actor EXCEPT ![w] = [@ EXCEPT !.pc = "settle", !.charge = JobOf(w).added]]
  /\ job' = IF JobOf(w).status \in Terminal
              THEN job
              ELSE [job EXCEPT ![actor[w].job].status = "FAILED"]
  /\ UNCHANGED <<api, lock, used, task, google, crashes, closings>>

-----------------------------------------------------------------------------
(* settle(), by a worker or a reconciler.                                  *)

(* Mutant: the thread forgets its job but stays where it was.               *)
DoneInPlace(a) ==
  /\ actor' = [actor EXCEPT ![a].job = NoJob]
  /\ task' = IF a \in Workers THEN [task EXCEPT ![actor[a].job] = "gone"] ELSE task

Done(a) ==
  /\ actor' = [actor EXCEPT ![a] = Idle]
  /\ task' = IF a \in Workers THEN [task EXCEPT ![actor[a].job] = "gone"] ELSE task

(* Mutant: the settled flag is written without having been compared.        *)
MarkSettledUnguarded(a) ==
  /\ actor[a].pc = "settle"
  /\ job' = [job EXCEPT ![actor[a].job] = [@ EXCEPT !.settled = TRUE, !.leased = FALSE,
                                                    !.added = actor[a].charge]]
  /\ To(a, "refund")
  /\ UNCHANGED <<api, lock, used, task, google, crashes, closings>>

(* Mutant: settlement releases the lock and forgets the refund.             *)
MarkSettledSkipRefund(a) ==
  /\ actor[a].pc = "settle"
  /\ ~JobOf(a).settled
  /\ job' = [job EXCEPT ![actor[a].job] = [@ EXCEPT !.settled = TRUE, !.leased = FALSE,
                                                    !.added = actor[a].charge]]
  /\ To(a, "unlock")
  /\ UNCHANGED <<api, lock, used, task, google, crashes, closings>>

(* JobRepository.mark_settled: settled flips once, and only this call goes on. *)
MarkSettled(a) ==
  /\ actor[a].pc = "settle"
  /\ ~JobOf(a).settled
  /\ job' = [job EXCEPT ![actor[a].job] = [@ EXCEPT !.settled = TRUE, !.leased = FALSE,
                                                    !.added = actor[a].charge]]
  /\ To(a, "refund")
  /\ UNCHANGED <<api, lock, used, task, google, crashes, closings>>

AlreadySettled(a) ==
  /\ actor[a].pc = "settle"
  /\ JobOf(a).settled
  /\ Done(a)
  /\ UNCHANGED <<api, job, lock, used, google, crashes, closings>>

Refund(a) ==
  /\ actor[a].pc = "refund"
  /\ used' = Minus(used, Minus(JobOf(a).reserved, actor[a].charge))
  /\ closings' = [closings EXCEPT ![actor[a].job] = @ + 1]
  /\ To(a, "unlock")
  /\ UNCHANGED <<api, job, lock, task, google, crashes>>

(* An error of the refund is only logged; settle() goes on to the lock.    *)
RefundRaises(a) ==
  /\ "refund" \in Faults
  /\ actor[a].pc = "refund"
  /\ To(a, "unlock")
  /\ UNCHANGED <<api, job, lock, used, task, google, crashes, closings>>

Unlock(a) ==
  /\ actor[a].pc = "unlock"
  /\ ReleaseLock(actor[a].job)
  /\ Done(a)
  /\ UNCHANGED <<api, job, used, google, crashes, closings>>

-----------------------------------------------------------------------------
(* reconcile_stale_jobs()                                                  *)

(* Mutant: the sweep passes over jobs that reached their last status.       *)
SnapshotRunningOnly(r, j) ==
  /\ actor[r].pc = "idle"
  /\ Exists(j) /\ ~job[j].settled /\ job[j].beat = "silent"
  /\ job[j].status \notin Terminal
  /\ actor' = [actor EXCEPT ![r] = [Idle EXCEPT !.pc = "stale", !.job = j,
                                     !.open = TRUE, !.charge = job[j].added]]
  /\ UNCHANGED <<api, job, lock, used, task, google, crashes, closings>>

(* The sweep reads every unsettled job once and works through what it read; *)
(* the document may have moved on by the time the job's turn comes.        *)
Snapshot(r, j) ==
  /\ actor[r].pc = "idle"
  /\ Exists(j) /\ ~job[j].settled /\ job[j].beat = "silent"
  /\ actor' = [actor EXCEPT ![r] = [Idle EXCEPT !.pc = "stale", !.job = j,
                                     !.open = job[j].status \notin Terminal,
                                     !.charge = job[j].added]]
  /\ UNCHANGED <<api, job, lock, used, task, google, crashes, closings>>

FailStale(r) ==
  /\ actor[r].pc = "stale"
  /\ job' = IF actor[r].open THEN [job EXCEPT ![actor[r].job].status = "FAILED"] ELSE job
  /\ To(r, "settle")
  /\ UNCHANGED <<api, lock, used, task, google, crashes, closings>>

-----------------------------------------------------------------------------
(* Time and process deaths.                                                *)

(* Beats are 20 s apart and a settlement follows the last one at once, so   *)
(* only a stalled worker lets a lease or a lock run out.                    *)
Unattended(j) ==
  \/ "stall" \in Faults
  \/ \A w \in Workers : actor[w].job = j => actor[w].pc \notin Provisioning \cup Settling

(* 3 * job_heartbeat_seconds without a beat.                               *)
Lapse(j) ==
  /\ Exists(j) /\ job[j].beat = "live" /\ Unattended(j)
  /\ job' = [job EXCEPT ![j].beat = "lapsed"]
  /\ UNCHANGED <<api, lock, used, task, google, actor, crashes, closings>>

(* job_stale_after_seconds without a beat; a beat also renews the lock, whose *)
(* 15 minutes are over by then.                                            *)
GoSilent(j) ==
  /\ job[j].beat = "lapsed" /\ Unattended(j) /\ ~HoldsLiveLock(j)
  /\ job' = [job EXCEPT ![j].beat = "silent"]
  /\ UNCHANGED <<api, lock, used, task, google, actor, crashes, closings>>

(* PROVISION_LOCK_SECONDS without a renewal.  Without "late" a lock expires *)
(* only when nobody is left who would release it.                          *)
LockExpires(d) ==
  /\ lock[d].live
  /\ LET j == lock[d].token
     IN /\ Unattended(j)
        /\ api[j].pc \notin InAccept \/ "stall" \in Faults
        /\ ("late" \in Faults) \/ ~Exists(j) \/ job[j].settled
  /\ lock' = [lock EXCEPT ![d].live = FALSE]
  /\ UNCHANGED <<api, job, used, task, google, actor, crashes, closings>>

(* One instance dies: the request it was accepting ...                     *)
CrashApi(j) ==
  /\ Durable /\ crashes < MaxCrashes
  /\ api[j].pc \in InAccept
  /\ ApiTo(j, "dead")
  /\ crashes' = crashes + 1
  /\ UNCHANGED <<job, lock, used, task, google, actor, closings>>

(* ... or the job or sweep it was running.  The task is delivered again.   *)
CrashActor(a) ==
  /\ Durable /\ crashes < MaxCrashes
  /\ actor[a].pc # "idle"
  /\ actor' = [actor EXCEPT ![a] = Idle]
  /\ crashes' = crashes + 1
  /\ UNCHANGED <<api, job, lock, used, task, google, closings>>

(* With the in-memory pool the one process takes everything with it.       *)
CrashServer ==
  /\ ~Durable /\ crashes < MaxCrashes
  /\ api' = [j \in Jobs |-> IF api[j].pc \in InAccept
                             THEN [api[j] EXCEPT !.pc = "dead"] ELSE api[j]]
  /\ task' = [j \in Jobs |-> IF task[j] = "queued" THEN "gone" ELSE task[j]]
  /\ actor' = [a \in Actors |-> Idle]
  /\ crashes' = crashes + 1
  /\ UNCHANGED <<job, lock, used, google, closings>>

-----------------------------------------------------------------------------
Work(w) ==
  \/ Claim(w) \/ ClaimRefused(w)
  \/ EnsureCustomer(w) \/ ListSeats(w) \/ RecordBase(w)
  \/ CreateSubscription(w) \/ ScaleSeats(w) \/ NoteAdded(w) \/ Complete(w)
  \/ StepRaises(w) \/ MarkFailed(w) \/ ReadCharge(w)

Settle(a) ==
  MarkSettled(a) \/ AlreadySettled(a) \/ Refund(a) \/ RefundRaises(a) \/ Unlock(a)

Time ==
  \/ \E j \in Jobs : Lapse(j) \/ GoSilent(j)
  \/ \E d \in Domains : LockExpires(d)

Crash ==
  \/ \E j \in Jobs : CrashApi(j)
  \/ \E a \in Actors : CrashActor(a)
  \/ CrashServer

Next ==
  \/ \E j \in Jobs : Accept(j)
  \/ \E w \in Workers, j \in Jobs : Deliver(w, j)
  \/ \E w \in Workers : Work(w) \/ Beat(w)
  \/ \E r \in Reconcilers, j \in Jobs : Snapshot(r, j)
  \/ \E r \in Reconcilers : FailStale(r)
  \/ \E a \in Actors : Settle(a)
  \/ Time
  \/ Crash

Spec == Init /\ [][Next]_vars
=============================================================================
