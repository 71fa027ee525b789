# A TLA+ model of the reseller provisioning service

The program under `src/app` sells Google Workspace licences through partners
("resellers"). A partner asks for a domain with a number of seats; the service
reserves the seats on the partner's quota, provisions the domain at Google in
the background, and charges the partner what Google really added. Several
server processes, worker threads and background sweeps do this at the same
time over one document store. This directory holds TLA+ models of that core,
the TLC configurations that check them, and proofs.

All source references are to files under `src/`.

## 1. Inventory

| Component | State it keeps | Operations | Talks to | What is hard |
|---|---|---|---|---|
| Intake, `app/services/provisioning_intake.py` | none of its own | `accept`, `accept_bulk`, `run_job`, `settle`, `reconcile_stale_jobs`, `batch_status` | locks, quota, plan counter, idempotency, jobs, queue, provisioning | each step is a separate store access; any may fail or be the last before a crash |
| Job documents, `app/repositories/job_repository.py` | status, lease owner, heartbeat, `settled`, `seats_before`, `licences_added` | `create_job`, `claim`, `heartbeat`, `mark_settled`, `update_job_status` | store | two workers and sweeps on one job; heartbeats do not look at the owner |
| Domain locks, `app/repositories/coordination_repository.py` | token, expiry per domain | `acquire`, `renew`, `release`, `holder` | store | expiry while the holder still runs; release by somebody who lost it |
| Idempotency keys and plan counter, same file | key to job id; last slot | `claim`, `forget`, `reserve` | store, group commit | a key claimed for a request that is then refused |
| Quota counter, `app/repositories/reseller_repository.py` | `licences_used`, cap | `adjust_licences_used`, `increment_licences_used` | group commit | parallel reservations, cuts and refunds |
| Group commit, `app/repositories/batching.py` | one queue per server and document | `update_document`, `_drain`, `_process`, `_save_batch` | store | leader hand-over, lost races, lost answers, callers that stop waiting |
| Queue, `app/core/job_executor.py`, `job_dispatcher.py`, `app/api/routes/internal_tasks.py` | pool, or Cloud Tasks | `dispatch`, `run` | `run_job` | redelivery; loss of the in-memory queue; a hand-over that fails after it worked |
| Reconciler, `app/core/reconciler.py` | lease of the sweep | `run_once`, periodic thread | intake | acts on a list that was read once |
| Provisioning, `app/services/provisioning_service.py` | steps and figures on the job | `provision_company`, seat batching, `check_admin`, `repair_admin` | Google, jobs, companies | several Google calls, each may have worked although it raised |
| Domain actions, `app/services/domain_service.py` | none | add/remove licences, delete, suspend, activate, transfer | locks, quota, Google | a lock of three minutes that is never renewed; refund after partial success |
| Admin step and repair, `app/services/provisioning_service.py`, `app/api/routes/admin.py` | `admin_created`, `admin_fix_attempts`, employee rows, `_repairs_running` | `_provision_single_user`, `repair_admin`, `fix_admin`, `mark_admin_handled` | Directory, e-mail | Google is late to show users and rights; two operators at once |
| Legacy route, `app/api/routes/provisioning.py` | job documents | JSON and CSV provisioning | jobs | look-up and creation in two steps; no lock, no quota |
| Google and mock adapters, `app/adapters` | the mock keeps subscriptions | subscriptions, seats, users | | absolute seat figures; retries |
| Stores, `app/repositories/firestore_client.py` | documents and versions | `get_versioned`, `set_if_version`, `delete_if_version` | | lost answers; versions that start again after a deletion |
| Accounts, authentication, reports, pages | partners, admins, tokens | | | little concurrency |

What makes each of them correct:

* **Intake, jobs, quota**: a reservation is given back once; when all is at
  rest, the counter holds what Google gained and what deaths left behind, and
  nothing else; what Google has sold never exceeds what is counted; the charge
  is what the domain gained, also after a crash and a takeover; every job is
  settled in the end.
* **Locks and leases**: one operation per domain; a live lock is not taken away;
  a second worker joins only after the first one's lease has lapsed.
* **Group commit**: each update behaves as if it had run alone and at once;
  every update is finished; an error means no effect.
* **Idempotency and plan slots**: one key makes the jobs of one request; it is
  spent only on a result; slots are handed out once each, in order.
* **Domain actions**: the counter, our records, the audit log and Google agree
  once all is answered; what was transferred stays transferred.
* **Admin step**: a domain counts as having an admin only if Google has one, or
  an employee row says so; a repair reports only what it has read back; one
  repair per server.

`PROJECT.json` lists every component with its status, and under "hazards" the
places where this code can go wrong in ways a test hardly reaches.

## 2. Modules

| Module | What it is |
|---|---|
| `JobLifecycle`, `JobProperties` | requests, jobs, locks, quota, queue, workers and sweeps; their properties and fairness |
| `SeatLedger` | abstract specification: accounts on a partner's counter, implemented by `JobLifecycle` |
| `GroupCommit` | the group commit of hot documents, with its properties |
| `AtomicDocument` | abstract specification: a document that changes in one instant, implemented by `GroupCommit` |
| `DomainLock` | the domain lock, one store call at a time |
| `LeaseLock` | abstract specification: a lock with one owner and a lease, implemented by `DomainLock` |
| `DomainActions`, `DomainProperties` | licence changes, suspension, activation and transfer of a domain |
| `Intake`, `IntakeProperties` | repeated, bulk and legacy requests, idempotency keys, plan slots, batches |
| `AdminStep`, `AdminProperties` | the admin user: workflow step, mail and repair |
| `JobSafetyProofs`, `JobLedgerProofs` | theorems about `JobLifecycle`: first locks, leases and refunds, then the books, the charges and the refinement of `SeatLedger` |
| `LockProofs`, `GroupProofs`, `DomainProofs`, `IntakeProofs`, `AdminProofs` | theorems about the module of that name (`LockProofs`: `DomainLock`) |
| `Sums` | lemmas about sums over finite sets, and the induction they rest on |
| `MCJobLifecycle`, `MCGroupCommit`, `MCDomainLock`, `MCDomainActions`, `MCIntake`, `MCAdminStep` | the instances for TLC |

How they fit together. Each component has a module in which it is modelled
access by access, and is atomic in the others. `DomainLock` justifies the
atomic locks of `JobLifecycle`, `Intake` and `DomainActions` by implementing
`LeaseLock`; `GroupCommit` justifies their atomic counter by implementing
`AtomicDocument`, and says how far it does not (section 3, violations). `Intake`
is the request side in breadth (keys, slots, bulk, legacy) with the life of a
job reduced to its two ends; `JobLifecycle` is the life of a job in depth, with
the request side reduced to one keyless request per job. `AdminStep` is the
part of the workflow that `JobLifecycle` passes over, for one job.

Definitions called "Mutant" in their comment are not part of the model. Each is
a plausible mistake in the definition that follows it; replacing that
definition by it makes a property fail, which shows that the property looks at
the code.

### 2.1 JobLifecycle

One partner, a set of requests with one job id each.

| Variable | Code |
|---|---|
| `api[j]` | where `accept()` of request j is; `seats` is its local `seats`, what it still holds |
| `job[j]` | the job document: `status`, `settled`, `leased` (a `lease_owner` is set), `beat` (age of `heartbeat_at`), `recorded`/`before` (`seats_before`), `added` (`licences_added`), `reserved` (`licences_reserved`) |
| `lock[d]` | the lock document of a domain; the token is the job whose `accept()` took it |
| `used` | `licences_used` |
| `task[j]` | the entry of the job in Cloud Tasks or in the pool |
| `google[d]` | seats of the domain's subscription, 0 for none |
| `actor[a]` | program counter and locals of a worker (`run_job`) or a sweep |
| `crashes`, `closings[j]` | process deaths so far (bounded by `MaxCrashes`); how often j's reservation was given back (history) |

Actions are named after what the code does at that step and are grouped as
`Accept(j)`, `Work(w)`, `Settle(a)`, `Time` and `Crash`; every action is one
store access or one Google call with the local computation around it, so that
all interleavings of other actors between two accesses are there.

Abstractions, and why they are sound for the properties:

* Times become what the code compares them with. A heartbeat is live, lapsed
  (older than three periods) or silent (older than `job_stale_after_seconds`).
  Lease and heartbeat periods are in proportion by configuration; the model
  lets a lease run out while a worker is alive only with the fault `"stall"`,
  and a lock run out while its job waits only with `"late"`.
* Statuses between `PENDING` and `SUBSCRIPTION_CREATED` are one value,
  `RUNNING`; nothing decides on the difference.
* A compare-and-swap loop of a repository is one atomic action. What such a
  loop guarantees under lost answers is the subject of `GroupCommit` and
  `DomainLock`.
* The plan slot may be either kind; the counter behind it is in `Intake`.
* Sweeps may overlap and take jobs in any order. The lease of `run_once` is
  left out: it may run out during a long sweep, and the `/reconcile` route does
  not take it.
* The mock adapter answers an existing subscription with an error that leads to
  its seats being adopted, the real one with a 409 that fails the step:
  `CreateSubscription` has both.
* `accept()` undoes its steps only after the errors it expects; any other error
  of the store leaves lock and reservation where they are (`AcceptEscapes`).
* An error of the refund in `settle()` is logged and the lock released
  (`RefundRaises`). Other store errors in `settle()` and in the error paths are
  left out; they end the thread where it is, as a process death does.

`Forsaken` names the reservations that nobody will give back: of a job whose
`settled` flag is up while the thread that raised it is gone, and of a request
whose `accept()` ended before the job had its document.

### 2.2 GroupCommit

Callers on several servers, one document. `queue[s]` is `_Queue`, `item[c]`
and `told[c]` are `_Item`, `thread[c]` is the thread that leads for c and
later the drain thread it started, `answer[c]` is what `update_document`
returned or raised. `effects[c]` counts how often c's update was saved.
`setting` holds what does not change in a behaviour: the argument `missing`
and whether the connection to the store loses answers. The document is a
partner's record with the two fields that the update reads (`Account`). The
update is `adjust_licences_used`: a change of the counter, never below zero,
refused beyond the cap. An operator edits the same document meanwhile with
`BaseStore.update` (`UpdateReseller` gives another cap, `DeactivateReseller`
sets fields the update does not look at): such a write reads nothing, asks for
no version and moves it on, so that a group commit that has read before it has
to read again. A partner's record is never created from `missing`, so edits
are of documents with `missing = None`.

A step is what happens under one hold of the queue's lock, or one access of
the store. The loop over the batch is a fold over a copy; it is local to the
thread and belongs to the read or the write next to it. A death of a server is
left out: its callers and its queue are gone with it, and the document is as
after a write that did or did not happen.

`AtomicDocument` says what callers rely on: their update takes effect at one
instant, on the value of that instant, hence under the cap that is in force at
it. A batch maps to one step in which several updates take effect in the order
of the batch; an operator's edit is a step of its own. If the connection loses
answers, the abstract document may take an update and leave it pending, which
is exactly how far the promise is weakened.

### 2.3 DomainLock and LeaseLock

`doc` is the lock document (token, version, whether `expires_at` is over),
`clock` the store's source of versions. A client is one `acquire` to come: a
job, whose heartbeat thread renews the lock (`beat`, `read`), or a domain
action. `acquire` is four actions, because the code makes up to four calls:
create (`Create`), read (`Look`), create again (`Again`), take over
(`TakeOver`). `Stop` signals the heartbeat thread and does not wait for it, as
`run_job` does not join it. `cause[c]` is a history variable for one clause of
the abstract lock: a client is refused only for a cause.

The store comes in two kinds. With `Unique` every version is new, as with
Firestore's update times. Without it, as in `InMemoryStore`, a document that is
deleted and created again starts at version 1; then a renewal or a release that
has read version 1 of the old lock matches the new one. TLC finds that with
`Unique = FALSE`; the in-memory store is for development, so run and theorems
are about the other. One deviation is part of the promise: when the answer to a
write is lost, `acquire()` may answer None although it has got the lock
(`GrantUnseen`), which then stays until its lease lapses.

### 2.4 DomainActions

`call[r]` is what request r asks for, `pc[r]` and `local[r]` its thread.
`google[s]` is a subscription as Google has it, with its suspension reasons;
`company[d]` and `record[d]` are our documents, `audit` the audit log,
`used` the partner's counter, `lock[d]` the domain lock. The actions follow
`DomainService` from the lock to the audit entry: `Acquire`, `OwnedCompany`,
`ListOne` or `ListAll`, `Reserve`, a call at Google with its outcomes
(`CallWorks`, `CallRejected`, `CallFails`, `CallLost`), then one action per
write (`Account`, `UpdateCompany`, `UpdateRecord`, `Audit`). A Google call is
repeated as `call_with_retry` does, from the first call of a batch.

With the fault `"store"` each of these writes has its own way to fail. A refused
write of the company or the record is logged and the action goes on
(`firestore_client.py:338`); a write that raises ends the action where it is,
done or not, with the domain unlocked and no audit entry (`UpdateCompany`,
`UpdateRecord`; the counter after a deletion at `domain_service.py:212`); an
audit entry that cannot be written is swallowed and the action answered `ok`
(`domain_service.py:392-393`). Two history variables name what is lost:
`missing` the entries that the log never got, `unsaved` the requests of which a
document was not written. `local[r].left` is what an increase had bought when it
gave up: the refund returns the whole difference (`domain_service.py:167-177`),
so that much is held and not counted. `local[r].lost` says that r ended without
knowing what its last call did.

`PlanBreakdown` and `NetChange` are the sums of the plan statistics and of the
licence usage report, over the records and audit entries of the model.

### 2.5 Intake

A call has a thread (`pc[c]`), the items of a bulk call have one each
(`item[x]`), as in `accept_bulk`. `keys`, `counter`, `lock`, `used`, `job` and
`batch` are the documents. An item goes through `AcquireLock`, `Reserve`,
`TakeSlot`, `Cut`, `Create` and `Dispatch`, and back through `Undo`, `Unlock`
and `Forget` when it is refused. That way back is taken for the errors that the
code expects (a contended counter or lock, a full quota). An error of the store
that it does not expect goes through `accept()` as it is and leaves the lock,
the reservation and the key behind: `ClaimRaises`, `Escapes`, `BlockRaises`,
`RespondRaises`. A claim whose answer is lost is repeated by the HTTP layer and
meets its own record (`ClaimLost`): the call is told that it replays a job that
nobody will create. The legacy routes (`LegacyKey`,
`LegacyActive`, `LegacyCreate`) share the job documents and nothing else.
`JobStarts` and `JobEnds` stand for a run and its settlement: `JobEnds` charges
any figure from 0 to the reservation, completed, partial or failed, refunds the
rest, and may die or fail at the refund or at the unlock (`left`).

### 2.6 AdminStep

One job's admin user. A behaviour starts from one of `Starts`: a new job of a
domain that was there before may find the employee rows of an earlier job, its
user with or without the right, or the customer's own admin; an old job may
already stand for repair (`MayStart` says what is possible). Workers are the
attempts at the job, one after the other;
fixes and marks are clicks of operators on the dashboard, served by one or
several servers. `user` is the user at Google: `seen` when makeAdmin finds it,
`shown` when reading it back says that it is an admin; `Propagates` lets Google
catch up, or never. Attempts and repairs share `Look`, `Create` and
`MakeAdmin`. `rows` are the employee rows of the address, `doc` the job's
fields with the history `byRow` (the last report rests on a PROVISIONED row),
`mail` whether the last mail had the block of credentials or the one of an
intended password, `running[s]` is `_repairs_running` in the memory of server s.
With the fault `"store"` a read or a write of the store fails where the code has
one: a row, the report (refused and only logged), a repair's last write, an
operator's mark, an audit entry, the reads before the mail. Left out are a
connection error at the job's own status writes, which fails the job and starts
nothing new here, and whatever takes a user or his right away.

## 3. Runs

The instances are small, and chosen so that each interesting case occurs.
Competition for a lock, a counter or a guard needs two actors on one thing and
a third on another; locks, leases and documents are per domain or per job, and
conflicts over them are between pairs, so that one more of a kind adds no new
relation. A mishap is a step that fails, an answer that is lost, or a death;
two in one behaviour, as in `domain_actions` and the job runs, give the cases in
which a failure meets the clean-up of another one. `intake` and `admin_step`
have one, because each has many kinds of mishap and an error there already
meets the undoing of a refusal; what two of them do is left to the theorems,
which have no bound on mishaps.

| Run | Instance | Shows |
|---|---|---|
| `jobs_contention` | 3 requests, 2 domains, 2 workers, cap 6, any step may raise before Google has sold | `TypeOK`, `GoogleWithinQuota`, `OneOperationPerDomain`, `ChargeIsFinal`, `ImplementsLedger` |
| `jobs_takeover` | 2 requests, 2 workers, batch 1 (three calls for three seats), 2 process deaths anywhere, also between the settled flag and the refund, redelivery | `ResumeChargesExactly`, `SeatsComeBack`, `TakeoverOnlyAfterLapse` |
| `jobs_recovery` | 2 requests for one domain, 1 worker that may stall, 2 sweeps, late jobs, refunds that raise | `NeverRefundedTwice`, `LockNotStolen` |
| `jobs_liveness` | in-memory queue, a server death, hand-overs that raise, 1 sweep | `EveryJobSettles` |
| `commit_group` | 3 updates, 2 servers, 2 attempts, document there or missing, 1 edit by an operator who may cut the cap, all faults | `TypeOK`, `OneDrainerPerServer`, `ImplementsAtomicDocument`, `EveryUpdateFinished` |
| `locks` | 2 jobs with heartbeats and 1 action on one lock, lost answers, deaths, lapses at any moment | `TypeOK`, `ImplementsLeaseLock`, `ReleasedForGood` |
| `domain_actions` | 3 requests of any kind on 2 domains with 3 subscriptions, cap 7, batch 1, 2 tries, 2 mishaps, of which any may be a write that is refused, raised or swallowed | `TypeOK`, `OneActionPerDomain`, `SoldIsCounted`, `BooksBalance`, `ReportMatchesCounter`, `RecordFollowsGoogle`, `TransferIsFinal`, `EveryActionAnswered` |
| `intake` | 3 calls in 6 mixtures of repeated, changed, bulk, legacy and CSV requests, cap 2, commitments cut to 1 seat, every second slot a commitment, 1 mishap of any kind, jobs charged at any figure | `TypeOK`, `OneJobPerKey`, `KeysAreSpentOnResults`, `SlotsPartition`, `NothingElseLeaks`, `LocksFollowJobs`, `AllIsReturned` |
| `admin_step` | 2 attempts, 2 fixes, 1 mark, 1 or 2 servers, 2 tries each, 1 mishap, either directory adapter, 5 starts with and without an earlier job | `TypeOK`, `FlagIsEarned`, `FixIsReadBack`, `OneRepairPerServer`, `CredentialsNameAUser`, `RepairNeverRelists`, `RepairsEnd` |

Three runs end in a counterexample, because the code differs from what its
comments promise:

| Run | Property | Behaviour |
|---|---|---|
| `jobs_swept_after_crash` | `SettledAtGooglesFigure` | a death after Google has sold seats and before `licences_added` is written; the sweep charges 0 |
| `commit_lost_answer` | `AppliedAtMostOnce` | the HTTP layer repeats a write that was saved, its precondition fails, and the batch is applied again |
| `commit_timeout` | `ErrorMeansNotApplied` | a caller gives up and reports that nothing was created; its queued update is saved afterwards |

These are reported under "findings" with the line and the quotation.

**Bounds.** `MaxCrashes` and `MaxMishaps` limit what goes wrong, `MaxVersion`
the renewals of a lock, `MaxItems` the length of a bulk call, `MaxEdits` the
edits of a hot document by an operator (one is enough to overtake a write, and
a second one finds nothing else); `MaxAttempts`,
`Attempts`, `MakeTries` and `ConfirmTries` are limits that the code has itself,
with smaller values (a retry loop has a first, a middle and a last try; two
tries have the first and the last, and the middle differs from neither).
Every other counter is bounded by the requests. Deadlock is not checked,
because all requests come to an end and the system then stops. Workers are
interchangeable, and so are sweeps: the three safety runs of the job life cycle
use that symmetry, the runs with liveness do not.

**Cases that are kept out of the passing runs.** Each is a hazard in
`PROJECT.json`; the property holds as long as the case does not happen, and
that is a hypothesis of the theorem about it.

| Case | What it does |
|---|---|
| the hand-over to the queue raises after `create_job` (fault `"dispatch"`) | `accept()` refunds, the document stays unsettled, a worker or the sweep refunds again: `NeverRefundedTwice` fails |
| the refund after the `settled` flag raises (`"refund"`), or an unexpected error ends `accept()` (`"error"`) | the reservation is lost without a death: `OneLossPerDeath` fails. Process deaths there are in the run |
| a job waits in the queue longer than its lock lives (`"late"`) | it starts without looking: `OneOperationPerDomain` fails |
| a worker lives on without a heartbeat (`"stall"`) | two workers buy seats for one job, and the one that fails may settle it at 0: `ResumeChargesExactly`, `GoogleWithinQuota` fail |
| a Google call of a job works although it raises | as the previous row |
| a domain action takes longer than its three minutes (`"late"`) | the lock is not renewed: `OneActionPerDomain` and `TransferIsFinal` fail |
| versions that start again (`Unique = FALSE`) | a late renewal or release acts on somebody else's lock: `ImplementsLeaseLock` fails |

**Behaviours the passing properties allow for.** They are in the models, and
the properties name them instead of excluding them.

* Jobs: a death between the `settled` flag and the refund loses the rest of the
  reservation, although `settle()` says of the refund that it "happens exactly
  once" (`provisioning_intake.py:279-281`). `SeatsComeBack` says how much: one
  reservation for each death, and nothing else.
* Intake: a server that dies between a reservation and the job document, an
  error that `accept()` does not expect, or a refund that raises, leaves seats
  counted and the key spent; so does a claim that meets its own record, for the
  key (`NothingElseLeaks`, `KeysAreSpentOnResults` and `LocksFollowJobs` name
  each of these). A request that replays a single call's key before its job
  exists is answered with that id all the same
  (`coordination_repository.py:95`); a bulk replay then finds no batch. Items of
  a bulk call that are refused after the block of slots was reserved use their
  slots up, so that fewer than every n-th accepted item may be a commitment (the
  comment at `provisioning_intake.py:170` says why single requests avoid it).
* Legacy route: the look-up of the key and the creation are two steps, and a
  failed query reads as "nothing there", so two runs for one domain can start; a
  crash leaves an active job that blocks the domain there.
* Domain actions: an entry that the audit log never got is missing from the
  usage report (`Unlisted` in `ReportMatchesCounter`), and a refused write of a
  company or a record leaves it behind Google although the answer is `ok`
  (`AllSeen` in `RecordFollowsGoogle`). The refund after a partial increase
  (`left` above); a release of quota that raises after a transfer leaves the
  company ACTIVE (`RecordFollowsGoogle` looks only at domains whose outcome was
  seen, and such an outcome counts as lost); a transfer whose answer was lost is
  never completed, its licences stay counted.
* Admin: the comment at `provisioning_service.py:244` calls `admin_created`
  "whether the admin really exists with admin rights". The PROVISIONED row is
  written before makeAdmin (684, 702), and whoever finds it reports success
  (629-635): an attempt that resumes after a death, or a second job of the
  domain after one whose makeAdmin was refused. So the flag may stand for a user
  who is no admin; the mock adapter's duplicate counts as one, too.
  `FlagIsEarned` names these two cases and shows that there is no other. The
  mail for a job without an admin states the standard password as the "Intended
  Password" also where no user was created (799-812); what
  `CredentialsNameAUser` promises is about the other block. An attempt's result
  may overwrite the flag a repair has just set (`RepairNeverRelists` excepts the
  report of the job itself); two servers may count the attempts up from the same
  value, which loses one.

**Fairness.** Weak fairness of a thread's next step everywhere: threads of a
running process are scheduled. In addition: `jobs_liveness` assumes delivery
(the pool runs what it is given), the sweep (`reconcile_interval_seconds`) and
time passing for leases, heartbeats and locks; `domain_actions` and `intake`
that locks expire, and `intake` that jobs end (which is what `EveryJobSettles`
says of them); `admin_step` that an interrupted job is started again. It is
never assumed that a process survives, that a step succeeds, that Google shows
a user, or that an operator clicks. Attempts are bounded by the code, so that
no stronger fairness is needed for a server that keeps losing races. `locks`
and the other job runs check safety only.

## 4. Proofs

`ConstantsAssumption` of each module types its constants and keeps the sets of
names apart. Where a counter is summed, the set it is summed over is finite
(`Jobs`, `Subs`, the calls and items of the intake): the sums mean nothing
otherwise, and requests are finitely many at any time. Nothing else is assumed
but what the statement says. Requests, domains, workers, sweeps, servers and
clicks are otherwise arbitrary sets, and caps, batch sizes, seats and tries
arbitrary numbers.

| Module | Theorem | Statement |
|---|---|---|
| `JobSafetyProofs` | `TypeCorrect` | `Spec => []TypeOK` |
| | `RefundedOnce` | if the hand-over cannot raise, `Spec => []NeverRefundedTwice`, with any crashes, stalls, lost answers and sweeps |
| | `DeathsCostOneEach` | with a durable queue and no step that raises (`"error"`, `"refund"`), `Spec => []OneLossPerDeath`, with any deaths, stalls, takeovers and sweeps |
| | `LeaseProtectsRunner` | `Spec => TakeoverOnlyAfterLapse` |
| | `LockIsOwned` | `Spec => LockNotStolen` |
| | `DomainHasOneJob` | *calm*: `Spec => []OneOperationPerDomain`, with any crashes and takeovers |
| `JobLedgerProofs` | `LedgerIsImplemented` | *calm*: `Spec => ImplementsLedger` |
| | `ResumedJobsChargedExactly` | *calm*: `Spec => []ResumeChargesExactly` |
| | `ChargesAreFinal` | *calm*: `Spec => ChargeIsFinal` |
| | `SettledJobsAreCandid` | *calm and candid*: `Spec => []SettledAtGooglesFigure` |
| | `BooksBalanceAtRest` | *calm and candid*, with one request for each domain: `Spec => []BooksAtRest`, also where refunds raise |
| | `DeathsLoseOneEach` | with a durable queue, deaths for the only fault and one request for each domain: `Spec => []SeatsComeBack` |
| | `SalesWithinQuota` | *calm and candid*: `Spec => []GoogleWithinQuota` |
| `LockProofs` | `TypeCorrect` | `Spec => []TypeOK` |
| | `LockIsALease` | with `Unique`, `Spec => ImplementsLeaseLock` |
| | `ReleaseIsFinal` | with `Unique`, `Spec => ReleasedForGood` |
| `GroupProofs` | `TypeCorrect` | `Spec => []TypeOK` |
| | `OneDrainer` | `Spec => []OneDrainerPerServer` |
| | `DocumentIsAtomic` | `Spec => ImplementsAtomicDocument` |
| | `UpdatesAreSavedOnce` | if no answer of the store is lost, `Spec => []AppliedAtMostOnce` |
| | `ErrorsChangeNothing` | if moreover nobody stops waiting, `Spec => []ErrorMeansNotApplied` |
| `DomainProofs` | `TypeCorrect` | `Spec => []TypeOK` |
| | `DomainLockExcludes` | *on time*: `Spec => []OneActionPerDomain` |
| | `TransferCannotBeUndone` | *on time*: `Spec => TransferIsFinal` |
| | `SeatsAreCounted` | *on time*: `Spec => []SoldIsCounted` |
| | `CounterIsExact` | *on time*: `Spec => []BooksBalance` |
| | `ReportIsExact` | *on time*: `Spec => []ReportMatchesCounter` |
| | `DocumentsFollow` | *on time*, where each domain has a subscription and our document names one of its own: `Spec => []RecordFollowsGoogle` |
| `IntakeProofs` | `TypeCorrect` | `Spec => []TypeOK` |
| | `KeyMakesJobsOnce` | `Spec => []OneJobPerKey` |
| | `LocksAreAccountedFor` | `Spec => []LocksFollowJobs` |
| | `BooksAreExact` | `Spec => []NothingElseLeaks` |
| | `KeysNameResults` | `Spec => []KeysAreSpentOnResults` |
| | `SlotsAreExact` | `Spec => []SlotsPartition` |
| `AdminProofs` | `AdminTypeCorrect` | `Spec => []TypeOK` |
| | `RepairsExclude` | `Spec => []OneRepairPerServer` |
| | `FixesAreSeen` | `Spec => []FixIsReadBack` |
| | `FlagsAreEarned` | `Spec => []FlagIsEarned` |
| | `CredentialsAreOfUsers` | `Spec => []CredentialsNameAUser` |
| | `RepairsNeverRelist` | `Spec => RepairNeverRelists` |

The hypotheses, all on constants, are needed; the table of cases above says what
happens without them.

* *Calm*: `Faults` has no `"late"`, `"stall"` or `"dispatch"`. Jobs start and
  workers beat within their periods, and the hand-over does not raise after the
  job was created. Process deaths, takeovers, redelivery, lost races and errors
  of every step remain, in any number.
* *Candid*: no attempt fails between a sale and the note of it. Calls of Google
  do not work half (`"halfDone"`), and there are either no process deaths or no
  errors: a job that resumes after a death may still fail, and its refund then
  forgets the seats that Google sold before. Without this hypothesis the
  conclusion is what `jobs_swept_after_crash` refutes, so the theorem says where
  the gap is.
* *On time*: no domain action outlives its lock (`"late"`). Every other mishap
  remains, in any number.
* That a domain of `DomainActions` has a subscription at Google, and that the
  subscription our document names is this domain's, holds for what the workflow
  provisions; for a domain with nothing at Google the actions are refused
  (`domain_service.py:201` and `:318`), and it would read as transferred.

The theorems rest on inductive invariants that are stronger than the
properties; they also hold as invariants of the TLC instances.

**Jobs, locks and leases** (`JobSafetyProofs`). `TypeOK` is inductive, but
connects no thread to its job. `CoreInv` does: a request that has not reached
`create_job` has no document, a thread beyond its claim has a job that exists,
a running worker's job is leased or already settled, and a thread between the
settled flag and its unlock has a settled job. `AcceptStep` and `WorkStep` say
what a group of actions may change at all; `StepKinds` sorts every step of
`Next` into the few "loud" ones, which move the books (`CreateJob`,
`UndoReservation`, `MarkSettled`, `Refund`, `RefundRaises`), and the "quiet"
rest, which is dealt with once.

`NeverRefundedTwice` needs more, since a refund is safe only if nobody has
refunded before. `BooksInv` adds that a job that exists has been closed only if
it is settled, that a thread about to refund belongs to a job not closed yet,
and that there is at most one such thread. The flag in `mark_settled` is
compared and set in one step: that is the whole reason, and the mutant
`MarkSettledUnguarded` breaks it. `OneLossPerDeath` is the other half, that it
is not forgotten: the same sorting of steps shows that only a death puts a job
among the `Forsaken`, and only the one its thread was closing.

`OneOperationPerDomain` speaks of workers only, but the reason is the lock. So
`ExclInv` follows it from request to settlement: the lock of a domain is live
and belongs to the request, from its `acquire` until it is refused or its job
is settled; an unsettled job is never silent, hence never swept; a worker at
work has a live lease, hence a job has one worker. Two workers on one domain
would give its lock two owners. In a calm system the sweep finds nothing, so
these theorems are about takeovers; sweeps are in `RefundedOnce`,
`DeathsCostOneEach` and `LockIsOwned`.

**Jobs, the books** (`JobLedgerProofs`). Four invariants, each on top of the
one before. `AccountsInv`: the counter is the sum of what the accounts hold,
and an account is what its request, its job or the thread about to refund it
says; with it every action is a step of `SeatLedger` or a stutter
(`LedgerIsImplemented`). `SalesInv`: what Google has on a domain lies between
`seats_before` and the reservation, and the figures a worker carries are those
of the document and of Google (`Informed`), because the worker has the domain
to itself (`ExclInv`); this is why a resumed job, which subtracts the first
attempt's `seats_before`, is charged exactly. `BegunInv`: nothing is sold for a
job before its base is on record. `CandidInv`: at every point between two sales
the job says, or its worker is about to write, what the domain gained.
`GoogleWithinQuota` is then a comparison of two sums, term by term; so is
`BooksAtRest`, where the account of a job at rest is what its domain gained or,
if it is forsaken, all it had reserved (`PlacedInv` says so of requests that
ended without a job).

**Lock.** `LockInv` is about what a client or a heartbeat thread knows: a
version it has read is not newer than the clock (`VersionsGrow`); if the
document is still at that version, the lock is still its own, or still lapsed,
as it was when it looked (`ReadersKnow`); and who is on its way to a refusal has
a cause (`LosersHaveCause`). The first two need `Unique`. The refinement maps
each write to `Grant`, `GrantUnseen`, `Renew` or `Free`, and a read to a
stutter.

**Group commit.** The flag of a queue is up exactly while one thread is between
becoming leader and finding the queue empty, and a queue that is not drained is
empty. With the shapes of the records (`Shape`) the property is inductive
itself; the proof sorts the steps by what they do to one thread and one queue
(`Leads`, `Takes`, `Works`, `HandsOver`).

For the types and the refinement, `StoreInv` says that what a thread is about to
replace is the document or an older version of it, so that a write that finds
its version replaces what the batch was applied to; and `WaitInv` that whoever
waits in a queue or is in a batch has been queued on that server, once, and has
been told nothing. That a finished batch takes nobody out of another one needs
both `WaitInv` and `OneDrainerPerServer`. A batch is applied by a fold;
`BatchRuns` unfolds it into the document after each update and the outcome that
goes with it (`Follows`, `OutcomeAt`), and `ValuesFollow` shows that these are
the values of `AtomicDocument`. The steps are then of seven kinds
(`CallerStepDoes`): one that joins maps to `Invoke`, one that finishes a batch
to `Commit` or `Fail`, a save whose answer is lost to `Echo`, an operator's edit
to `Edit`, all others to a stutter. The two promises of `batching.py` that
`commit_lost_answer` and `commit_timeout` refute hold where their causes do not
occur: then an update has been saved once exactly if its item says so
(`EffectsInv`), and a caller is told what its item says (`AnswerInv`).

**Domain actions.** `Owners`: a request inside its locked region owns the lock.
`TransferInv`: Google holds nothing for a domain that is marked transferred; a
transfer has listed all that is held before its call; and no request on such a
domain is still before its write of the status, so that none can write another
one.

The counter and Google disagree while an action is under way, and they may
disagree for ever after some mishaps. The books (`BookKeeping`) name the
difference for every request: what it has reserved and not bought, bought and
not counted, released and not yet taken off, or left behind when it gave up
(`Due`, and `Transit` while it is in a call of several batches). The counter is
then what Google holds plus the sum over the requests, and each of the three
properties is a reading of that sum in the states they speak of. A step of r
changes the terms of r, the counter and the subscriptions of its domain, all
else stays (`StepSums`), which is where the lock is needed.

The documents (`FileInv`) agree with Google on a domain where nobody is at work
and no outcome is unknown (`Settled`). While an action is at work they differ
by exactly what it has done at Google and not written yet (`Filed`, one line
per program counter), and its locals say what it has to write (`Picked`).
`FileStep` goes through the actions once for the domain of the action, and
once for all other domains.

**Intake.** `Calling` and `Working` connect calls, items and documents (a job
exists only if its item went through creation, an item of a call moves only
while the call serves it), `Claims` says that only the call that holds the
record of its key is past the claim, and `LocksFollowJobs` closes the induction
for locks, since a release is by token and harms nobody only if the lock is
where the owner says. The books are the same sum as above, over items and the
jobs they became; the keys (`KeysInv`) name for every record a call that goes
on or came to something (`Spent`); the slots
(`SlotsInv`) say that every number up to the counter has one item, and that the
items of a bulk call are numbered from one base (`Blocked`).

**Admin.** Google forgets nothing and shows nothing that is not so (`UserInv`);
the guard is up exactly while one repair is between guard and release
(`GuardInv`); a repair beyond its read-back has seen the right (`FixInv`);
a PROVISIONED row, whoever wrote it, means that the user exists, and what is
about to be reported as done was earned at Google or rests on such a row
(`EarnInv`). `Effects` first reduces every action to
what it may change.

**Sums.** `SumFunctionOnSet` is a fold, and the induction theorems of the
library take an operator, which the provers cannot instantiate. But a set of
subsets can: `SubsetInduction` says of a set P of subsets of a finite S that it
holds them all if it holds {}, and any other one of which it holds all that lack
one element; it follows from the least-number principle. From it: the fold
unfolds (`SumUnfolds`), does not depend on the order, and what the books need
(removing or changing one term, splitting, comparing, and the sum over an
image).

Only model-checked: liveness (`EveryJobSettles`, `EveryUpdateFinished`,
`EveryActionAnswered`, `AllIsReturned`, `RepairsEnd`), which the prover does
not reach. Every invariant, action property and refinement that a passing run
checks is stated by a theorem, some under the hypotheses above.

## 5. Plan

The modules were written in this order, the most important first: job life
cycle, group commit, domain lock, domain actions, intake, admin step. What
would add most now:

1. The lease of `run_once` with a sweep that outlives it, and Cloud Tasks'
   redelivery in a liveness run.
2. Status writes of the job itself that `FirestoreStore.update` refuses and only
   logs, in `JobLifecycle` (`DomainActions` and `AdminStep` have such writes).

## 6. Not modelled

* **Authentication and tokens, partner administration, web pages,
  configuration, logging, scripts**: no interleaved state, or nothing the core
  does depends on them.
* **Waiting times** of retries, heartbeats and polls: only their number and the
  comparisons they lead to. `call_with_retry`'s circuit of one credential per
  thread is left out.
* **Task authentication and the creation of the pool** around the queue.
* **The lease of the reconciler**: sweeps may overlap in the model, which
  includes what the lease allows and more.
* **`_ensure_subscription` and `_provision_users`**: no caller.
* **Reports**: only the sums of plan statistics and licence usage; dates,
  months and percentages are presentation.
* **Writes that are refused and only logged** (`FirestoreStore.update`) to the
  job document by the workflow; those of `DomainActions` and of the admin step
  are modelled. Likewise reads that fail as "not there", except for those of
  the intake and of the admin step.
* **Notification records**: written and listed, nothing decides on them.

## 7. Running

In this directory, with TLC and the community modules on the path:

    tlc -workers 2 -config jobs_contention.cfg MCJobLifecycle.tla
    tlc -workers 2 -config commit_group.cfg MCGroupCommit.tla
    tlc -workers 2 -config locks.cfg MCDomainLock.tla
    tlc -workers 2 -config domain_actions.cfg MCDomainActions.tla
    tlc -workers 2 -config intake.cfg MCIntake.tla
    tlc -workers 2 -config admin_step.cfg MCAdminStep.tla
    tlapm AdminProofs.tla        # and Sums and the other modules called ...Proofs

`MCJobLifecycle` has five configurations (`jobs_*`), `MCGroupCommit` three
(`commit_*`). The longest runs take two to three minutes on two cores; the proof
modules take from seconds to a few minutes each.
