------------------------------- MODULE Intake -------------------------------
(***************************************************************************)
(* The requests that a partner's systems send, with their retries: single  *)
(* and bulk provisioning with Idempotency-Keys, and the plan counter       *)
(* (ProvisioningIntake.accept, accept_bulk, batch_status), next to the     *)
(* legacy routes, which take no lock and reserve nothing.                  *)
(*                                                                         *)
(* A call has a thread of its own, the items of a bulk call one each.  The *)
(* domain lock and the counters are atomic here; how a job runs and is     *)
(* settled is reduced to its two ends (see JobLifecycle for both).         *)
(***************************************************************************)
EXTENDS Integers, Sequences, FiniteSets

CONSTANTS
  Calls,       \* the HTTP requests of one partner
  Keys,        \* Idempotency-Keys
  Domains,
  NoKey, NoItem,
  Scenarios,   \* what the calls may ask for: a set of [Calls -> CallRecord]
  MaxItems,    \* max_items of a bulk call
  Cap,         \* max_licence_cap
  CommitCap,   \* plan_mix_max_licences
  FlexMax,     \* plan_mix_flexible_max_licences
  Every,       \* plan_mix_annual_every
  Faults,      \* which of FaultKinds the environment may produce
  MaxMishaps   \* bound on their number, "create" apart (once for each item)

FaultKinds == {"busy",     \* the counter may be too contended for a reservation
               "create",   \* a step from the plan slot to the job document may raise
               "store",    \* a query or a list of the store may fail
               "raise",    \* a write may raise an error that nothing expects
               "lost",     \* a claim may be made and its answer lost
               "crash"}    \* the server of a call may die

Kinds == {"single", "bulk", "legacy", "csv"}
Entry == [domain: Domains, seats: Nat]
Bodies == Seq(Entry)
CallRecord == [kind: Kinds, key: Keys \cup {NoKey}, body: Bodies]

(* The items of all calls; an item's name is the id of its job.            *)
Items == Calls \X (1 .. MaxItems)
Scopes == {"single", "bulk"} \X Keys

ASSUME ConstantsAssumption ==
  /\ IsFiniteSet(Calls)
  /\ NoKey \notin Keys
  /\ NoItem \notin Items
  /\ Scenarios \subseteq [Calls -> CallRecord]
  /\ MaxItems \in Nat \ {0}
  /\ \A scenario \in Scenarios, c \in Calls : Len(scenario[c].body) \in 1 .. MaxItems
  /\ Cap \in Nat /\ CommitCap \in Nat \ {0} /\ FlexMax \in Nat /\ Every \in Nat
  /\ Faults \subseteq FaultKinds
  /\ MaxMishaps \in Nat

VARIABLES
  call,     \* call[c]: what call c asks for
  pc,       \* pc[c]: where its thread is
  answer,   \* answer[c]: what it was answered, and the id in the answer
  item,     \* item[x]: progress of an item
  keys,     \* keys[s]: the idempotency record of a scope, or none
  lock,     \* lock[d]: the item whose token the domain lock holds, or NoItem
  used,     \* licences_used of the partner
  counter,  \* the partner's plan slots handed out so far
  job,      \* job[x]: the job document
  batch,    \* batch[c]: the batch document: the results of all items, or <<>>
  mishaps

vars == <<call, pc, answer, item, keys, lock, used, counter, job, batch, mishaps>>

-----------------------------------------------------------------------------
Steps == {"start", "read", "slots", "items", "active", "new", "answered", "dead"}
(* An item's way through accept(); "undo", "unlock" and "forget" take back *)
(* what it had taken when it is refused, unless that fails ("broken").     *)
Holding == {"slot", "cut", "create", "dispatch", "undo"}
Final == {"accepted", "refused", "broken", "invalid", "dead"}
ItemSteps == {"none", "lock", "reserve", "unlock", "forget"} \cup Holding \cup Final
Active == {"lock", "reserve", "unlock", "forget"} \cup Holding

Kind(c) == call[c].kind
Entries(c) == {x \in Items : x[1] = c /\ x[2] <= Len(call[c].body)}
EntryOf(x) == call[x[1]].body[x[2]]
DomainOf(x) == EntryOf(x).domain
Scope(c) == <<Kind(c), call[c].key>>
Keyed(c) == call[c].key # NoKey

NoRecord == [result |-> NoItem, body |-> <<>>]
(* left: what the settlement of the job failed to do (history).            *)
NoJob == [status |-> "NONE", settled |-> TRUE, reserved |-> 0, added |-> 0,
          commit |-> FALSE, key |-> NoKey, left |-> {}]
Exists(x) == job[x].status # "NONE"
Running == {"PENDING", "ACTIVE"}

TypeOK ==
  /\ call \in [Calls -> CallRecord]
  /\ pc \in [Calls -> Steps]
  /\ answer \in [Calls -> [told: {"", "accepted", "refused", "broken", "replay", "mismatch",
                                  "batch", "missing", "joined"},
                           id: Items \cup {NoItem}]]
  /\ item \in [Items -> [pc: ItemSteps, seats: Nat, slot: Nat]]
  /\ keys \in [Scopes -> [result: Items \cup {NoItem},
                          body: {<<>>} \cup {call[c].body : c \in Calls}]]
  /\ lock \in [Domains -> Items \cup {NoItem}]
  /\ used \in 0 .. Cap
  /\ counter \in Nat
  /\ job \in [Items -> [status: {"NONE", "COMPLETED", "FAILED"} \cup Running, settled: BOOLEAN,
                        reserved: Nat, added: Nat, commit: BOOLEAN, key: Keys \cup {NoKey},
                        left: SUBSET {"refund", "lock"}]]
  /\ batch \in [Calls -> {<<>>} \cup UNION {[1 .. n -> Final] : n \in 1 .. MaxItems}]
  /\ mishaps \in 0 .. MaxMishaps

Init ==
  /\ call \in Scenarios
  /\ pc = [c \in Calls |-> "start"]
  /\ answer = [c \in Calls |-> [told |-> "", id |-> NoItem]]
  /\ item = [x \in Items |-> [pc |-> "none", seats |-> 0, slot |-> 0]]
  /\ keys = [s \in Scopes |-> NoRecord]
  /\ lock = [d \in Domains |-> NoItem]
  /\ used = 0
  /\ counter = 0
  /\ job = [x \in Items |-> NoJob]
  /\ batch = [c \in Calls |-> <<>>]
  /\ mishaps = 0

-----------------------------------------------------------------------------
Goto(c, step) == pc' = [pc EXCEPT ![c] = step]
At(x, step) == item' = [item EXCEPT ![x].pc = step]

Mishap(kind) == kind \in Faults /\ mishaps < MaxMishaps /\ mishaps' = mishaps + 1

Answer(c, told, id) ==
  /\ Goto(c, "answered")
  /\ answer' = [answer EXCEPT ![c] = [told |-> told, id |-> id]]

(* check_plan_rules: the widest cap.                                       *)
Valid(x) == EntryOf(x).seats <= FlexMax

(* plan_for_slot                                                           *)
IsCommitment(slot) == Every > 0 /\ slot % Every = 0

(* The result_id that the claim of a call records.                         *)
OwnId(c) == <<c, 1>>

(* A single item begins; the items of a bulk call wait for their slots.    *)
Begin(c) ==
  IF Kind(c) = "single"
  THEN Goto(c, "items") /\ At(OwnId(c), "lock")
  ELSE Goto(c, "slots") /\ UNCHANGED item

(* Mutant: a key counts as used only once the job it names exists.         *)
TakenOnceJobExists(c) ==
  Keyed(c) /\ keys[Scope(c)] # NoRecord /\ Exists(keys[Scope(c)].result)

Taken(c) == Keyed(c) /\ keys[Scope(c)] # NoRecord

Claimed(c) ==
  [keys EXCEPT ![Scope(c)] = [result |-> OwnId(c), body |-> call[c].body]]

(* An invalid single request is refused before its key is claimed.         *)
Claiming(c) ==
  pc[c] = "start" /\ (Kind(c) = "bulk" \/ (Kind(c) = "single" /\ Valid(OwnId(c))))

Invalid(c) ==
  /\ pc[c] = "start" /\ Kind(c) = "single" /\ ~Valid(OwnId(c))
  /\ Answer(c, "refused", NoItem)
  /\ UNCHANGED <<call, item, keys, lock, used, counter, job, batch, mishaps>>

(* IdempotencyRepository.claim, its create-if-absent.                      *)
Start(c) ==
  /\ Claiming(c)
  /\ IF Taken(c)
     THEN Goto(c, "read") /\ UNCHANGED <<item, keys>>
     ELSE Begin(c) /\ keys' = IF Keyed(c) THEN Claimed(c) ELSE keys
  /\ UNCHANGED <<call, answer, lock, used, counter, job, batch, mishaps>>

(* The answer of the create is lost, the HTTP layer sends it again, and it *)
(* is told that there is such a record: its own.                           *)
ClaimLost(c) ==
  /\ Mishap("lost")
  /\ Claiming(c) /\ Keyed(c) /\ ~Taken(c)
  /\ Goto(c, "read")
  /\ keys' = Claimed(c)
  /\ UNCHANGED <<call, answer, item, lock, used, counter, job, batch>>

(* The claim raises, having been made or not.                              *)
ClaimRaises(c) ==
  /\ Mishap("raise")
  /\ Claiming(c) /\ Keyed(c)
  /\ Answer(c, "broken", NoItem)
  /\ keys' \in {keys} \cup (IF Taken(c) THEN {} ELSE {Claimed(c)})
  /\ UNCHANGED <<call, item, lock, used, counter, job, batch>>

(* claim() returns "existing or record": the caller's own record also when *)
(* the owner of the key has withdrawn it in between.                       *)
ExistingOrOwn(c) ==
  IF keys[Scope(c)] # NoRecord THEN keys[Scope(c)]
  ELSE [result |-> OwnId(c), body |-> call[c].body]

(* The replay of the original result: _replay, or batch_status, which does *)
(* not find a batch that is still being accepted.                          *)
Replay(c) ==
  /\ pc[c] = "read"
  /\ LET record == ExistingOrOwn(c) IN
       IF record.body # call[c].body THEN Answer(c, "mismatch", NoItem)
       ELSE IF Kind(c) = "bulk" /\ batch[record.result[1]] = <<>>
       THEN Answer(c, "missing", NoItem)
       ELSE Answer(c, "replay", record.result)
  /\ UNCHANGED <<call, item, keys, lock, used, counter, job, batch, mishaps>>

(* Position of a valid item among the valid items of its call.             *)
Position(x) == Cardinality({y \in Entries(x[1]) : Valid(y) /\ y[2] <= x[2]})

(* accept_bulk, phases 1 and 2: validation, and one block of slots.        *)
TakeBlock(c) ==
  LET valid == {x \in Entries(c) : Valid(x)} IN
  /\ pc[c] = "slots"
  /\ counter' = counter + Cardinality(valid)
  /\ item' = [x \in Items |->
       IF x \in valid THEN [item[x] EXCEPT !.pc = "lock", !.slot = counter + Position(x)]
       ELSE IF x \in Entries(c) THEN [item[x] EXCEPT !.pc = "invalid"]
       ELSE item[x]]
  /\ Goto(c, "items")
  /\ UNCHANGED <<call, answer, keys, lock, used, job, batch, mishaps>>

(* _forget: the record is deleted if it is the caller's own.               *)
WithoutClaim(c) ==
  IF Keyed(c) /\ keys[Scope(c)].result = OwnId(c)
  THEN [keys EXCEPT ![Scope(c)] = NoRecord] ELSE keys

(* Mutant: the claim is not withdrawn when no slots could be had.          *)
BlockBusyKeepsClaim(c) ==
  /\ Mishap("busy")
  /\ pc[c] = "slots"
  /\ Answer(c, "refused", NoItem)
  /\ UNCHANGED <<call, item, keys, lock, used, counter, job, batch>>

BlockBusy(c) ==
  /\ Mishap("busy")
  /\ pc[c] = "slots"
  /\ keys' = WithoutClaim(c)
  /\ Answer(c, "refused", NoItem)
  /\ UNCHANGED <<call, item, lock, used, counter, job, batch>>

(* Only contention is expected: any other error leaves the claim behind.   *)
BlockRaises(c) ==
  /\ Mishap("raise")
  /\ pc[c] = "slots"
  /\ Answer(c, "broken", NoItem)
  /\ UNCHANGED <<call, item, keys, lock, used, counter, job, batch>>

-----------------------------------------------------------------------------
(* accept(), from the domain lock on.                                      *)
AcquireLock(x) ==
  /\ item[x].pc = "lock"
  /\ IF lock[DomainOf(x)] = NoItem
     THEN lock' = [lock EXCEPT ![DomainOf(x)] = x] /\ At(x, "reserve")
     ELSE At(x, "forget") /\ UNCHANGED lock
  /\ UNCHANGED <<call, pc, answer, keys, used, counter, job, batch, mishaps>>

Reserve(x) ==
  /\ item[x].pc = "reserve"
  /\ IF used + EntryOf(x).seats <= Cap
     THEN /\ used' = used + EntryOf(x).seats
          /\ item' = [item EXCEPT ![x].pc = "slot", ![x].seats = EntryOf(x).seats]
     ELSE At(x, "unlock") /\ UNCHANGED used
  /\ UNCHANGED <<call, pc, answer, keys, lock, counter, job, batch, mishaps>>

ReserveBusy(x) ==
  /\ Mishap("busy")
  /\ item[x].pc = "reserve"
  /\ At(x, "unlock")
  /\ UNCHANGED <<call, pc, answer, keys, lock, used, counter, job, batch>>

(* Mutant: every item takes a slot, also one that was assigned one.        *)
TakeSlotAlways(x) ==
  /\ item[x].pc = "slot"
  /\ counter' = counter + 1
  /\ item' = [item EXCEPT ![x].pc = "cut", ![x].slot = counter + 1]
  /\ UNCHANGED <<call, pc, answer, keys, lock, used, job, batch, mishaps>>

(* The plan: of the assigned slot, or of the next one of the counter.      *)
TakeSlot(x) ==
  /\ item[x].pc = "slot"
  /\ IF item[x].slot # 0
     THEN At(x, "cut") /\ UNCHANGED counter
     ELSE /\ counter' = counter + 1
          /\ item' = [item EXCEPT ![x].pc = "cut", ![x].slot = counter + 1]
  /\ UNCHANGED <<call, pc, answer, keys, lock, used, job, batch, mishaps>>

(* A commitment domain keeps CommitCap; the rest goes back at once.        *)
Cut(x) ==
  /\ item[x].pc = "cut"
  /\ LET over == IsCommitment(item[x].slot) /\ item[x].seats > CommitCap IN
       /\ used' = IF over THEN used - (item[x].seats - CommitCap) ELSE used
       /\ item' = [item EXCEPT ![x].pc = "create", ![x].seats = IF over THEN CommitCap ELSE @]
  /\ UNCHANGED <<call, pc, answer, keys, lock, counter, job, batch, mishaps>>

Create(x) ==
  /\ item[x].pc = "create"
  /\ job' = [job EXCEPT ![x] = [NoJob EXCEPT !.status = "PENDING", !.settled = FALSE,
                                  !.reserved = item[x].seats,
                                  !.commit = IsCommitment(item[x].slot)]]
  /\ At(x, "dispatch")
  /\ UNCHANGED <<call, pc, answer, keys, lock, used, counter, batch, mishaps>>

(* Handed to the queue; the audit entry and the answer change nothing.     *)
Dispatch(x) ==
  /\ item[x].pc = "dispatch"
  /\ At(x, "accepted")
  /\ UNCHANGED <<call, pc, answer, keys, lock, used, counter, job, batch, mishaps>>

AcceptRaises(x) ==
  /\ "create" \in Faults
  /\ item[x].pc \in {"slot", "cut", "create"}
  /\ At(x, "undo")
  /\ UNCHANGED <<call, pc, answer, keys, lock, used, counter, job, batch, mishaps>>

(* The except blocks, one write after another.                             *)
Undo(x) ==
  /\ item[x].pc = "undo"
  /\ used' = used - item[x].seats
  /\ item' = [item EXCEPT ![x].pc = "unlock", ![x].seats = 0]
  /\ UNCHANGED <<call, pc, answer, keys, lock, counter, job, batch, mishaps>>

(* The refund finds the counter contended: no cleanup after it, and the    *)
(* caller gets a 5xx.                                                      *)
UndoRaises(x) ==
  /\ Mishap("busy")
  /\ item[x].pc = "undo"
  /\ At(x, "broken")
  /\ UNCHANGED <<call, pc, answer, keys, lock, used, counter, job, batch>>

(* Nor is there any after another error of the lock, of the reservation or *)
(* of the except blocks' own writes.  If the write was done all the same,  *)
(* that is its step and then this one: from "slot", too, for a reservation *)
(* that the caller was not told of.                                        *)
Escapes(x) ==
  /\ Mishap("raise")
  /\ item[x].pc \in {"lock", "reserve", "slot", "undo", "unlock", "forget"}
  /\ At(x, "broken")
  /\ UNCHANGED <<call, pc, answer, keys, lock, used, counter, job, batch>>

(* Mutant: the lock of a refused request is left to expire.                *)
UnlockForgotten(x) ==
  /\ item[x].pc = "unlock"
  /\ At(x, "forget")
  /\ UNCHANGED <<call, pc, answer, keys, lock, used, counter, job, batch, mishaps>>

Unlock(x) ==
  /\ item[x].pc = "unlock"
  /\ lock' = [lock EXCEPT ![DomainOf(x)] = IF @ = x THEN NoItem ELSE @]
  /\ At(x, "forget")
  /\ UNCHANGED <<call, pc, answer, keys, used, counter, job, batch, mishaps>>

(* An item of a bulk call has no key of its own.                           *)
Forget(x) ==
  /\ item[x].pc = "forget"
  /\ keys' = IF Kind(x[1]) = "single" THEN WithoutClaim(x[1]) ELSE keys
  /\ At(x, "refused")
  /\ UNCHANGED <<call, pc, answer, lock, used, counter, job, batch, mishaps>>

(* The 202 or the refusal; a bulk call stores its results first.           *)
Respond(c) ==
  /\ pc[c] = "items"
  /\ \A x \in Entries(c) : item[x].pc \in Final
  /\ IF Kind(c) = "single"
     THEN /\ Answer(c, item[OwnId(c)].pc, OwnId(c))
          /\ UNCHANGED batch
     ELSE /\ Answer(c, "batch", OwnId(c))
          /\ batch' = [batch EXCEPT ![c] = [i \in 1 .. Len(call[c].body) |-> item[<<c, i>>].pc]]
  /\ UNCHANGED <<call, item, keys, lock, used, counter, job, mishaps>>

(* The results of a bulk call cannot be stored.                            *)
RespondRaises(c) ==
  /\ Mishap("raise")
  /\ pc[c] = "items" /\ Kind(c) = "bulk"
  /\ \A x \in Entries(c) : item[x].pc \in Final
  /\ Answer(c, "broken", OwnId(c))
  /\ UNCHANGED <<call, item, keys, lock, used, counter, job, batch>>

-----------------------------------------------------------------------------
(* FirestoreStore.query: what there is, or nothing when it fails.          *)
Queried(found, got) ==
  \/ got = found /\ UNCHANGED mishaps
  \/ got = {} /\ Mishap("store")

(* list_all: likewise, but it raises if it fails after its first page.     *)
Listed(found, got) ==
  \/ Queried(found, got)
  \/ found # {} /\ got = {NoItem} /\ Mishap("store")

(* The legacy route: look the key up among the jobs, ...                   *)
LegacyKey(c) ==
  /\ pc[c] = "start" /\ Kind(c) = "legacy"
  /\ LET found == {x \in Items : Keyed(c) /\ Exists(x) /\ job[x].key = call[c].key} IN
       \E got \in {found, {}} :
         /\ Queried(found, got)
         /\ IF got = {} THEN Goto(c, "active") /\ UNCHANGED answer
            ELSE \E x \in got : Answer(c, "joined", x)
  /\ UNCHANGED <<call, item, keys, lock, used, counter, job, batch>>

(* ... then any job of the domain that is past PENDING and not finished;   *)
LegacyActive(c) ==
  /\ pc[c] = "active"
  /\ LET found == {x \in Items : Exists(x)} IN
       \E got \in {found, {}, {NoItem}} :
         /\ Listed(found, got)
         /\ LET active == {x \in got \ {NoItem} : /\ job[x].status = "ACTIVE"
                                                  /\ DomainOf(x) = DomainOf(OwnId(c))} IN
              IF got = {NoItem} THEN Answer(c, "broken", NoItem)
              ELSE IF active = {} THEN Goto(c, "new") /\ UNCHANGED answer
              ELSE \E x \in active : Answer(c, "joined", x)
  /\ UNCHANGED <<call, item, keys, lock, used, counter, job, batch>>

(* Mutant: a job without a reservation is left to the settlement.          *)
LegacyJobUnsettled(c) == [NoJob EXCEPT !.status = "PENDING", !.key = call[c].key,
                                       !.settled = FALSE, !.reserved = EntryOf(OwnId(c)).seats]

(* settled and licences_reserved keep their defaults, True and 0.          *)
LegacyJob(c) == [NoJob EXCEPT !.status = "PENDING", !.key = call[c].key]

(* ... and create the job.  A CSV file is not compared with anything.      *)
LegacyCreate(c) ==
  /\ pc[c] = "new" \/ (pc[c] = "start" /\ Kind(c) = "csv")
  /\ job' = [job EXCEPT ![OwnId(c)] = LegacyJob(c)]
  /\ Answer(c, "accepted", OwnId(c))
  /\ UNCHANGED <<call, item, keys, lock, used, counter, batch, mishaps>>

-----------------------------------------------------------------------------
(* A worker has taken the job up.                                          *)
JobStarts(x) ==
  /\ job[x].status = "PENDING"
  /\ job' = [job EXCEPT ![x].status = "ACTIVE"]
  /\ UNCHANGED <<call, pc, answer, item, keys, lock, used, counter, batch, mishaps>>

(* Mutant: what is refunded is the whole reservation.                      *)
JobEndsForFree(x) ==
  /\ job[x].status \in Running /\ ~job[x].settled
  /\ \E status \in {"COMPLETED", "FAILED"}, charge \in 0 .. job[x].reserved :
       /\ job' = [job EXCEPT ![x].status = status, ![x].settled = TRUE, ![x].added = charge]
       /\ used' = used - job[x].reserved
       /\ lock' = [lock EXCEPT ![DomainOf(x)] = IF @ = x THEN NoItem ELSE @]
  /\ UNCHANGED <<call, pc, answer, item, keys, counter, batch, mishaps>>

(* The job has come to its end, on its worker or in the sweep, also one    *)
(* that was never started, and is settled at whatever its document says,   *)
(* completed or failed.  An error, or a death, after the settled flag has  *)
(* the refund or the release of the lock left undone for good.             *)
JobEnds(x) ==
  /\ job[x].status \in Running /\ ~job[x].settled
  /\ \E status \in {"COMPLETED", "FAILED"}, charge \in 0 .. job[x].reserved,
        left \in SUBSET {"refund", "lock"} :
       /\ IF left = {} THEN UNCHANGED mishaps ELSE Mishap("raise")
       /\ job' = [job EXCEPT ![x].status = status, ![x].settled = TRUE, ![x].added = charge,
                             ![x].left = left]
       /\ used' = IF "refund" \in left THEN used ELSE used - (job[x].reserved - charge)
       /\ lock' = IF "lock" \in left THEN lock
                  ELSE [lock EXCEPT ![DomainOf(x)] = IF @ = x THEN NoItem ELSE @]
  /\ UNCHANGED <<call, pc, answer, item, keys, counter, batch>>

(* A legacy job is charged to nobody; no sweep ends it when its server dies. *)
LegacyEnds(x) ==
  /\ job[x].status = "ACTIVE" /\ job[x].settled
  /\ \E status \in {"COMPLETED", "FAILED"} : job' = [job EXCEPT ![x].status = status]
  /\ UNCHANGED <<call, pc, answer, item, keys, lock, used, counter, batch, mishaps>>

(* batch_status: what a stored batch has come to.                          *)
BatchStatus(c) ==
  LET jobs == {x \in Entries(c) : batch[c][x[2]] = "accepted"} IN
    CASE \E x \in jobs : job[x].status \in Running -> "IN_PROGRESS"
      [] jobs = Entries(c) /\ \A x \in jobs : job[x].status = "COMPLETED" -> "COMPLETED"
      [] OTHER -> "COMPLETED_WITH_ERRORS"

(* The server dies with the threads of a call.                             *)
Crash(c) ==
  /\ Mishap("crash")
  /\ pc[c] \notin {"start", "answered", "dead"}
  /\ Goto(c, "dead")
  /\ item' = [x \in Items |-> IF x \in Entries(c) /\ item[x].pc \in Active
                              THEN [item[x] EXCEPT !.pc = "dead"] ELSE item[x]]
  /\ UNCHANGED <<call, answer, keys, lock, used, counter, job, batch>>

(* Mutant: a lock without an expiry.                                       *)
LockStays(d) == FALSE /\ UNCHANGED vars

(* The lock of an item that died, or broke, before its job existed expires, *)
(* and so does one that the settlement left.                               *)
LockExpires(d) ==
  /\ lock[d] # NoItem
  /\ IF Exists(lock[d]) THEN job[lock[d]].settled ELSE item[lock[d]].pc \in {"dead", "broken"}
  /\ lock' = [lock EXCEPT ![d] = NoItem]
  /\ UNCHANGED <<call, pc, answer, item, keys, used, counter, job, batch, mishaps>>

CallStep(c) ==
  \/ Invalid(c) \/ Start(c) \/ ClaimLost(c) \/ ClaimRaises(c) \/ Replay(c)
  \/ TakeBlock(c) \/ BlockBusy(c) \/ BlockRaises(c) \/ Respond(c) \/ RespondRaises(c)
  \/ LegacyKey(c) \/ LegacyActive(c) \/ LegacyCreate(c)
ItemStep(x) ==
  \/ AcquireLock(x) \/ Reserve(x) \/ ReserveBusy(x) \/ TakeSlot(x) \/ Cut(x) \/ Create(x)
  \/ Dispatch(x) \/ AcceptRaises(x) \/ Undo(x) \/ UndoRaises(x) \/ Unlock(x) \/ Forget(x)
  \/ Escapes(x)

Next ==
  \/ \E c \in Calls : CallStep(c) \/ Crash(c)
  \/ \E x \in Items : ItemStep(x) \/ JobStarts(x) \/ JobEnds(x) \/ LegacyEnds(x)
  \/ \E d \in Domains : LockExpires(d)

Spec == Init /\ [][Next]_vars

(* Threads go on; jobs are run or swept in the end (JobLifecycle).         *)
Fairness == /\ \A c \in Calls : WF_vars(CallStep(c))
            /\ \A x \in Items : WF_vars(ItemStep(x)) /\ WF_vars(JobEnds(x))
            /\ \A d \in Domains : WF_vars(LockExpires(d))
FairSpec == Spec /\ Fairness
=============================================================================
