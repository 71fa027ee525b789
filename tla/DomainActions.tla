--------------------------- MODULE DomainActions ---------------------------
(***************************************************************************)
(* What a partner does with a domain it already has: change its licences,  *)
(* suspend it, activate it, transfer it to Google (DomainService).         *)
(*                                                                         *)
(* Every action takes the domain lock, reads the company and what Google   *)
(* holds, changes Google first and then, one write at a time, the quota,   *)
(* our records and the audit log.  Google calls are repeated by            *)
(* call_with_retry; a repeated licence change starts from its first call.  *)
(***************************************************************************)
EXTENDS Integers, FiniteSets, Functions

CONSTANTS
  Requests,      \* the calls of one partner
  Domains,       \* the partner's domains
  Subs,          \* the subscriptions Google holds for them
  NoReq, NoSub,
  Calls,         \* [Requests -> SUBSET CallRecord], what each of them may ask for
  Customer,      \* [Subs -> Domains]
  LocalSub,      \* [Domains -> Subs \cup {NoSub}], google_subscription_id of our record
  Plan,          \* [Subs -> {"FLEXIBLE", "ANNUAL"}]
  InitialSeats,  \* [Subs -> Nat]
  MaxSeats,      \* [{"FLEXIBLE", "ANNUAL"} -> Nat], the plan mix's limit per domain
  Cap,           \* max_licence_cap
  Batch,         \* GOOGLE_MAX_SEATS_PER_CALL
  Attempts,      \* MAX_ATTEMPTS of call_with_retry
  Faults,        \* which of FaultKinds the environment may produce
  MaxMishaps     \* bound on mishaps in one behaviour

Ops == {"change", "delete", "suspend", "activate"}
(* target: the new total that a licence change asks for.                   *)
CallRecord == [op: Ops, domain: Domains, target: Nat]

FaultKinds ==
  { "late",      \* an action may take longer than its three-minute lock
    "error",     \* a call may raise without effect
    "lost",      \* a call that sells nothing may raise although it was done
    "halfDone",  \* ... and one that sells seats as well
    "counter",   \* a write of the counter may raise, done or not
    "store",     \* a write of a document may be refused, or raise, done or not
    "google" }   \* Google may suspend a subscription, and lift that, itself

ASSUME ConstantsAssumption ==
  /\ IsFiniteSet(Requests) /\ IsFiniteSet(Domains) /\ IsFiniteSet(Subs)
  /\ NoReq \notin Requests
  /\ NoSub \notin Subs
  /\ Calls \in [Requests -> SUBSET CallRecord]
  /\ Customer \in [Subs -> Domains]
  /\ LocalSub \in [Domains -> Subs \cup {NoSub}]
  /\ Plan \in [Subs -> {"FLEXIBLE", "ANNUAL"}]
  /\ InitialSeats \in [Subs -> Nat]
  /\ MaxSeats \in [{"FLEXIBLE", "ANNUAL"} -> Nat]
  /\ Cap \in Nat
  /\ Batch \in Nat \ {0}
  /\ Attempts \in Nat \ {0}
  /\ Faults \subseteq FaultKinds
  /\ MaxMishaps \in Nat

VARIABLES
  call,     \* call[r]: what request r asks for
  pc,       \* pc[r]: where request r is
  local,    \* local[r]: its local variables
  lock,     \* lock[d]: the domain lock document
  used,     \* licences_used of the partner
  google,   \* google[s]: the subscription as Google has it
  company,  \* company[d]: status of the company document
  record,   \* record[d]: seats and status of our subscription document
  audit,    \* the audit log
  missing,  \* entries that the log should have and has not (history)
  unsaved,  \* the requests whose write of a document went wrong (history)
  mishaps   \* calls and writes that raised, deaths, Google's own acts, so far

vars == <<call, pc, local, lock, used, google, company, record, audit, missing, unsaved,
          mishaps>>

history == <<missing, unsaved>>

-----------------------------------------------------------------------------
Op(r) == call[r].op
DomainOf(r) == call[r].domain
Target(r) == call[r].target

(* Mutant: the counter may fall below zero.                                *)
MinusUnbounded(m, n) == m - n

Minus(m, n) == IF m > n THEN m - n ELSE 0       \* max(0, m - n)

Statuses == {"ACTIVE", "SUSPENDED", "TRANSFERRED"}
Answers == {"ok", "refused", "error"}
(* A request that is in one of these steps believes it holds the lock.     *)
Inside == {"owned", "list", "reserve", "call", "undo", "account", "company",
           "record", "audit"}
Steps == {"start", "unlock", "dead"} \cup Inside \cup Answers
Running(r) == pc[r] \in Inside \cup {"unlock"}

(* ids: the subscriptions acted upon; current: their seats when listed;    *)
(* at: the last size sent; status: what our records will say; answer: what *)
(* the caller will be told.  History: lost, a call or write had an outcome *)
(* its caller did not see; left, the seats a failed increase did buy.      *)
Fresh == [ids |-> {}, current |-> 0, at |-> 0, tries |-> 0, status |-> "ACTIVE",
          answer |-> "ok", lost |-> FALSE, left |-> 0]

Held(d) == {s \in Subs : Customer[s] = d /\ google[s].held}
SeatsOf(ids) == SumFunctionOnSet([s \in ids |-> google[s].seats], ids)
StatusOf(reasons) == IF reasons = {} THEN "ACTIVE" ELSE "SUSPENDED"

TypeOK ==
  /\ call \in [Requests -> CallRecord]
  /\ pc \in [Requests -> Steps]
  /\ local \in [Requests -> [ids: SUBSET Subs, current: Nat, at: Nat, tries: 0 .. Attempts,
                             status: Statuses, answer: Answers, lost: BOOLEAN,
                             left: Nat]]
  /\ lock \in [Domains -> [token: Requests \cup {NoReq}, live: BOOLEAN]]
  /\ used \in Nat
  /\ google \in [Subs -> [held: BOOLEAN, seats: Nat,
                          reasons: SUBSET {"RESELLER", "GOOGLE"}]]
  /\ company \in [Domains -> Statuses]
  /\ record \in [Domains -> [seats: Nat, status: Statuses]]
  /\ audit \subseteq [by: Requests, licences: Int]
  /\ missing \subseteq [by: Requests, licences: Int]
  /\ unsaved \subseteq Requests
  /\ mishaps \in 0 .. MaxMishaps

(* Every seat Google holds has been counted when it was sold.              *)
Init ==
  /\ call \in {f \in [Requests -> UNION {Calls[r] : r \in Requests}] :
                 \A r \in Requests : f[r] \in Calls[r]}
  /\ pc = [r \in Requests |-> "start"]
  /\ local = [r \in Requests |-> Fresh]
  /\ lock = [d \in Domains |-> [token |-> NoReq, live |-> FALSE]]
  /\ used = SumFunctionOnSet(InitialSeats, Subs)
  /\ google = [s \in Subs |-> [held |-> TRUE, seats |-> InitialSeats[s], reasons |-> {}]]
  /\ company = [d \in Domains |-> "ACTIVE"]
  /\ record = [d \in Domains |->
       [seats |-> IF LocalSub[d] = NoSub THEN 0 ELSE InitialSeats[LocalSub[d]],
        status |-> "ACTIVE"]]
  /\ audit = {}
  /\ missing = {}
  /\ unsaved = {}
  /\ mishaps = 0

-----------------------------------------------------------------------------
Mishap == mishaps < MaxMishaps /\ mishaps' = mishaps + 1
Goto(r, step) == pc' = [pc EXCEPT ![r] = step]

(* Leave the locked region; its finally clause releases the lock.          *)
Leave(r, answer) ==
  /\ Goto(r, "unlock")
  /\ local' = [local EXCEPT ![r].answer = answer]

(* Mutant: the lock document is overwritten without a look at it.          *)
AcquireBlindly(r) ==
  /\ pc[r] = "start"
  /\ lock' = [lock EXCEPT ![DomainOf(r)] = [token |-> r, live |-> TRUE]]
  /\ Goto(r, "owned")
  /\ UNCHANGED <<call, local, used, google, company, record, audit, history, mishaps>>

(* _domain_lock: LockRepository.acquire, or 409 while somebody holds it.   *)
Acquire(r) ==
  /\ pc[r] = "start"
  /\ ~lock[DomainOf(r)].live
  /\ lock' = [lock EXCEPT ![DomainOf(r)] = [token |-> r, live |-> TRUE]]
  /\ Goto(r, "owned")
  /\ UNCHANGED <<call, local, used, google, company, record, audit, history, mishaps>>

Busy(r) ==
  /\ pc[r] = "start"
  /\ lock[DomainOf(r)].live
  /\ Goto(r, "refused")
  /\ UNCHANGED <<call, local, lock, used, google, company, record, audit, history, mishaps>>

(* Mutant: locks time out while their holder is at work.                   *)
LockExpiresEarly(d) ==
  /\ lock[d].live
  /\ lock' = [lock EXCEPT ![d].live = FALSE]
  /\ UNCHANGED <<call, pc, local, used, google, company, record, audit, history, mishaps>>

(* Mutant: locks have no time to live.                                     *)
LockNeverExpires(d) == FALSE /\ UNCHANGED vars

(* The domain lock dies of old age: the holder died, or took too long.     *)
LockExpires(d) ==
  /\ lock[d].live
  /\ "late" \notin Faults => ~Running(lock[d].token)
  /\ lock' = [lock EXCEPT ![d].live = FALSE]
  /\ UNCHANGED <<call, pc, local, used, google, company, record, audit, history, mishaps>>

(* Only the token that is stored is deleted.  The locals are gone, but for *)
(* the history.                                                            *)
Unlock(r) ==
  /\ pc[r] = "unlock"
  /\ lock' = IF lock[DomainOf(r)].token = r
             THEN [lock EXCEPT ![DomainOf(r)] = [token |-> NoReq, live |-> FALSE]]
             ELSE lock
  /\ Goto(r, local[r].answer)
  /\ local' = [local EXCEPT ![r] = [Fresh EXCEPT !.lost = local[r].lost, !.left = local[r].left]]
  /\ UNCHANGED <<call, used, google, company, record, audit, history, mishaps>>

(* _owned_company: a domain that was transferred is no longer managed.     *)
OwnedCompany(r) ==
  /\ pc[r] = "owned"
  /\ IF company[DomainOf(r)] = "TRANSFERRED"
     THEN Leave(r, "refused")
     ELSE Goto(r, "list") /\ UNCHANGED local
  /\ UNCHANGED <<call, lock, used, google, company, record, audit, history, mishaps>>

-----------------------------------------------------------------------------
(* _subscription_for: the subscription of our record, or the only one.     *)
SubscriptionFor(d) ==
  IF LocalSub[d] \in Held(d) THEN {LocalSub[d]}
  ELSE IF Cardinality(Held(d)) = 1 THEN Held(d) ELSE {}

Delta(r) == Target(r) - local[r].current
Ours(s) == "RESELLER" \in google[s].reasons

(* The rules an action is refused by before anything is done.              *)
RefusedFor(r, s) ==
  \/ /\ Op(r) = "change"
     /\ \/ Target(r) > MaxSeats[Plan[s]]
        \/ Target(r) < google[s].seats /\ Plan[s] # "FLEXIBLE"
  \/ Op(r) = "activate" /\ ~Ours(s) /\ google[s].reasons # {}

(* What the action does next, knowing the subscription s as listed.        *)
AfterList(r, s) ==
  IF Op(r) = "change" /\ Target(r) > google[s].seats THEN "reserve"
  ELSE IF (Op(r) = "suspend" /\ Ours(s)) \/ (Op(r) = "activate" /\ ~Ours(s)) THEN "company"
  ELSE "call"

ListOne(r) ==
  /\ pc[r] = "list" /\ Op(r) # "delete"
  /\ \/ /\ SubscriptionFor(DomainOf(r)) = {}
        /\ Leave(r, "refused")
     \/ \E s \in SubscriptionFor(DomainOf(r)) :
          IF Op(r) = "change" /\ Target(r) = google[s].seats THEN Leave(r, "ok")
          ELSE IF RefusedFor(r, s) THEN Leave(r, "refused")
          ELSE /\ Goto(r, AfterList(r, s))
               /\ local' = [local EXCEPT ![r] =
                    [@ EXCEPT !.ids = {s}, !.current = google[s].seats, !.at = google[s].seats,
                              !.status = StatusOf(google[s].reasons)]]
  /\ UNCHANGED <<call, lock, used, google, company, record, audit, history, mishaps>>

(* _delete transfers all of the customer's subscriptions together.         *)
ListAll(r) ==
  /\ pc[r] = "list" /\ Op(r) = "delete"
  /\ IF Held(DomainOf(r)) = {}
     THEN Leave(r, "refused")
     ELSE /\ Goto(r, "call")
          /\ local' = [local EXCEPT ![r] =
               [@ EXCEPT !.ids = Held(DomainOf(r)), !.current = SeatsOf(Held(DomainOf(r))),
                         !.status = "TRANSFERRED"]]
  /\ UNCHANGED <<call, lock, used, google, company, record, audit, history, mishaps>>

ListFails(r) ==
  /\ Mishap
  /\ "error" \in Faults
  /\ pc[r] = "list"
  /\ Leave(r, "error")
  /\ UNCHANGED <<call, lock, used, google, company, record, audit, history>>

(* An increase is reserved before Google is called.                        *)
Reserve(r) ==
  /\ pc[r] = "reserve"
  /\ IF used + Delta(r) <= Cap
     THEN used' = used + Delta(r) /\ Goto(r, "call") /\ UNCHANGED local
     ELSE Leave(r, "refused") /\ UNCHANGED used
  /\ UNCHANGED <<call, lock, google, company, record, audit, history, mishaps>>

-----------------------------------------------------------------------------
(* _resize: reductions in one step, increases by at most Batch per call.   *)
NextSeats(r) ==
  IF Target(r) < local[r].current \/ Target(r) - local[r].at <= Batch
  THEN Target(r) ELSE local[r].at + Batch

Sells(r) == Op(r) = "change" /\ Delta(r) > 0

(* What the calls of the reseller API make of a subscription.              *)
Resized(s, n) == [google[s] EXCEPT !.seats = n]
Suspended(s) == [google[s] EXCEPT !.reasons = @ \cup {"RESELLER"}]
Activated(s) == [google[s] EXCEPT !.reasons = @ \ {"RESELLER"}]
Transferred(s) == [google[s] EXCEPT !.held = FALSE]

(* The call of r, done for the subscriptions in ids.                       *)
Called(r, ids) ==
  [s \in Subs |->
    IF s \notin ids THEN google[s]
    ELSE IF Op(r) = "change" THEN Resized(s, NextSeats(r))
    ELSE IF Op(r) = "suspend" THEN Suspended(s)
    ELSE IF Op(r) = "activate" THEN Activated(s) ELSE Transferred(s)]

(* Google answers 4xx to a call on a subscription that it no longer holds  *)
(* for us, and to lifting a suspension that is not ours.                   *)
Rejected(r) ==
  \E s \in local[r].ids : ~google[s].held \/ (Op(r) = "activate" /\ ~Ours(s))

(* Mutant: an increase does not reach our record.                          *)
AfterCallSkipRecord(r) ==
  IF Op(r) \in {"suspend", "activate"} THEN "company"
  ELSE IF Op(r) = "delete" \/ Delta(r) < 0 THEN "account" ELSE "audit"

AfterCall(r) ==
  IF Op(r) \in {"suspend", "activate"} THEN "company"
  ELSE IF Op(r) = "delete" \/ Delta(r) < 0 THEN "account" ELSE "record"

CallWorks(r) ==
  /\ pc[r] = "call" /\ ~Rejected(r)
  /\ google' = Called(r, local[r].ids)
  /\ IF Op(r) = "change" /\ NextSeats(r) # Target(r)
     THEN local' = [local EXCEPT ![r].at = NextSeats(r)] /\ UNCHANGED pc
     ELSE /\ Goto(r, AfterCall(r))
          /\ local' = [local EXCEPT ![r].status =
                         IF Op(r) \in {"suspend", "activate"}
                         THEN StatusOf(UNION {google'[s].reasons : s \in local[r].ids})
                         ELSE local[r].status]
  /\ UNCHANGED <<call, lock, used, company, record, audit, history, mishaps>>

(* call_with_retry: the whole operation again, while attempts are left.    *)
Retry(r, lost) ==
  /\ local[r].tries + 1 < Attempts
  /\ local' = [local EXCEPT ![r] =
       [@ EXCEPT !.tries = local[r].tries + 1, !.at = local[r].current,
                 !.lost = local[r].lost \/ lost]]
  /\ UNCHANGED pc

(* What an increase has got out of Google so far.                          *)
Bought(r, g) ==
  LET held == {s \in local[r].ids : g[s].held} IN
    Minus(SumFunctionOnSet([s \in held |-> g[s].seats], held), local[r].current)

(* _google_call's exception: the reservation goes back, a failed transfer  *)
(* is noted, and the caller gets an error.                                 *)
GiveUp(r, lost) ==
  /\ Goto(r, IF Sells(r) THEN "undo" ELSE IF Op(r) = "delete" THEN "audit" ELSE "unlock")
  /\ local' = [local EXCEPT ![r] =
       [@ EXCEPT !.answer = "error", !.lost = local[r].lost \/ lost,
                 !.left = IF Sells(r) THEN Bought(r, google') ELSE 0]]

CallRejected(r) ==
  /\ pc[r] = "call" /\ Rejected(r)
  /\ google' = IF Op(r) = "delete" THEN Called(r, local[r].ids) ELSE google
  /\ GiveUp(r, FALSE)
  /\ UNCHANGED <<call, lock, used, company, record, audit, history, mishaps>>

CallFails(r) ==
  /\ Mishap
  /\ "error" \in Faults
  /\ pc[r] = "call" /\ ~Rejected(r)
  /\ UNCHANGED google
  /\ Retry(r, FALSE) \/ GiveUp(r, FALSE)
  /\ UNCHANGED <<call, lock, used, company, record, audit, history>>

(* The call worked, for a part of a batch at least, and raised all the same. *)
CallLost(r) ==
  /\ Mishap
  /\ IF Sells(r) THEN "halfDone" \in Faults ELSE "lost" \in Faults
  /\ pc[r] = "call" /\ ~Rejected(r)
  /\ \E done \in SUBSET local[r].ids \ {{}} : google' = Called(r, done)
  /\ Retry(r, TRUE) \/ GiveUp(r, TRUE)
  /\ UNCHANGED <<call, lock, used, company, record, audit, history>>

-----------------------------------------------------------------------------
(* Mutant: the refund takes the new total for the difference.              *)
UndoTarget(r) ==
  /\ pc[r] = "undo"
  /\ used' = Minus(used, Target(r))
  /\ Goto(r, "unlock")
  /\ UNCHANGED <<call, local, lock, google, company, record, audit, history, mishaps>>

(* The refund of a licence change that failed: all of its difference.      *)
Undo(r) ==
  /\ pc[r] = "undo"
  /\ used' = Minus(used, Delta(r))
  /\ Goto(r, "unlock")
  /\ UNCHANGED <<call, local, lock, google, company, record, audit, history, mishaps>>

(* Mutant: a transfer releases what our own record says.                   *)
ReleasedByRecord(r) ==
  IF Op(r) = "delete" THEN record[DomainOf(r)].seats ELSE local[r].current - Target(r)

(* How many licences a finished action took from Google.                   *)
Released(r) == IF Op(r) = "delete" THEN local[r].current ELSE local[r].current - Target(r)

Account(r) ==
  /\ pc[r] = "account"
  /\ used' = Minus(used, Released(r))
  /\ Goto(r, IF Op(r) = "delete" THEN "company" ELSE "record")
  /\ UNCHANGED <<call, local, lock, google, company, record, audit, history, mishaps>>

(* The log will lack an entry of n licences for what r has done.           *)
Unreported(r, n) == missing' = missing \cup {[by |-> r, licences |-> n]}

(* The counter as a write of it leaves it.                                 *)
Counter(r) ==
  IF pc[r] = "reserve" THEN used + Delta(r)
  ELSE Minus(used, IF pc[r] = "undo" THEN Delta(r) ELSE Released(r))

(* ContentionError, or the store's own exception: nothing catches it but   *)
(* the lock.  The write may have been done all the same.                   *)
CounterRaises(r) ==
  /\ Mishap
  /\ "counter" \in Faults
  /\ pc[r] \in {"reserve", "undo", "account"}
  /\ \E done \in BOOLEAN :
       /\ pc[r] = "reserve" /\ done => Counter(r) <= Cap
       /\ used' = IF done THEN Counter(r) ELSE used
       /\ IF done = (pc[r] = "undo") THEN UNCHANGED missing
          ELSE Unreported(r, IF pc[r] = "account" THEN -Released(r) ELSE Delta(r))
  /\ Goto(r, "unlock")
  /\ local' = [local EXCEPT ![r] = [@ EXCEPT !.answer = "error", !.lost = TRUE]]
  /\ UNCHANGED <<call, lock, google, company, record, audit, unsaved>>

(* Mutant: failed transfers are reported like successful ones.             *)
LicencesOfFailuresToo(r) ==
  IF Op(r) = "change" THEN Delta(r) ELSE IF Op(r) = "delete" THEN -local[r].current ELSE 0

(* _record: the licences of the entry, none if the action failed.          *)
Licences(r) ==
  IF local[r].answer # "ok" THEN 0
  ELSE IF Op(r) = "change" THEN Delta(r)
  ELSE IF Op(r) = "delete" THEN -local[r].current ELSE 0

(* A write of a document works; or is refused, which the store only logs;  *)
(* or raises, done or not: then the action ends without its audit entry.   *)
Saved(r, next) == Goto(r, next) /\ UNCHANGED <<local, history, mishaps>>
Refused(r, next) ==
  /\ Mishap /\ "store" \in Faults
  /\ unsaved' = unsaved \cup {r}
  /\ Goto(r, next) /\ UNCHANGED <<local, missing>>
Raised(r) ==
  /\ Mishap /\ "store" \in Faults
  /\ unsaved' = unsaved \cup {r}
  /\ Leave(r, "error") /\ Unreported(r, Licences(r))

UpdateCompany(r) ==
  LET new == [company EXCEPT ![DomainOf(r)] = local[r].status] IN
    /\ pc[r] = "company"
    /\ \/ company' = new /\ Saved(r, "record")
       \/ company' = company /\ Refused(r, "record")
       \/ company' \in {company, new} /\ Raised(r)
    /\ UNCHANGED <<call, lock, used, google, record, audit>>

UpdateRecord(r) ==
  LET new == IF Op(r) = "change" THEN [record EXCEPT ![DomainOf(r)].seats = Target(r)]
             ELSE [record EXCEPT ![DomainOf(r)].status = local[r].status] IN
    /\ pc[r] = "record"
    /\ IF LocalSub[DomainOf(r)] = NoSub THEN record' = record /\ Saved(r, "audit")
       ELSE \/ record' = new /\ Saved(r, "audit")
            \/ record' = record /\ Refused(r, "audit")
            \/ record' \in {record, new} /\ Raised(r)
    /\ UNCHANGED <<call, lock, used, google, company, audit>>

(* An audit write that fails is only logged, and the action answered "ok". *)
Audit(r) ==
  /\ pc[r] = "audit"
  /\ \/ /\ audit' = audit \cup {[by |-> r, licences |-> Licences(r)]}
        /\ UNCHANGED <<history, mishaps>>
     \/ /\ Mishap /\ "store" \in Faults
        /\ Unreported(r, Licences(r)) /\ UNCHANGED <<audit, unsaved>>
  /\ Goto(r, "unlock")
  /\ UNCHANGED <<call, local, lock, used, google, company, record>>

(* licence_usage: additions less removals and releases, from the log.      *)
NetChange == SumFunctionOnSet([e \in audit |-> e.licences], audit)

(* plan_breakdown: domains and licences on a plan, from our own documents. *)
PlanBreakdown(plan) ==
  LET counted == {d \in Domains : /\ company[d] # "TRANSFERRED" /\ LocalSub[d] # NoSub
                                  /\ Plan[LocalSub[d]] = plan} IN
    [total |-> Cardinality(counted),
     licences |-> SumFunctionOnSet([d \in counted |-> record[d].seats], counted)]

-----------------------------------------------------------------------------
(* The process that runs the request dies.                                 *)
Crash(r) ==
  /\ Running(r)
  /\ Mishap
  /\ Goto(r, "dead")
  /\ UNCHANGED <<call, local, lock, used, google, company, record, audit, history>>

(* Terms of service not accepted, a trial that ended, ... and resolved.    *)
GoogleActs(s) ==
  /\ "google" \in Faults
  /\ Mishap
  /\ google[s].held
  /\ \E reasons \in {google[s].reasons \cup {"GOOGLE"}, google[s].reasons \ {"GOOGLE"}} :
       /\ reasons # google[s].reasons
       /\ google' = [google EXCEPT ![s].reasons = reasons]
  /\ UNCHANGED <<call, pc, local, lock, used, company, record, audit, history>>

Step(r) ==
  \/ Acquire(r) \/ Busy(r) \/ OwnedCompany(r) \/ ListOne(r) \/ ListAll(r) \/ ListFails(r)
  \/ Reserve(r) \/ CallWorks(r) \/ CallRejected(r) \/ CallFails(r) \/ CallLost(r)
  \/ Undo(r) \/ Account(r) \/ CounterRaises(r) \/ UpdateCompany(r) \/ UpdateRecord(r)
  \/ Audit(r) \/ Unlock(r)

Next ==
  \/ \E r \in Requests : Step(r) \/ Crash(r)
  \/ \E d \in Domains : LockExpires(d)
  \/ \E s \in Subs : GoogleActs(s)

Spec == Init /\ [][Next]_vars

(* A thread that runs goes on; time passes for a lock nobody renews.       *)
Fairness == /\ \A r \in Requests : WF_vars(Step(r))
            /\ \A d \in Domains : WF_vars(LockExpires(d))
FairSpec == Spec /\ Fairness
=============================================================================
