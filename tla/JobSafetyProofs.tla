--------------------------- MODULE JobSafetyProofs ---------------------------
(***************************************************************************)
(* The job life cycle for every set of requests, domains, workers and      *)
(* reconcilers and every value of the constants.  First the types, then    *)
(* what each group of actions may change, then three inductive invariants  *)
(* and the properties that follow from them: the safety of settlement, of  *)
(* the domain lock and of the job lease, and one operation per domain,     *)
(* which holds as long as no job outlives its lock while it waits, no live *)
(* worker stops beating, and the hand-over to the queue does not raise.    *)
(***************************************************************************)
EXTENDS JobProperties, FiniteSetTheorems, TLAPS

-----------------------------------------------------------------------------
(* What the updates of the model do to the types.                          *)

LEMMA NaturalOps ==
  ASSUME NEW m \in Nat, NEW n \in Nat
  PROVE  Smaller(m, n) \in Nat /\ Minus(m, n) \in Nat
BY DEF Smaller, Minus

LEMMA RecordTypes ==
  /\ \A r \in JobRecord : r.before \in Nat /\ r.added \in Nat /\ r.reserved \in Nat
  /\ \A r \in ActorRecord : r.current \in Nat /\ r.base \in Nat /\ r.charge \in Nat
  /\ \A r \in ApiRecord : r.seats \in Nat
BY DEF JobRecord, ActorRecord, ApiRecord

LEMMA IdleType == Idle \in ActorRecord /\ Idle.pc = "idle"
BY DEF Idle, ActorRecord, ActorSteps, Provisioning, Settling

LEMMA StepNames ==
  /\ ActorSteps = {"idle", "claim", "stale", "validate", "list", "base", "create", "scale",
                   "note", "finish", "failing", "failed", "settle", "refund", "unlock"}
  /\ Workers \subseteq Actors /\ Reconcilers \subseteq Actors
BY DEF ActorSteps, Provisioning, Settling, Actors

LEMMA ApiStep ==
  ASSUME api \in [Jobs -> ApiRecord], NEW j \in Jobs, NEW p \in ApiSteps, ApiTo(j, p)
  PROVE  api' \in [Jobs -> ApiRecord]
BY DEF ApiTo, ApiRecord

LEMMA ApiPut ==
  ASSUME api \in [Jobs -> ApiRecord], NEW j \in Jobs, NEW p \in ApiSteps, NEW n \in Nat,
         api' = [api EXCEPT ![j] = [pc |-> p, seats |-> n]]
  PROVE  api' \in [Jobs -> ApiRecord]
BY DEF ApiRecord

LEMMA ActorStep ==
  ASSUME ActorType, NEW a \in Actors, actor[a].pc # "idle", NEW p \in ActorSteps, To(a, p)
  PROVE  ActorType'
BY DEF ActorType, ActorRecord, To

LEMMA ActorPut ==
  ASSUME ActorType, NEW a \in Actors, NEW r \in ActorRecord,
         r.pc # "idle" => r.job \in Jobs, actor' = [actor EXCEPT ![a] = r]
  PROVE  ActorType'
BY DEF ActorType

LEMMA ActorBusy ==
  ASSUME ActorType, NEW a \in Actors, actor[a].pc # "idle"
  PROVE  actor[a] \in ActorRecord /\ actor[a].job \in Jobs
BY DEF ActorType

LEMMA JobStatus ==
  ASSUME job \in [Jobs -> JobRecord], NEW j \in Jobs, NEW s \in Statuses, SetStatus(j, s)
  PROVE  job' \in [Jobs -> JobRecord]
BY DEF SetStatus, JobRecord

LEMMA JobPut ==
  ASSUME job \in [Jobs -> JobRecord], NEW j \in Jobs, NEW r \in JobRecord,
         job' = [job EXCEPT ![j] = r]
  PROVE  job' \in [Jobs -> JobRecord]
OBVIOUS

LEMMA ReleaseType ==
  ASSUME lock \in [Domains -> LockRecord], NEW j \in Jobs, ReleaseLock(j)
  PROVE  lock' \in [Domains -> LockRecord]
BY DEF ReleaseLock, LockRecord

LEMMA DoneType ==
  ASSUME ActorType, task \in [Jobs -> {"none", "queued", "gone"}], NEW a \in Actors,
         Done(a)
  PROVE  ActorType' /\ task' \in [Jobs -> {"none", "queued", "gone"}]
BY IdleType, ActorPut DEF Done

-----------------------------------------------------------------------------
(* Every variable keeps its type.                                          *)
THEOREM TypeCorrect == Spec => []TypeOK
<1>1. Init => TypeOK
  <2> SUFFICES ASSUME Init PROVE TypeOK
    OBVIOUS
  <2>1. NoDoc \in JobRecord
    BY DEF NoDoc, JobRecord, Statuses
  <2>2. job \in [Jobs -> JobRecord]
    BY <2>1 DEF Init
  <2>3. ActorType
    BY IdleType DEF Init, ActorType
  <2>4. api \in [Jobs -> ApiRecord] /\ lock \in [Domains -> LockRecord]
    BY DEF Init, ApiRecord, ApiSteps, LockRecord
  <2> QED BY <2>2, <2>3, <2>4, ConstantsAssumption DEF Init, TypeOK
<1>2. TypeOK /\ [Next]_vars => TypeOK'
  <2> SUFFICES ASSUME TypeOK, [Next]_vars PROVE TypeOK'
    OBVIOUS
  <2>1. ASSUME NEW j \in Jobs, Accept(j) PROVE TypeOK'
    <3> DomainOf[j] \in Domains /\ Seats[j] \in Nat /\ CommitCap \in Nat
      BY ConstantsAssumption
    <3> api[j].seats \in Nat /\ used \in Nat
      BY RecordTypes DEF TypeOK
    <3>1. CASE AcquireLock(j)
      BY <3>1, ApiStep DEF TypeOK, ActorType, AcquireLock, ApiSteps, LockRecord
    <3>2. CASE DomainBusy(j)
      BY <3>2, ApiStep DEF TypeOK, ActorType, DomainBusy, ApiSteps
    <3>3. CASE Reserve(j)
      <4>1. api' \in [Jobs -> ApiRecord]
        BY <3>3, ApiPut DEF TypeOK, Reserve, ApiSteps
      <4>2. used' \in Nat
        BY <3>3 DEF Reserve
      <4> QED BY <3>3, <4>1, <4>2 DEF TypeOK, ActorType, Reserve
    <3>4. CASE OverQuota(j)
      BY <3>4, ApiStep DEF TypeOK, ActorType, OverQuota, ApiSteps
    <3>5. CASE AssignPlan(j)
      <4>1. PICK kept \in {api[j].seats, Smaller(api[j].seats, CommitCap)} :
              /\ api' = [api EXCEPT ![j] = [pc |-> "planned", seats |-> kept]]
              /\ used' = Minus(used, api[j].seats - kept)
        BY <3>5 DEF AssignPlan
      <4>2. kept \in Nat /\ api[j].seats - kept \in Nat
        BY DEF Smaller
      <4> QED BY <3>5, <4>1, <4>2, ApiPut, NaturalOps DEF TypeOK, ActorType, AssignPlan, ApiSteps
    <3>6. CASE CreateJob(j)
      <4>1. [NoDoc EXCEPT !.status = "PENDING", !.reserved = api[j].seats] \in JobRecord
        BY DEF NoDoc, JobRecord, Statuses
      <4> QED BY <3>6, <4>1, ApiStep DEF TypeOK, ActorType, CreateJob, ApiSteps
    <3>7. CASE Dispatch(j)
      BY <3>7, ApiStep DEF TypeOK, ActorType, Dispatch, ApiSteps
    <3>8. CASE DispatchRaises(j)
      BY <3>8, ApiStep DEF TypeOK, ActorType, DispatchRaises, ApiSteps
    <3>9. CASE AcceptRaises(j) \/ AcceptEscapes(j)
      BY <3>9, ApiStep DEF TypeOK, ActorType, AcceptRaises, AcceptEscapes, ApiSteps
    <3>10. CASE UndoReservation(j)
      <4>1. api' \in [Jobs -> ApiRecord]
        BY <3>10, ApiPut DEF TypeOK, UndoReservation, ApiSteps
      <4>2. used' \in Nat
        BY <3>10, NaturalOps DEF UndoReservation
      <4>3. closings' \in [Jobs -> Nat]
        BY <3>10 DEF TypeOK, UndoReservation
      <4> QED BY <3>10, <4>1, <4>2, <4>3 DEF TypeOK, ActorType, UndoReservation
    <3>11. CASE UnlockRefused(j)
      BY <3>11, ApiStep, ReleaseType DEF TypeOK, ActorType, UnlockRefused, ApiSteps
    <3> QED BY <2>1, <3>1, <3>2, <3>3, <3>4, <3>5, <3>6, <3>7, <3>8, <3>9, <3>10, <3>11
            DEF Accept
  <2>2. ASSUME NEW w \in Workers, NEW j \in Jobs, Deliver(w, j) PROVE TypeOK'
    <3>1. [Idle EXCEPT !.pc = "claim", !.job = j] \in ActorRecord
      BY StepNames DEF Idle, ActorRecord
    <3>2. [Idle EXCEPT !.pc = "claim", !.job = j].job = j
      BY DEF Idle
    <3> QED BY <2>2, <3>1, <3>2, ActorPut, StepNames DEF TypeOK, Deliver
  <2>3. ASSUME NEW w \in Workers, Work(w) \/ Beat(w) PROVE TypeOK'
    <3> w \in Actors
      BY StepNames
    <3> DEFINE k == actor[w].job
    <3>1. actor[w].pc # "idle"
      BY <2>3 DEF Work, Beat, Running, Provisioning, Claim, ClaimRefused, EnsureCustomer,
        ListSeats, RecordBase, CreateSubscription, ScaleSeats, NoteAdded, Complete,
        StepRaises, MarkFailed, ReadCharge
    <3>2. actor[w] \in ActorRecord /\ k \in Jobs /\ DomainOf[k] \in Domains
      BY <3>1, ActorBusy, ConstantsAssumption DEF TypeOK
    <3>3. /\ job[k] \in JobRecord /\ google[DomainOf[k]] \in Nat
          /\ Target(w) \in Nat /\ actor[w].current \in Nat /\ actor[w].base \in Nat
          /\ job[k].before \in Nat /\ job[k].added \in Nat /\ Batch \in Nat
      BY <3>2, RecordTypes, ConstantsAssumption DEF TypeOK, Target, JobOf
    <3>4. \A p \in ActorSteps, n \in Nat :
            /\ [actor[w] EXCEPT !.pc = p, !.current = n] \in ActorRecord
            /\ [actor[w] EXCEPT !.pc = p, !.current = n].job = k
            /\ [actor[w] EXCEPT !.pc = p, !.base = n] \in ActorRecord
            /\ [actor[w] EXCEPT !.pc = p, !.base = n].job = k
            /\ [actor[w] EXCEPT !.pc = p, !.charge = n] \in ActorRecord
            /\ [actor[w] EXCEPT !.pc = p, !.charge = n].job = k
      BY <3>2 DEF ActorRecord
    <3>5. CASE Claim(w)
      <4>1. [job[k] EXCEPT !.leased = TRUE, !.beat = "live"] \in JobRecord
        BY <3>3 DEF JobRecord
      <4> QED BY <3>1, <3>2, <3>5, <4>1, ActorStep, StepNames DEF TypeOK, Claim
    <3>6. CASE ClaimRefused(w)
      BY <3>6, IdleType, ActorPut DEF TypeOK, ClaimRefused
    <3>7. CASE EnsureCustomer(w)
      BY <3>1, <3>2, <3>7, JobStatus, ActorStep, StepNames
      DEF TypeOK, EnsureCustomer, Statuses
    <3>8. CASE ListSeats(w)
      BY <3>2, <3>3, <3>4, <3>8, ActorPut, StepNames DEF TypeOK, ListSeats, Dom
    <3>9. CASE RecordBase(w)
      <4> DEFINE base == IF JobOf(w).recorded THEN JobOf(w).before ELSE actor[w].current
      <4>1. base \in Nat
        BY <3>3 DEF JobOf
      <4>2. PICK p \in ActorSteps : actor' = [actor EXCEPT ![w] =
                                                [@ EXCEPT !.pc = p, !.base = base]]
        BY <3>9, StepNames DEF RecordBase
      <4>3. [job[k] EXCEPT !.recorded = TRUE, !.before = base] \in JobRecord
        BY <3>3, <4>1 DEF JobRecord
      <4>4. ActorType'
        BY <3>2, <3>4, <4>1, <4>2, ActorPut DEF TypeOK
      <4>5. job' \in [Jobs -> JobRecord]
        BY <3>2, <3>9, <4>3 DEF TypeOK, RecordBase
      <4> QED BY <3>9, <4>4, <4>5 DEF TypeOK, RecordBase
    <3>10. CASE CreateSubscription(w)
      <4>1. PICK now \in Nat, p \in ActorSteps :
              /\ google' = [google EXCEPT ![Dom(w)] = now]
              /\ actor' = [actor EXCEPT ![w] = [@ EXCEPT !.pc = p, !.current = now]]
        BY <3>3, <3>10, NaturalOps, StepNames DEF CreateSubscription, Opened, Answered, Dom
      <4> QED BY <3>2, <3>4, <3>10, <4>1, ActorPut DEF TypeOK, CreateSubscription
    <3>11. CASE ScaleSeats(w)
      <4> DEFINE now == Smaller(actor[w].current + Batch, Target(w))
      <4>1. now \in Nat
        BY <3>3 DEF Smaller
      <4>2. /\ google' = [google EXCEPT ![Dom(w)] = now]
            /\ \E p \in ActorSteps :
                 actor' = [actor EXCEPT ![w] = [@ EXCEPT !.pc = p, !.current = now]]
        BY <3>11, StepNames DEF ScaleSeats, Answered
      <4> QED BY <3>2, <3>4, <3>11, <4>1, <4>2, ActorPut DEF TypeOK, ScaleSeats
    <3>12. CASE NoteAdded(w)
      <4> DEFINE added == Minus(Target(w), actor[w].base)
      <4>1. added \in Nat
        BY <3>3, NaturalOps
      <4>2. [job[k] EXCEPT !.status = "SUBSCRIBED", !.added = added] \in JobRecord
        BY <3>3, <4>1 DEF JobRecord, Statuses
      <4>3. ActorType'
        BY <3>2, <3>4, <3>12, <4>1, ActorPut, StepNames DEF TypeOK, NoteAdded
      <4> QED BY <3>2, <3>12, <4>2, <4>3 DEF TypeOK, NoteAdded
    <3>13. CASE Complete(w)
      BY <3>1, <3>2, <3>13, JobStatus, ActorStep, StepNames DEF TypeOK, Complete, Statuses
    <3>14. CASE StepRaises(w)
      BY <3>1, <3>14, ActorStep, StepNames DEF TypeOK, StepRaises
    <3>15. CASE MarkFailed(w)
      BY <3>1, <3>2, <3>15, JobStatus, ActorStep, StepNames
      DEF TypeOK, MarkFailed, Statuses
    <3>16. CASE ReadCharge(w)
      <4>1. job' = job \/ SetStatus(k, "FAILED")
        BY <3>16 DEF ReadCharge, SetStatus
      <4>2. job' \in [Jobs -> JobRecord]
        BY <3>2, <4>1, JobStatus DEF TypeOK, Statuses
      <4>3. ActorType'
        BY <3>2, <3>3, <3>4, <3>16, ActorPut, StepNames DEF TypeOK, ReadCharge, JobOf
      <4> QED BY <3>16, <4>2, <4>3 DEF TypeOK, ReadCharge
    <3>17. CASE Beat(w)
      <4>1. [job[k] EXCEPT !.beat = "live"] \in JobRecord
        BY <3>3 DEF JobRecord
      <4>2. job' \in [Jobs -> JobRecord]
        BY <3>2, <3>17, <4>1 DEF TypeOK, Beat
      <4>3. lock' \in [Domains -> LockRecord]
        <5>1. \A l \in LockRecord : [l EXCEPT !.live = TRUE] \in LockRecord
          BY DEF LockRecord
        <5> QED BY <3>2, <3>17, <5>1 DEF TypeOK, Beat, Dom
      <4> QED BY <3>17, <4>2, <4>3 DEF TypeOK, Beat, ActorType
    <3> QED BY <2>3, <3>5, <3>6, <3>7, <3>8, <3>9, <3>10, <3>11, <3>12, <3>13, <3>14,
               <3>15, <3>16, <3>17 DEF Work
  <2>4. ASSUME NEW r \in Reconcilers, NEW j \in Jobs, Snapshot(r, j) PROVE TypeOK'
    <3> DEFINE seen == [Idle EXCEPT !.pc = "stale", !.job = j,
                          !.open = job[j].status \notin Terminal, !.charge = job[j].added]
    <3>1. job[j].added \in Nat
      BY RecordTypes DEF TypeOK
    <3>2. seen \in ActorRecord /\ seen.job = j
      BY <3>1, StepNames DEF Idle, ActorRecord
    <3> QED BY <2>4, <3>2, ActorPut, StepNames DEF TypeOK, Snapshot
  <2>5. ASSUME NEW r \in Reconcilers, FailStale(r) PROVE TypeOK'
    <3>1. actor[r].job \in Jobs /\ r \in Actors
      BY <2>5, ActorBusy, StepNames DEF TypeOK, FailStale
    <3>2. job' = job \/ SetStatus(actor[r].job, "FAILED")
      BY <2>5 DEF FailStale, SetStatus
    <3>3. job' \in [Jobs -> JobRecord]
      BY <3>1, <3>2, JobStatus DEF TypeOK, Statuses
    <3> QED BY <2>5, <3>1, <3>3, ActorStep, StepNames DEF TypeOK, FailStale
  <2>6. ASSUME NEW a \in Actors, Settle(a) PROVE TypeOK'
    <3> DEFINE k == actor[a].job
    <3>1. actor[a].pc # "idle"
      BY <2>6 DEF Settle, MarkSettled, AlreadySettled, Refund, RefundRaises, Unlock
    <3>2. k \in Jobs /\ job[k] \in JobRecord /\ actor[a].charge \in Nat
      BY <3>1, ActorBusy, RecordTypes DEF TypeOK
    <3>3. CASE MarkSettled(a)
      <4>1. [job[k] EXCEPT !.settled = TRUE, !.leased = FALSE, !.added = actor[a].charge]
              \in JobRecord
        BY <3>2 DEF JobRecord
      <4>2. job' \in [Jobs -> JobRecord]
        BY <3>2, <3>3, <4>1 DEF TypeOK, MarkSettled
      <4> QED BY <3>1, <3>3, <4>2, ActorStep, StepNames DEF TypeOK, MarkSettled
    <3>4. CASE AlreadySettled(a)
      BY <3>4, DoneType DEF TypeOK, AlreadySettled
    <3>5. CASE Refund(a)
      <4>1. Minus(JobOf(a).reserved, actor[a].charge) \in Nat
        BY <3>2, RecordTypes, NaturalOps DEF JobOf
      <4>2. used' \in Nat /\ closings' \in [Jobs -> Nat]
        <5>1. used' \in Nat
          BY <3>5, <4>1, NaturalOps DEF TypeOK, Refund
        <5>2. closings' \in [Jobs -> Nat]
          BY <3>2, <3>5 DEF TypeOK, Refund
        <5> QED BY <5>1, <5>2
      <4> QED BY <3>1, <3>5, <4>2, ActorStep, StepNames DEF TypeOK, Refund
    <3>6. CASE Unlock(a)
      BY <3>2, <3>6, DoneType, ReleaseType DEF TypeOK, Unlock
    <3>7. CASE RefundRaises(a)
      BY <3>1, <3>7, ActorStep, StepNames DEF TypeOK, RefundRaises
    <3> QED BY <2>6, <3>3, <3>4, <3>5, <3>6, <3>7 DEF Settle
  <2>7. CASE Time
    <3>1. ASSUME NEW j \in Jobs, Lapse(j) \/ GoSilent(j) PROVE TypeOK'
      <4>1. \A b \in {"live", "lapsed", "silent"} : [job[j] EXCEPT !.beat = b] \in JobRecord
        BY DEF TypeOK, JobRecord
      <4>2. job' \in [Jobs -> JobRecord]
        BY <3>1, <4>1 DEF TypeOK, Lapse, GoSilent
      <4> QED BY <3>1, <4>2 DEF TypeOK, Lapse, GoSilent, ActorType
    <3>2. ASSUME NEW d \in Domains, LockExpires(d) PROVE TypeOK'
      <4>1. lock' \in [Domains -> LockRecord]
        BY <3>2 DEF TypeOK, LockExpires, LockRecord
      <4> QED BY <3>2, <4>1 DEF TypeOK, LockExpires, ActorType
    <3> QED BY <2>7, <3>1, <3>2 DEF Time
  <2>8. CASE Crash
    <3> crashes + 1 \in Nat
      BY DEF TypeOK
    <3>1. ASSUME NEW j \in Jobs, CrashApi(j) PROVE TypeOK'
      BY <3>1, ApiStep DEF TypeOK, CrashApi, ApiSteps, ActorType
    <3>2. ASSUME NEW a \in Actors, CrashActor(a) PROVE TypeOK'
      BY <3>2, IdleType, ActorPut DEF TypeOK, CrashActor
    <3>3. CASE CrashServer
      <4>1. \A j \in Jobs : [api[j] EXCEPT !.pc = "dead"] \in ApiRecord
        BY DEF TypeOK, ApiRecord, ApiSteps
      <4>2. api' \in [Jobs -> ApiRecord]
        BY <3>3, <4>1 DEF TypeOK, CrashServer
      <4>3. task' \in [Jobs -> {"none", "queued", "gone"}]
        BY <3>3 DEF TypeOK, CrashServer
      <4>4. ActorType'
        BY <3>3, IdleType DEF CrashServer, ActorType
      <4> QED BY <3>3, <4>2, <4>3, <4>4 DEF TypeOK, CrashServer
    <3> QED BY <2>8, <3>1, <3>2, <3>3 DEF Crash
  <2>9. CASE UNCHANGED vars
    BY <2>9 DEF TypeOK, vars, ActorType
  <2> QED BY <2>1, <2>2, <2>3, <2>4, <2>5, <2>6, <2>7, <2>8, <2>9 DEF Next
<1> QED BY <1>1, <1>2, PTL DEF Spec

-----------------------------------------------------------------------------
(* accept() has not written the job document yet.                          *)
NewSteps == {"start", "locked", "reserved", "planned"}

(* What job documents and threads have to do with each other.              *)
CoreInv ==
  /\ \A j \in Jobs : api[j].pc \in NewSteps => ~Exists(j)
  /\ \A a \in Actors : actor[a].pc \notin {"idle", "claim"} => Exists(actor[a].job)
  /\ \A w \in Workers : Running(w) => JobOf(w).leased \/ JobOf(w).settled
  /\ \A a \in Actors : actor[a].pc \in {"refund", "unlock"} => JobOf(a).settled

(* Nothing that settlement looks at has changed.                           *)
SameBooks ==
  \A j \in Jobs : /\ Exists(j)' <=> Exists(j)
                  /\ job'[j].settled <=> job[j].settled
                  /\ job[j].leased => job'[j].leased

(* a goes on to step p of the same job, alone.                             *)
MovesTo(a, p) ==
  /\ actor'[a].pc = p /\ actor'[a].job = actor[a].job
  /\ \A b \in Actors \ {a} : actor'[b] = actor[b]

-----------------------------------------------------------------------------
LEMMA StatusKeepsBooks ==
  ASSUME TypeOK, NEW k \in Jobs, Exists(k), NEW s \in Statuses \ {"NONE"}, SetStatus(k, s)
  PROVE  SameBooks
BY DEF TypeOK, JobRecord, SetStatus, SameBooks, Exists

LEMMA PutKeepsBooks ==
  ASSUME TypeOK, NEW k \in Jobs, NEW r \in JobRecord, job' = [job EXCEPT ![k] = r],
         (r.status # "NONE") <=> Exists(k), r.settled <=> job[k].settled,
         job[k].leased => r.leased
  PROVE  SameBooks
BY DEF TypeOK, SameBooks, Exists

LEMMA StepMoves ==
  ASSUME TypeOK, NEW a \in Actors, NEW p \in ActorSteps, To(a, p)
  PROVE  MovesTo(a, p)
BY DEF TypeOK, ActorType, ActorRecord, To, MovesTo

LEMMA PutMoves ==
  ASSUME TypeOK, NEW a \in Actors, NEW r, r.job = actor[a].job,
         actor' = [actor EXCEPT ![a] = r]
  PROVE  MovesTo(a, r.pc)
BY DEF TypeOK, ActorType, MovesTo

(* The steps of accept().                                                  *)
LEMMA AcceptStep ==
  ASSUME TypeOK, NEW j \in Jobs, Accept(j)
  PROVE  /\ actor' = actor
         /\ \A i \in Jobs \ {j} : api'[i] = api[i]
         /\ \/ CreateJob(j)
            \/ UndoReservation(j)
            \/ /\ job' = job /\ closings' = closings
               /\ api'[j].pc \in NewSteps => api[j].pc \in NewSteps
               /\ api'[j].pc = "undo" => \/ api[j].pc \in NewSteps
                                         \/ "dispatch" \in Faults
<1> USE DEF TypeOK, ApiRecord, NewSteps
<1>1. CASE AcquireLock(j)
  BY <1>1 DEF AcquireLock, ApiTo
<1>2. CASE DomainBusy(j)
  BY <1>2 DEF DomainBusy, ApiTo
<1>3. CASE Reserve(j)
  BY <1>3 DEF Reserve
<1>4. CASE OverQuota(j)
  BY <1>4 DEF OverQuota, ApiTo
<1>5. CASE AssignPlan(j)
  BY <1>5 DEF AssignPlan
<1>6. CASE CreateJob(j)
  BY <1>6 DEF CreateJob, ApiTo
<1>7. CASE Dispatch(j)
  BY <1>7 DEF Dispatch, ApiTo
<1>8. CASE DispatchRaises(j)
  BY <1>8 DEF DispatchRaises, ApiTo
<1>9. CASE AcceptRaises(j) \/ AcceptEscapes(j)
  BY <1>9 DEF AcceptRaises, AcceptEscapes, ApiTo
<1>10. CASE UndoReservation(j)
  BY <1>10 DEF UndoReservation
<1>11. CASE UnlockRefused(j)
  BY <1>11 DEF UnlockRefused, ApiTo
<1> QED BY <1>1, <1>2, <1>3, <1>4, <1>5, <1>6, <1>7, <1>8, <1>9, <1>10, <1>11 DEF Accept

(* A worker between delivery and settlement moves only itself, and only    *)
(* Claim makes it a runner.                                                *)
LEMMA WorkStep ==
  ASSUME TypeOK, CoreInv, NEW w \in Workers, Work(w) \/ Beat(w)
  PROVE  /\ UNCHANGED <<api, closings>>
         /\ SameBooks
         /\ \/ ClaimRefused(w) /\ actor' = [actor EXCEPT ![w] = Idle]
            \/ /\ actor[w].job \in Jobs /\ Exists(actor[w].job)
               /\ Running(w) \/ (Claim(w) /\ job'[actor[w].job].leased)
               /\ \E p \in Provisioning \cup {"settle"} : MovesTo(w, p)
<1> DEFINE k == actor[w].job
<1> w \in Actors
  BY StepNames
<1>1. CASE ClaimRefused(w)
  BY <1>1 DEF ClaimRefused, SameBooks, Exists
<1>2. CASE Claim(w)
  <2>1. k \in Jobs /\ Exists(k) /\ job[k] \in JobRecord
    BY <1>2, ActorBusy DEF TypeOK, Claim
  <2> DEFINE r == [job[k] EXCEPT !.leased = TRUE, !.beat = "live"]
  <2>2. /\ r \in JobRecord /\ r.leased
        /\ r.status = job[k].status /\ (r.settled <=> job[k].settled)
    BY <2>1 DEF JobRecord
  <2>3. job' = [job EXCEPT ![k] = r]
    BY <1>2 DEF Claim
  <2>4. SameBooks
    BY <2>1, <2>2, <2>3, PutKeepsBooks DEF Exists
  <2>5. job'[k].leased
    BY <2>1, <2>2, <2>3 DEF TypeOK
  <2>6. MovesTo(w, "validate")
    BY <1>2, StepMoves, StepNames DEF Claim
  <2> QED BY <1>2, <2>1, <2>4, <2>5, <2>6 DEF Claim, Provisioning
<1>3. ASSUME Running(w)
      PROVE  /\ k \in Jobs /\ Exists(k) /\ job[k] \in JobRecord
             /\ actor[w] \in ActorRecord
  BY <1>3, ActorBusy DEF TypeOK, CoreInv, Running, Provisioning
<1>4. CASE EnsureCustomer(w)
  <2>1. Running(w)
    BY <1>4 DEF EnsureCustomer, Running, Provisioning
  <2>2. SameBooks
    BY <1>3, <1>4, <2>1, StatusKeepsBooks DEF EnsureCustomer, Statuses
  <2>3. MovesTo(w, "list")
    BY <1>4, StepMoves, StepNames DEF EnsureCustomer
  <2> QED BY <1>3, <1>4, <2>1, <2>2, <2>3 DEF EnsureCustomer, Provisioning
<1>5. CASE ListSeats(w)
  <2>1. Running(w)
    BY <1>5 DEF ListSeats, Running, Provisioning
  <2> DEFINE r == [actor[w] EXCEPT !.pc = "base", !.current = google[Dom(w)]]
  <2>2. r.pc = "base" /\ r.job = k
    BY <1>3, <2>1 DEF ActorRecord
  <2>3. MovesTo(w, r.pc)
    BY <1>5, <2>2, PutMoves DEF ListSeats
  <2>4. SameBooks
    BY <1>5 DEF ListSeats, SameBooks, Exists
  <2> QED BY <1>3, <1>5, <2>1, <2>2, <2>3, <2>4 DEF ListSeats, Provisioning
<1>6. CASE RecordBase(w)
  <2>1. Running(w)
    BY <1>6 DEF RecordBase, Running, Provisioning
  <2> DEFINE base == IF JobOf(w).recorded THEN JobOf(w).before ELSE actor[w].current
             r == [job[k] EXCEPT !.recorded = TRUE, !.before = base]
             s(p) == [actor[w] EXCEPT !.pc = p, !.base = base]
  <2>2. base \in Nat
    BY <1>3, <2>1, RecordTypes DEF JobOf
  <2>3. /\ r \in JobRecord
        /\ r.status = job[k].status /\ (r.settled <=> job[k].settled)
        /\ job[k].leased => r.leased
    BY <1>3, <2>1, <2>2 DEF JobRecord
  <2>4. job' = [job EXCEPT ![k] = r]
    BY <1>6 DEF RecordBase
  <2>5. SameBooks
    BY <1>3, <2>1, <2>3, <2>4, PutKeepsBooks DEF Exists
  <2>6. PICK p \in Provisioning : actor' = [actor EXCEPT ![w] = s(p)]
    BY <1>6 DEF RecordBase, Provisioning
  <2>7. s(p).pc = p /\ s(p).job = k
    BY <1>3, <2>1 DEF ActorRecord
  <2>8. MovesTo(w, s(p).pc)
    BY <2>6, <2>7, PutMoves
  <2> QED BY <1>3, <1>6, <2>1, <2>5, <2>7, <2>8 DEF RecordBase
<1>7. CASE CreateSubscription(w) \/ ScaleSeats(w)
  <2>1. Running(w)
    BY <1>7 DEF CreateSubscription, ScaleSeats, Running, Provisioning
  <2> DEFINE s(p, n) == [actor[w] EXCEPT !.pc = p, !.current = n]
  <2>2. PICK p \in Provisioning : \E n : actor' = [actor EXCEPT ![w] = s(p, n)]
    BY <1>7 DEF CreateSubscription, ScaleSeats, Answered, Provisioning
  <2>2a. PICK n : actor' = [actor EXCEPT ![w] = s(p, n)]
    BY <2>2
  <2>3. s(p, n).pc = p /\ s(p, n).job = k
    BY <1>3, <2>1 DEF ActorRecord
  <2>4. MovesTo(w, s(p, n).pc)
    BY <2>2a, <2>3, PutMoves
  <2>5. SameBooks /\ UNCHANGED <<api, closings>>
    BY <1>7 DEF CreateSubscription, ScaleSeats, SameBooks, Exists
  <2> QED BY <1>3, <2>1, <2>3, <2>4, <2>5
<1>8. CASE NoteAdded(w)
  <2>1. Running(w)
    BY <1>8 DEF NoteAdded, Running, Provisioning
  <2> DEFINE added == Minus(Target(w), actor[w].base)
             r == [job[k] EXCEPT !.status = "SUBSCRIBED", !.added = added]
             s == [actor[w] EXCEPT !.pc = "finish", !.charge = added]
  <2>2. added \in Nat
    BY <1>3, <2>1, RecordTypes, NaturalOps DEF Target, JobOf
  <2>3. /\ r \in JobRecord
        /\ r.status = "SUBSCRIBED" /\ (r.settled <=> job[k].settled)
        /\ job[k].leased => r.leased
    BY <1>3, <2>1, <2>2 DEF JobRecord, Statuses
  <2>4. job' = [job EXCEPT ![k] = r]
    BY <1>8 DEF NoteAdded
  <2>5. SameBooks
    BY <1>3, <2>1, <2>3, <2>4, PutKeepsBooks DEF Exists
  <2>6. s.pc = "finish" /\ s.job = k
    BY <1>3, <2>1 DEF ActorRecord
  <2>7. MovesTo(w, s.pc)
    BY <1>8, <2>6, PutMoves DEF NoteAdded
  <2> QED BY <1>3, <1>8, <2>1, <2>5, <2>6, <2>7 DEF NoteAdded, Provisioning
<1>9. CASE Complete(w)
  <2>1. Running(w)
    BY <1>9 DEF Complete, Running, Provisioning
  <2>2. SameBooks
    BY <1>3, <1>9, <2>1, StatusKeepsBooks DEF Complete, Statuses
  <2>3. MovesTo(w, "settle")
    BY <1>9, StepMoves, StepNames DEF Complete
  <2> QED BY <1>3, <1>9, <2>1, <2>2, <2>3 DEF Complete
<1>10. CASE StepRaises(w)
  <2>1. Running(w)
    BY <1>10 DEF StepRaises, Running
  <2>2. SameBooks
    BY <1>10 DEF StepRaises, SameBooks, Exists
  <2>3. MovesTo(w, "failing")
    BY <1>10, StepMoves, StepNames DEF StepRaises
  <2> QED BY <1>3, <1>10, <2>1, <2>2, <2>3 DEF StepRaises, Provisioning
<1>11. CASE MarkFailed(w)
  <2>1. Running(w)
    BY <1>11 DEF MarkFailed, Running, Provisioning
  <2>2. SameBooks
    BY <1>3, <1>11, <2>1, StatusKeepsBooks DEF MarkFailed, Statuses
  <2>3. MovesTo(w, "failed")
    BY <1>11, StepMoves, StepNames DEF MarkFailed
  <2> QED BY <1>3, <1>11, <2>1, <2>2, <2>3 DEF MarkFailed, Provisioning
<1>12. CASE ReadCharge(w)
  <2>1. Running(w)
    BY <1>12 DEF ReadCharge, Running, Provisioning
  <2>2. job' = job \/ SetStatus(k, "FAILED")
    BY <1>12 DEF ReadCharge, SetStatus
  <2>3. SameBooks
    BY <1>3, <2>1, <2>2, StatusKeepsBooks DEF Statuses, SameBooks, Exists
  <2> DEFINE s == [actor[w] EXCEPT !.pc = "settle", !.charge = JobOf(w).added]
  <2>4. s.pc = "settle" /\ s.job = k
    BY <1>3, <2>1 DEF ActorRecord
  <2>5. MovesTo(w, s.pc)
    BY <1>12, <2>4, PutMoves DEF ReadCharge
  <2> QED BY <1>3, <1>12, <2>1, <2>3, <2>4, <2>5 DEF ReadCharge
<1>13. CASE Beat(w)
  <2>1. Running(w)
    BY <1>13 DEF Beat
  <2> DEFINE r == [job[k] EXCEPT !.beat = "live"]
  <2>2. /\ r \in JobRecord
        /\ r.status = job[k].status /\ (r.settled <=> job[k].settled)
        /\ job[k].leased => r.leased
    BY <1>3, <2>1 DEF JobRecord
  <2>3. job' = [job EXCEPT ![k] = r]
    BY <1>13 DEF Beat
  <2>4. SameBooks
    BY <1>3, <2>1, <2>2, <2>3, PutKeepsBooks DEF Exists
  <2>5. MovesTo(w, actor[w].pc)
    BY <1>13 DEF Beat, MovesTo
  <2> QED BY <1>3, <1>13, <2>1, <2>4, <2>5 DEF Beat, Running
<1> QED BY <1>1, <1>2, <1>3, <1>4, <1>5, <1>6, <1>7, <1>8, <1>9, <1>10, <1>11, <1>12,
           <1>13 DEF Work

-----------------------------------------------------------------------------
(* A quiet step closes no books and writes no job document: requests stay  *)
(* on their side of CreateJob, and a thread keeps its place, drops its     *)
(* job, or takes up work on a job that exists, a runner under its lease.   *)
ActorQuiet(a) ==
  \/ actor'[a].pc \in {"idle", "claim"}
  \/ actor'[a].pc = actor[a].pc /\ actor'[a].job = actor[a].job
  \/ /\ actor'[a].pc \in {"stale", "settle"} \cup Provisioning
     /\ actor'[a].job \in Jobs /\ Exists(actor'[a].job)
     /\ Running(a)' => /\ actor'[a].job = actor[a].job
                       /\ Running(a) \/ (Claim(a) /\ job'[actor[a].job].leased)

RequestQuiet(j) ==
  /\ api'[j].pc \in NewSteps => api[j].pc \in NewSteps
  /\ api'[j].pc = "undo" => api[j].pc \in NewSteps \cup {"undo"} \/ "dispatch" \in Faults

Quiet ==
  /\ SameBooks
  /\ closings' = closings
  /\ \A j \in Jobs : RequestQuiet(j)
  /\ \A a \in Actors : ActorQuiet(a)
  /\ \A a \in Actors : actor[a].pc = "refund" => actor'[a] = actor[a] \/ Crash

LEMMA SameIsQuiet ==
  /\ actor' = actor => \A a \in Actors : ActorQuiet(a)
  /\ api' = api => \A j \in Jobs : RequestQuiet(j)
  /\ job' = job => SameBooks
BY DEF ActorQuiet, RequestQuiet, SameBooks, Exists

LEMMA DropIsQuiet ==
  ASSUME TypeOK, NEW a \in Actors, NEW r \in ActorRecord, r.pc \in {"idle", "claim"},
         actor' = [actor EXCEPT ![a] = r]
  PROVE  \A b \in Actors : ActorQuiet(b) /\ (b # a => actor'[b] = actor[b])
BY DEF TypeOK, ActorType, ActorQuiet

LEMMA MoveIsQuiet ==
  ASSUME NEW a \in Actors, NEW p \in {"stale", "settle"} \cup Provisioning,
         MovesTo(a, p), actor[a].job \in Jobs, Exists(actor[a].job),
         p \in Provisioning => Running(a) \/ (Claim(a) /\ job'[actor[a].job].leased)
  PROVE  /\ \A b \in Actors : ActorQuiet(b)
         /\ \A b \in Actors \ {a} : actor'[b] = actor[b]
BY DEF MovesTo, ActorQuiet, Running, Provisioning

LEMMA TimeIsQuiet == ASSUME TypeOK, Time PROVE Quiet
<1>1. ASSUME NEW j \in Jobs, NEW b \in {"lapsed", "silent"},
             job' = [job EXCEPT ![j].beat = b]
      PROVE  SameBooks
  <2> DEFINE r == [job[j] EXCEPT !.beat = b]
  <2>1. /\ r \in JobRecord
        /\ r.status = job[j].status /\ (r.settled <=> job[j].settled)
        /\ job[j].leased => r.leased
    BY DEF TypeOK, JobRecord
  <2> QED BY <1>1, <2>1, PutKeepsBooks DEF Exists
<1>2. SameBooks
  BY <1>1, SameIsQuiet DEF Time, Lapse, GoSilent, LockExpires
<1>3. UNCHANGED <<api, actor, closings>>
  BY DEF Time, Lapse, GoSilent, LockExpires
<1> QED BY <1>2, <1>3, SameIsQuiet DEF Quiet

LEMMA CrashIsQuiet == ASSUME TypeOK, Crash PROVE Quiet
<1>1. UNCHANGED <<job, closings>>
  BY DEF Crash, CrashApi, CrashActor, CrashServer
<1>2. \A j \in Jobs : RequestQuiet(j)
  <2>1. ASSUME NEW i \in Jobs, CrashApi(i) PROVE \A j \in Jobs : RequestQuiet(j)
    BY <2>1 DEF TypeOK, ApiRecord, CrashApi, ApiTo, RequestQuiet, NewSteps
  <2>2. ASSUME CrashServer PROVE \A j \in Jobs : RequestQuiet(j)
    BY <2>2 DEF TypeOK, ApiRecord, CrashServer, RequestQuiet, NewSteps
  <2> QED BY <2>1, <2>2, SameIsQuiet DEF Crash, CrashActor
<1>3. \A a \in Actors : ActorQuiet(a)
  <2>1. ASSUME NEW b \in Actors, CrashActor(b) PROVE \A a \in Actors : ActorQuiet(a)
    BY <2>1, IdleType, DropIsQuiet DEF CrashActor
  <2>2. ASSUME CrashServer PROVE \A a \in Actors : ActorQuiet(a)
    BY <2>2, IdleType DEF CrashServer, ActorQuiet
  <2> QED BY <2>1, <2>2, SameIsQuiet DEF Crash, CrashApi
<1> QED BY <1>1, <1>2, <1>3, SameIsQuiet DEF Quiet

(* The five loud actions, and quiet steps.                                 *)
LEMMA StepKinds ==
  ASSUME TypeOK, CoreInv, [Next]_vars
  PROVE  \/ Quiet
         \/ \E j \in Jobs : CreateJob(j) \/ UndoReservation(j)
         \/ \E a \in Actors : MarkSettled(a) \/ Refund(a) \/ RefundRaises(a)
<1>1. ASSUME NEW j \in Jobs, Accept(j), ~CreateJob(j), ~UndoReservation(j) PROVE Quiet
  BY <1>1, AcceptStep, SameIsQuiet DEF Quiet, RequestQuiet
<1>2. ASSUME NEW w \in Workers, NEW j \in Jobs, Deliver(w, j) PROVE Quiet
  <2> DEFINE r == [Idle EXCEPT !.pc = "claim", !.job = j]
  <2>1. r \in ActorRecord /\ r.pc = "claim"
    BY StepNames DEF Idle, ActorRecord
  <2>2. \A b \in Actors : ActorQuiet(b) /\ (b # w => actor'[b] = actor[b])
    BY <1>2, <2>1, DropIsQuiet, StepNames DEF Deliver
  <2> QED BY <1>2, <2>2, SameIsQuiet DEF Quiet, Deliver
<1>3. ASSUME NEW w \in Workers, Work(w) \/ Beat(w) PROVE Quiet
  <2> w \in Actors
    BY StepNames
  <2>1. UNCHANGED <<api, closings>> /\ SameBooks
    BY <1>3, WorkStep
  <2>2. CASE ClaimRefused(w) /\ actor' = [actor EXCEPT ![w] = Idle]
    <3>1. \A b \in Actors : ActorQuiet(b) /\ (b # w => actor'[b] = actor[b])
      BY <2>2, IdleType, DropIsQuiet
    <3> QED BY <2>1, <2>2, <3>1, SameIsQuiet DEF Quiet, ClaimRefused
  <2>3. ASSUME actor[w].job \in Jobs, Exists(actor[w].job),
               Running(w) \/ (Claim(w) /\ job'[actor[w].job].leased),
               NEW p \in Provisioning \cup {"settle"}, MovesTo(w, p)
        PROVE  Quiet
    <3>1. \A b \in Actors : ActorQuiet(b) /\ (b # w => actor'[b] = actor[b])
      BY <2>3, MoveIsQuiet
    <3>2. actor[w].pc # "refund"
      BY <2>3 DEF Running, Claim, Provisioning
    <3> QED BY <2>1, <3>1, <3>2, SameIsQuiet DEF Quiet
  <2> QED BY <1>3, <2>2, <2>3, WorkStep
<1>4. ASSUME NEW r \in Reconcilers, NEW j \in Jobs, Snapshot(r, j) PROVE Quiet
  <2> DEFINE seen == [Idle EXCEPT !.pc = "stale", !.job = j,
                        !.open = job[j].status \notin Terminal, !.charge = job[j].added]
  <2>1. seen.pc = "stale" /\ seen.job = j
    BY DEF Idle
  <2>2. actor' = [actor EXCEPT ![r] = seen] /\ r \in Actors
    BY <1>4, StepNames DEF Snapshot
  <2>3. \A b \in Actors : ActorQuiet(b) /\ (b # r => actor'[b] = actor[b])
    BY <1>4, <2>1, <2>2 DEF TypeOK, ActorType, ActorQuiet, Snapshot, Running, Provisioning
  <2> QED BY <1>4, <2>3, SameIsQuiet DEF Quiet, Snapshot
<1>5. ASSUME NEW r \in Reconcilers, FailStale(r) PROVE Quiet
  <2>1. r \in Actors /\ actor[r].job \in Jobs /\ Exists(actor[r].job)
    BY <1>5, ActorBusy, StepNames DEF TypeOK, CoreInv, FailStale
  <2>2. job' = job \/ SetStatus(actor[r].job, "FAILED")
    BY <1>5 DEF FailStale, SetStatus
  <2>3. SameBooks
    BY <2>1, <2>2, StatusKeepsBooks, SameIsQuiet DEF Statuses
  <2>4. MovesTo(r, "settle")
    BY <1>5, <2>1, StepMoves, StepNames DEF FailStale
  <2>5. \A b \in Actors : ActorQuiet(b) /\ (b # r => actor'[b] = actor[b])
    BY <2>1, <2>4, MoveIsQuiet DEF Provisioning
  <2> QED BY <1>5, <2>3, <2>5, SameIsQuiet DEF Quiet, FailStale
<1>6. ASSUME NEW a \in Actors, AlreadySettled(a) \/ Unlock(a) PROVE Quiet
  <2>1. \A b \in Actors : ActorQuiet(b) /\ (b # a => actor'[b] = actor[b])
    BY <1>6, IdleType, DropIsQuiet DEF AlreadySettled, Unlock, Done
  <2> QED BY <1>6, <2>1, SameIsQuiet DEF Quiet, AlreadySettled, Unlock
<1>7. CASE UNCHANGED vars
  BY <1>7, SameIsQuiet DEF Quiet, vars
<1> QED BY <1>1, <1>2, <1>3, <1>4, <1>5, <1>6, <1>7, TimeIsQuiet, CrashIsQuiet
        DEF Next, Settle

-----------------------------------------------------------------------------
(* What the loud actions do.                                               *)
LEMMA LoudSteps ==
  ASSUME TypeOK, CoreInv
  PROVE  /\ \A j \in Jobs : CreateJob(j) =>
              /\ api[j].pc = "planned" /\ api'[j].pc = "created"
              /\ ~Exists(j) /\ Exists(j)' /\ ~job'[j].settled
              /\ \A i \in Jobs \ {j} : api'[i] = api[i] /\ job'[i] = job[i]
              /\ UNCHANGED <<actor, closings>>
         /\ \A j \in Jobs : UndoReservation(j) =>
              /\ api[j].pc = "undo" /\ api'[j].pc = "unlock"
              /\ \A i \in Jobs \ {j} : api'[i] = api[i]
              /\ closings' = [closings EXCEPT ![j] = @ + 1]
              /\ UNCHANGED <<job, actor>>
         /\ \A a \in Actors : MarkSettled(a) =>
              LET k == actor[a].job
              IN /\ k \in Jobs /\ actor[a].pc = "settle" /\ MovesTo(a, "refund")
                 /\ Exists(k) /\ ~job[k].settled /\ job'[k].status # "NONE" /\ job'[k].settled
                 /\ \A i \in Jobs \ {k} : job'[i] = job[i]
                 /\ UNCHANGED <<api, closings>>
         /\ \A a \in Actors : Refund(a) =>
              LET k == actor[a].job
              IN /\ k \in Jobs /\ actor[a].pc = "refund" /\ MovesTo(a, "unlock")
                 /\ closings' = [closings EXCEPT ![k] = @ + 1]
                 /\ UNCHANGED <<api, job>>
         /\ \A a \in Actors : RefundRaises(a) =>
              /\ "refund" \in Faults
              /\ actor[a].job \in Jobs /\ actor[a].pc = "refund" /\ MovesTo(a, "unlock")
              /\ UNCHANGED <<api, job, closings>>
<1>1. ASSUME NEW j \in Jobs, CreateJob(j)
      PROVE  /\ api[j].pc = "planned" /\ api'[j].pc = "created"
             /\ ~Exists(j) /\ Exists(j)' /\ ~job'[j].settled
             /\ \A i \in Jobs \ {j} : api'[i] = api[i] /\ job'[i] = job[i]
             /\ UNCHANGED <<actor, closings>>
  <2>1. api[j].pc = "planned" /\ api'[j].pc = "created" /\ UNCHANGED <<actor, closings>>
    BY <1>1 DEF TypeOK, ApiRecord, CreateJob, ApiTo
  <2>2. \A i \in Jobs \ {j} : api'[i] = api[i] /\ job'[i] = job[i]
    BY <1>1 DEF TypeOK, CreateJob, ApiTo
  <2> DEFINE r == [NoDoc EXCEPT !.status = "PENDING", !.reserved = api[j].seats]
  <2>3. r.status = "PENDING" /\ ~r.settled
    BY DEF NoDoc
  <2>4. job'[j] = r
    BY <1>1 DEF TypeOK, CreateJob
  <2> QED BY <2>1, <2>2, <2>3, <2>4 DEF CoreInv, NewSteps, Exists
<1>2. ASSUME NEW j \in Jobs, UndoReservation(j)
      PROVE  /\ api[j].pc = "undo" /\ api'[j].pc = "unlock"
             /\ \A i \in Jobs \ {j} : api'[i] = api[i]
             /\ closings' = [closings EXCEPT ![j] = @ + 1]
             /\ UNCHANGED <<job, actor>>
  BY <1>2 DEF TypeOK, UndoReservation
<1>3. ASSUME NEW a \in Actors, MarkSettled(a)
      PROVE  LET k == actor[a].job
             IN /\ k \in Jobs /\ actor[a].pc = "settle" /\ MovesTo(a, "refund")
                /\ Exists(k) /\ ~job[k].settled /\ job'[k].status # "NONE" /\ job'[k].settled
                /\ \A i \in Jobs \ {k} : job'[i] = job[i]
                /\ UNCHANGED <<api, closings>>
  <2> DEFINE k == actor[a].job
             r == [job[k] EXCEPT !.settled = TRUE, !.leased = FALSE, !.added = actor[a].charge]
  <2>1. k \in Jobs /\ actor[a].pc = "settle" /\ Exists(k) /\ job[k] \in JobRecord
    BY <1>3, ActorBusy DEF TypeOK, CoreInv, MarkSettled
  <2>2. MovesTo(a, "refund")
    BY <1>3, StepMoves, StepNames DEF MarkSettled
  <2>3. r.status = job[k].status /\ r.settled
    BY <2>1 DEF JobRecord
  <2>4. job' = [job EXCEPT ![k] = r]
    BY <1>3 DEF MarkSettled
  <2>5. job'[k] = r /\ \A i \in Jobs \ {k} : job'[i] = job[i]
    BY <2>1, <2>4 DEF TypeOK
  <2> QED BY <1>3, <2>1, <2>2, <2>3, <2>5 DEF MarkSettled, JobOf, Exists
<1>4. ASSUME NEW a \in Actors, Refund(a)
      PROVE  LET k == actor[a].job
             IN /\ k \in Jobs /\ actor[a].pc = "refund" /\ MovesTo(a, "unlock")
                /\ closings' = [closings EXCEPT ![k] = @ + 1]
                /\ UNCHANGED <<api, job>>
  BY <1>4, ActorBusy, StepMoves, StepNames DEF TypeOK, Refund
<1>5. ASSUME NEW a \in Actors, RefundRaises(a)
      PROVE  /\ "refund" \in Faults
             /\ actor[a].job \in Jobs /\ actor[a].pc = "refund" /\ MovesTo(a, "unlock")
             /\ UNCHANGED <<api, job, closings>>
  BY <1>5, ActorBusy, StepMoves, StepNames DEF TypeOK, RefundRaises
<1> QED BY <1>1, <1>2, <1>3, <1>4, <1>5

LEMMA CoreInductive == TypeOK /\ CoreInv /\ [Next]_vars => CoreInv'
<1> SUFFICES ASSUME TypeOK, CoreInv, [Next]_vars PROVE CoreInv'
  OBVIOUS
<1>0. \A a \in Actors : actor[a].pc # "idle" => actor[a].job \in Jobs
  BY DEF TypeOK, ActorType
<1>1. CASE Quiet
  <2>1. \A j \in Jobs : api'[j].pc \in NewSteps => ~Exists(j)'
    BY <1>1 DEF CoreInv, Quiet, RequestQuiet, SameBooks
  <2>2. \A a \in Actors : actor'[a].pc \notin {"idle", "claim"} => Exists(actor[a].job)'
    BY <1>0, <1>1 DEF CoreInv, Quiet, ActorQuiet, SameBooks
  <2>3. ASSUME NEW w \in Workers, Running(w)'
        PROVE  JobOf(w)'.leased \/ JobOf(w)'.settled
    <3>1. w \in Actors /\ ActorQuiet(w) /\ actor'[w].pc \in Provisioning
      BY <1>1, <2>3, StepNames DEF Quiet, Running
    <3>2. CASE job'[actor'[w].job].leased
      BY <3>2 DEF JobOf
    <3>3. CASE Running(w) /\ actor'[w].job = actor[w].job
      <4>1. actor[w].job \in Jobs
        BY <1>0, <3>1, <3>3 DEF Running, Provisioning
      <4>2. job[actor[w].job].leased \/ job[actor[w].job].settled
        BY <3>3 DEF CoreInv, JobOf
      <4> QED BY <1>1, <3>3, <4>1, <4>2 DEF Quiet, SameBooks, JobOf
    <3> QED BY <2>3, <3>1, <3>2, <3>3 DEF ActorQuiet, Running, Provisioning
  <2>4. ASSUME NEW a \in Actors, actor'[a].pc \in {"refund", "unlock"}
        PROVE  JobOf(a)'.settled
    <3>1. actor'[a].pc = actor[a].pc /\ actor'[a].job = actor[a].job
      BY <1>1, <2>4 DEF Quiet, ActorQuiet, Provisioning
    <3>2. actor[a].job \in Jobs /\ job[actor[a].job].settled
      BY <1>0, <2>4, <3>1 DEF CoreInv, JobOf
    <3> QED BY <1>1, <3>1, <3>2 DEF Quiet, SameBooks, JobOf
  <2> QED BY <2>1, <2>2, <2>3, <2>4 DEF CoreInv
<1>2. ASSUME NEW j \in Jobs, CreateJob(j) PROVE CoreInv'
  <2>1. /\ api'[j].pc = "created" /\ ~Exists(j) /\ Exists(j)' /\ actor' = actor
        /\ \A i \in Jobs \ {j} : api'[i] = api[i] /\ job'[i] = job[i]
    BY <1>2, LoudSteps
  <2>2. \A a \in Actors : actor[a].pc \notin {"idle", "claim"} => actor[a].job \in Jobs \ {j}
    BY <1>0, <2>1 DEF CoreInv
  <2> QED BY <2>1, <2>2, StepNames DEF CoreInv, NewSteps, Exists, Running, Provisioning, JobOf
<1>3. ASSUME NEW j \in Jobs, UndoReservation(j) PROVE CoreInv'
  BY <1>3, LoudSteps DEF CoreInv, NewSteps, Exists, Running, JobOf
<1>4. ASSUME NEW a \in Actors, MarkSettled(a) PROVE CoreInv'
  <2> DEFINE k == actor[a].job
  <2>1. /\ k \in Jobs /\ MovesTo(a, "refund") /\ api' = api
        /\ job'[k].status # "NONE" /\ job'[k].settled /\ \A i \in Jobs \ {k} : job'[i] = job[i]
    BY <1>4, LoudSteps
  <2>2. \A j \in Jobs : Exists(j) => Exists(j)'
    BY <2>1 DEF Exists
  <2>3. \A j \in Jobs : api'[j].pc \in NewSteps => ~Exists(j)'
    BY <1>4, <2>1, LoudSteps DEF CoreInv, Exists
  <2>4. \A b \in Actors : actor'[b].pc \notin {"idle", "claim"} => Exists(actor[b].job)'
    BY <1>0, <2>1, <2>2 DEF CoreInv, MovesTo, Exists
  <2>5. \A w \in Workers : Running(w)' => JobOf(w)'.leased \/ JobOf(w)'.settled
    BY <1>0, <2>1, StepNames DEF CoreInv, MovesTo, Running, Provisioning, JobOf
  <2>6. \A b \in Actors : actor'[b].pc \in {"refund", "unlock"} => JobOf(b)'.settled
    BY <1>0, <2>1 DEF CoreInv, MovesTo, JobOf
  <2> QED BY <2>3, <2>4, <2>5, <2>6 DEF CoreInv
<1>5. ASSUME NEW a \in Actors, Refund(a) \/ RefundRaises(a) PROVE CoreInv'
  BY <1>5, LoudSteps, StepNames DEF CoreInv, MovesTo, Exists, Running, Provisioning, JobOf
<1> QED BY <1>1, <1>2, <1>3, <1>4, <1>5, StepKinds

LEMMA CoreInvariant == Spec => []CoreInv
<1>1. Init => CoreInv
  BY StepNames, IdleType DEF Init, CoreInv, Exists, NoDoc, Running, Provisioning
<1> QED BY <1>1, CoreInductive, TypeCorrect, PTL DEF Spec

-----------------------------------------------------------------------------
(* While the hand-over to the queue does not raise, the books of a request *)
(* are open until accept() itself gives up, before there is a document, or *)
(* until the one thread that flipped the settled flag refunds.             *)
BooksInv ==
  /\ \A j \in Jobs : api[j].pc \in NewSteps \cup {"undo"} => ~Exists(j) /\ closings[j] = 0
  /\ \A j \in Jobs : closings[j] <= 1
  /\ \A j \in Jobs : closings[j] > 0 /\ Exists(j) => job[j].settled
  /\ \A a \in Actors : actor[a].pc = "refund" => closings[actor[a].job] = 0
  /\ \A a, b \in Actors :
       actor[a].pc = "refund" /\ actor[b].pc = "refund" /\ actor[a].job = actor[b].job
         => a = b

LEMMA BooksInductive ==
  "dispatch" \notin Faults /\ TypeOK /\ CoreInv /\ BooksInv /\ [Next]_vars => BooksInv'
<1> SUFFICES ASSUME "dispatch" \notin Faults, TypeOK, CoreInv, BooksInv, [Next]_vars
             PROVE  BooksInv'
  OBVIOUS
<1>0. \A a \in Actors : actor[a].pc = "refund" =>
         actor[a].job \in Jobs /\ Exists(actor[a].job) /\ job[actor[a].job].settled
  BY DEF TypeOK, ActorType, CoreInv, JobOf
<1>1. CASE Quiet
  <2>1. \A j \in Jobs : api'[j].pc \in NewSteps \cup {"undo"} => ~Exists(j)' /\ closings'[j] = 0
    BY <1>1 DEF BooksInv, Quiet, RequestQuiet, SameBooks
  <2>2. \A j \in Jobs : closings'[j] > 0 /\ Exists(j)' => job'[j].settled
    BY <1>1 DEF BooksInv, Quiet, SameBooks
  <2>3. \A a \in Actors : actor'[a].pc = "refund" =>
           actor[a].pc = "refund" /\ actor'[a].job = actor[a].job
    BY <1>1 DEF Quiet, ActorQuiet, Provisioning
  <2> QED BY <1>1, <2>1, <2>2, <2>3 DEF BooksInv, Quiet
<1>2. ASSUME NEW j \in Jobs, CreateJob(j) PROVE BooksInv'
  <2>1. /\ api[j].pc = "planned" /\ api'[j].pc = "created" /\ UNCHANGED <<actor, closings>>
        /\ \A i \in Jobs \ {j} : api'[i] = api[i] /\ job'[i] = job[i]
    BY <1>2, LoudSteps
  <2>2. closings[j] = 0
    BY <2>1 DEF BooksInv, NewSteps
  <2> QED BY <2>1, <2>2 DEF BooksInv, NewSteps, Exists
<1>3. ASSUME NEW j \in Jobs, UndoReservation(j) PROVE BooksInv'
  <2>1. /\ api[j].pc = "undo" /\ api'[j].pc = "unlock" /\ UNCHANGED <<job, actor>>
        /\ \A i \in Jobs \ {j} : api'[i] = api[i]
        /\ closings' = [closings EXCEPT ![j] = @ + 1]
    BY <1>3, LoudSteps
  <2>2. ~Exists(j) /\ closings[j] = 0
    BY <2>1 DEF BooksInv
  <2>3. closings'[j] = 1 /\ \A i \in Jobs \ {j} : closings'[i] = closings[i]
    BY <2>1, <2>2 DEF TypeOK
  <2>4. \A a \in Actors : actor[a].pc = "refund" => actor[a].job \in Jobs \ {j}
    BY <1>0, <2>2
  <2> QED BY <2>1, <2>2, <2>3, <2>4 DEF BooksInv, NewSteps, Exists
<1>4. ASSUME NEW a \in Actors, MarkSettled(a) PROVE BooksInv'
  <2> DEFINE k == actor[a].job
  <2>1. /\ k \in Jobs /\ MovesTo(a, "refund") /\ UNCHANGED <<api, closings>>
        /\ Exists(k) /\ ~job[k].settled /\ job'[k].settled
        /\ \A i \in Jobs \ {k} : job'[i] = job[i]
    BY <1>4, LoudSteps
  <2>2. closings[k] = 0
    BY <2>1 DEF BooksInv, TypeOK
  <2>3. \A b \in Actors \ {a} : actor'[b] = actor[b]
                               /\ (actor[b].pc = "refund" => actor[b].job # k)
    BY <1>0, <2>1 DEF MovesTo
  <2>4. actor'[a].pc = "refund" /\ actor'[a].job = k
    BY <2>1 DEF MovesTo
  <2>5. \A j \in Jobs : api'[j].pc \in NewSteps \cup {"undo"} => ~Exists(j)' /\ closings'[j] = 0
    BY <2>1 DEF BooksInv, Exists
  <2>6. \A j \in Jobs : closings'[j] <= 1 /\ (closings'[j] > 0 /\ Exists(j)' => job'[j].settled)
    BY <2>1 DEF BooksInv, Exists
  <2>7. \A b \in Actors : actor'[b].pc = "refund" => closings'[actor'[b].job] = 0
    BY <2>1, <2>2, <2>3, <2>4 DEF BooksInv
  <2>8. \A b, c \in Actors :
          actor'[b].pc = "refund" /\ actor'[c].pc = "refund" /\ actor'[b].job = actor'[c].job
            => b = c
    BY <2>3, <2>4 DEF BooksInv
  <2> QED BY <2>5, <2>6, <2>7, <2>8 DEF BooksInv
<1>5. ASSUME NEW a \in Actors, Refund(a) PROVE BooksInv'
  <2> DEFINE k == actor[a].job
  <2>1. /\ k \in Jobs /\ actor[a].pc = "refund" /\ MovesTo(a, "unlock")
        /\ closings' = [closings EXCEPT ![k] = @ + 1] /\ UNCHANGED <<api, job>>
    BY <1>5, LoudSteps
  <2>2. Exists(k) /\ job[k].settled /\ closings[k] = 0
    BY <1>0, <2>1 DEF BooksInv
  <2>3. closings'[k] = 1 /\ \A i \in Jobs \ {k} : closings'[i] = closings[i]
    BY <2>1, <2>2 DEF TypeOK
  <2>4. \A b \in Actors : actor'[b].pc = "refund" =>
          b # a /\ actor'[b] = actor[b] /\ actor[b].job \in Jobs \ {k}
    BY <1>0, <2>1 DEF MovesTo, BooksInv
  <2>5. \A j \in Jobs : api'[j].pc \in NewSteps \cup {"undo"} => ~Exists(j)' /\ closings'[j] = 0
    BY <2>1, <2>2, <2>3 DEF BooksInv, Exists
  <2>6. \A j \in Jobs : closings'[j] <= 1 /\ (closings'[j] > 0 /\ Exists(j)' => job'[j].settled)
    BY <2>1, <2>2, <2>3 DEF BooksInv, Exists
  <2>7. \A b \in Actors : actor'[b].pc = "refund" => closings'[actor'[b].job] = 0
    BY <2>3, <2>4 DEF BooksInv
  <2>8. \A b, c \in Actors :
          actor'[b].pc = "refund" /\ actor'[c].pc = "refund" /\ actor'[b].job = actor'[c].job
            => b = c
    BY <2>4 DEF BooksInv
  <2> QED BY <2>5, <2>6, <2>7, <2>8 DEF BooksInv
<1>6. ASSUME NEW a \in Actors, RefundRaises(a) PROVE BooksInv'
  <2>1. \A b \in Actors : actor'[b].pc = "refund" => actor'[b] = actor[b]
    BY <1>6, LoudSteps DEF MovesTo
  <2> QED BY <1>6, <2>1, LoudSteps DEF BooksInv, Exists
<1> QED BY <1>1, <1>2, <1>3, <1>4, <1>5, <1>6, StepKinds

LEMMA BooksInvariant ==
  ASSUME "dispatch" \notin Faults
  PROVE  Spec => []BooksInv
<1>1. Init => BooksInv
  BY IdleType DEF Init, BooksInv, Exists, NoDoc
<1>2. TypeOK /\ CoreInv /\ BooksInv /\ [Next]_vars => BooksInv'
  BY BooksInductive
<1> QED BY <1>1, <1>2, TypeCorrect, CoreInvariant, PTL DEF Spec

(* If the hand-over to the queue cannot raise, no reservation is ever given *)
(* back twice: not by a worker and a reconciler that settle the same job,  *)
(* not by two workers after a takeover, whatever crashes and stalls.       *)
THEOREM RefundedOnce == "dispatch" \notin Faults => (Spec => []NeverRefundedTwice)
<1> SUFFICES ASSUME "dispatch" \notin Faults PROVE Spec => []NeverRefundedTwice
  OBVIOUS
<1>1. Spec => []BooksInv
  BY BooksInvariant
<1>2. BooksInv => NeverRefundedTwice
  BY DEF BooksInv, NeverRefundedTwice
<1> QED BY <1>1, <1>2, PTL

-----------------------------------------------------------------------------
(* Only a job with a document has the settled flag.                        *)
FoundInv == \A j \in Jobs : job[j].settled => Exists(j)

LEMMA FoundInvariant == Spec => []FoundInv
<1>1. Init => FoundInv
  BY DEF Init, FoundInv, NoDoc
<1>2. TypeOK /\ CoreInv /\ FoundInv /\ [Next]_vars => FoundInv'
  <2> SUFFICES ASSUME TypeOK, CoreInv, FoundInv, [Next]_vars, NEW j \in Jobs, job'[j].settled
               PROVE  Exists(j)'
    BY DEF FoundInv
  <2>1. CASE Quiet
    BY <2>1 DEF Quiet, SameBooks, FoundInv
  <2>2. ASSUME NEW i \in Jobs, CreateJob(i) \/ UndoReservation(i) PROVE Exists(j)'
    BY <2>2, LoudSteps DEF FoundInv, Exists
  <2>3. ASSUME NEW a \in Actors, MarkSettled(a) \/ Refund(a) \/ RefundRaises(a)
        PROVE  Exists(j)'
    BY <2>3, LoudSteps DEF FoundInv, Exists
  <2> QED BY <2>1, <2>2, <2>3, StepKinds
<1> QED BY <1>1, <1>2, TypeCorrect, CoreInvariant, PTL DEF Spec

(* A death forsakes one reservation at most, the one whose call or thread  *)
(* died; no other step forsakes any.                                       *)
LEMMA AcceptForsakesNothing ==
  ASSUME TypeOK, CoreInv, FoundInv, "error" \notin Faults, NEW i \in Jobs, Accept(i)
  PROVE  Forsaken' \subseteq Forsaken
<1> SUFFICES ASSUME NEW j \in Jobs, j \in Forsaken' PROVE j \in Forsaken
  BY DEF Forsaken
<1>1. actor' = actor /\ \A k \in Jobs \ {i} : api'[k] = api[k]
  BY AcceptStep
<1>2. CASE CreateJob(i)
  <2>1. j # i
    BY <1>2, LoudSteps DEF Forsaken
  <2> QED BY <1>1, <1>2, <2>1, LoudSteps DEF Forsaken, Exists
<1>3. CASE UndoReservation(i)
  <2>1. closings'[i] > 0 /\ \A k \in Jobs \ {i} : closings'[k] = closings[k]
    BY <1>3 DEF TypeOK, UndoReservation
  <2>2. j # i
    BY <2>1 DEF Forsaken
  <2> QED BY <1>1, <1>3, <2>1, <2>2 DEF UndoReservation, Forsaken, Exists
<1>4. CASE ~CreateJob(i) /\ ~UndoReservation(i)
  <2>1. job' = job /\ closings' = closings
    BY <1>4, AcceptStep
  <2>2. CASE j # i
    BY <1>1, <2>1, <2>2 DEF Forsaken, Exists
  <2>3. CASE j = i
    <3>1. api'[i].pc # "dead"
      <4>1. CASE AssignPlan(i)
        BY <4>1 DEF AssignPlan, TypeOK
      <4>2. CASE Reserve(i)
        BY <4>2 DEF Reserve, TypeOK
      <4>3. ASSUME NEW p \in ApiSteps \ {"dead"}, ApiTo(i, p) PROVE api'[i].pc # "dead"
        BY <4>3 DEF ApiTo, TypeOK, ApiRecord
      <4> QED BY <1>4, <4>1, <4>2, <4>3
              DEF Accept, AcquireLock, DomainBusy, OverQuota, Dispatch, DispatchRaises,
                  AcceptRaises, AcceptEscapes, UnlockRefused, ApiSteps
    <3>2. job[i].settled /\ ~\E a \in Actors : actor[a].job = i /\ actor[a].pc = "refund"
      BY <1>1, <2>1, <2>3, <3>1 DEF Forsaken
    <3>3. api[i].pc \notin NewSteps
      BY <3>2 DEF FoundInv, CoreInv
    <3>4. Dispatch(i) \/ DispatchRaises(i) \/ UnlockRefused(i)
      BY <1>4, <3>3 DEF Accept, AcquireLock, DomainBusy, Reserve, OverQuota, AssignPlan,
         AcceptRaises, AcceptEscapes, NewSteps
    <3>5. api'[i].seats = api[i].seats
      BY <3>4 DEF Dispatch, DispatchRaises, UnlockRefused, ApiTo, TypeOK, ApiRecord
    <3> QED BY <2>1, <2>3, <3>2, <3>5 DEF Forsaken
  <2> QED BY <2>2, <2>3
<1> QED BY <1>2, <1>3, <1>4

LEMMA DeathForsakesOne ==
  ASSUME TypeOK, Durable, Crash
  PROVE  crashes' = crashes + 1 /\ \E k \in Jobs : Forsaken' \subseteq Forsaken \cup {k}
<1>1. crashes' = crashes + 1 /\ UNCHANGED <<job, closings>>
  BY DEF Crash, CrashApi, CrashActor, CrashServer
<1>2. ASSUME NEW k \in Jobs, CrashApi(k) PROVE Forsaken' \subseteq Forsaken \cup {k}
  <2>1. actor' = actor /\ \A j \in Jobs \ {k} : api'[j] = api[j]
    BY <1>2 DEF CrashApi, ApiTo, TypeOK
  <2> QED BY <1>1, <2>1 DEF Forsaken, Exists
<1>3. ASSUME NEW a \in Actors, CrashActor(a)
      PROVE  \E k \in Jobs : Forsaken' \subseteq Forsaken \cup {k}
  <2> DEFINE k == actor[a].job
  <2>1. k \in Jobs
    BY <1>3 DEF CrashActor, TypeOK, ActorType
  <2>2. api' = api /\ \A b \in Actors \ {a} : actor'[b] = actor[b]
    BY <1>3 DEF CrashActor, TypeOK, ActorType
  <2>3. Forsaken' \subseteq Forsaken \cup {k}
    BY <1>1, <2>2 DEF Forsaken, Exists
  <2> QED BY <2>1, <2>3
<1> QED BY <1>1, <1>2, <1>3 DEF Crash, CrashServer

LEMMA LivingForsakeNothing ==
  ASSUME TypeOK, CoreInv, FoundInv, "error" \notin Faults, "refund" \notin Faults,
         [Next]_vars, ~Crash
  PROVE  Forsaken' \subseteq Forsaken
<1>1. CASE Quiet /\ api' = api
  BY <1>1 DEF Quiet, SameBooks, Forsaken
<1>2. ASSUME NEW a \in Actors, MarkSettled(a) PROVE Forsaken' \subseteq Forsaken
  <2> DEFINE k == actor[a].job
  <2>1. /\ k \in Jobs /\ actor[a].pc = "settle" /\ MovesTo(a, "refund")
        /\ \A i \in Jobs \ {k} : job'[i] = job[i]
        /\ UNCHANGED <<api, closings>> /\ job'[k].status # "NONE"
    BY <1>2, LoudSteps
  <2>2. k \notin Forsaken'
    BY <2>1 DEF Forsaken, Exists, MovesTo
  <2> QED BY <2>1, <2>2 DEF Forsaken, Exists, MovesTo
<1>3. ASSUME NEW a \in Actors, Refund(a) PROVE Forsaken' \subseteq Forsaken
  <2> DEFINE k == actor[a].job
  <2>1. /\ k \in Jobs /\ actor[a].pc = "refund" /\ MovesTo(a, "unlock")
        /\ closings' = [closings EXCEPT ![k] = @ + 1] /\ UNCHANGED <<api, job>>
    BY <1>3, LoudSteps
  <2>2. closings'[k] # 0 /\ \A j \in Jobs \ {k} : closings'[j] = closings[j]
    BY <2>1 DEF TypeOK
  <2> QED BY <2>1, <2>2 DEF Forsaken, Exists, MovesTo
<1>4. ~ \E a \in Actors : RefundRaises(a)
  BY DEF RefundRaises
<1>5. (\E j \in Jobs : Accept(j)) \/ api' = api
  BY DEF Next, Deliver, Work, Beat, Claim, ClaimRefused, EnsureCustomer, ListSeats, RecordBase,
     CreateSubscription, ScaleSeats, NoteAdded, Complete, StepRaises, MarkFailed, ReadCharge,
     Snapshot, FailStale, Settle, MarkSettled, AlreadySettled, Refund, RefundRaises, Unlock,
     Time, Lapse, GoSilent, LockExpires, vars
<1> QED BY <1>1, <1>2, <1>3, <1>4, <1>5, StepKinds, AcceptForsakesNothing DEF Accept

(* OneLossPerDeath: however accept(), jobs, redeliveries, takeovers and    *)
(* sweeps interleave, a process death between the settled flag and the     *)
(* refund, or in the middle of accept(), costs the partner that one        *)
(* reservation and never a second one.                                     *)
THEOREM DeathsCostOneEach ==
  ASSUME Durable, "error" \notin Faults, "refund" \notin Faults
  PROVE  Spec => []OneLossPerDeath
<1>1. Init => OneLossPerDeath
  <2> SUFFICES ASSUME Init PROVE OneLossPerDeath
    OBVIOUS
  <2>1. Forsaken = {}
    BY DEF Init, Forsaken
  <2> QED BY <2>1, FS_EmptySet DEF Init, OneLossPerDeath
<1>2. TypeOK /\ CoreInv /\ FoundInv /\ OneLossPerDeath /\ [Next]_vars => OneLossPerDeath'
  <2> SUFFICES ASSUME TypeOK, CoreInv, FoundInv, OneLossPerDeath, [Next]_vars
               PROVE  OneLossPerDeath'
    OBVIOUS
  <2>1. IsFiniteSet(Forsaken) /\ crashes \in Nat
    BY ConstantsAssumption, FS_Subset DEF Forsaken, TypeOK
  <2>2. Cardinality(Forsaken) \in Nat
    BY <2>1, FS_CardinalityType
  <2>3. CASE Crash
    <3>1. crashes' = crashes + 1
      BY <2>3, DeathForsakesOne
    <3>2. PICK k \in Jobs : Forsaken' \subseteq Forsaken \cup {k}
      BY <2>3, DeathForsakesOne
    <3>3. /\ IsFiniteSet(Forsaken \cup {k})
          /\ Cardinality(Forsaken \cup {k}) \in Nat
          /\ Cardinality(Forsaken \cup {k}) <= Cardinality(Forsaken) + 1
      <4>1. /\ IsFiniteSet(Forsaken \cup {k})
            /\ Cardinality(Forsaken \cup {k}) =
                 IF k \in Forsaken THEN Cardinality(Forsaken) ELSE Cardinality(Forsaken) + 1
        BY <2>1, FS_AddElement
      <4> QED BY <2>2, <4>1
    <3>4. /\ Cardinality(Forsaken') <= Cardinality(Forsaken \cup {k})
          /\ Cardinality(Forsaken') \in Nat
      BY <3>2, <3>3, FS_Subset, FS_CardinalityType
    <3> QED BY <2>1, <2>2, <3>1, <3>3, <3>4 DEF OneLossPerDeath
  <2>4. CASE ~Crash
    <3>1. Forsaken' \subseteq Forsaken
      BY <2>4, LivingForsakeNothing
    <3>2. /\ Cardinality(Forsaken') <= Cardinality(Forsaken)
          /\ Cardinality(Forsaken') \in Nat
      BY <2>1, <3>1, FS_Subset, FS_CardinalityType
    <3>3. crashes' = crashes
      BY <2>4 DEF Next, Deliver, Work, Beat, Claim, ClaimRefused, EnsureCustomer, ListSeats,
         RecordBase, CreateSubscription, ScaleSeats, NoteAdded, Complete, StepRaises, MarkFailed,
         ReadCharge, Snapshot, FailStale, Settle, MarkSettled, AlreadySettled, Refund,
         RefundRaises, Unlock, Time, Lapse, GoSilent, LockExpires, vars, Accept, AcquireLock,
         DomainBusy, Reserve, OverQuota, AssignPlan, CreateJob, Dispatch, DispatchRaises,
         AcceptRaises, AcceptEscapes, UndoReservation, UnlockRefused
    <3> QED BY <2>1, <2>2, <3>2, <3>3 DEF OneLossPerDeath
  <2> QED BY <2>3, <2>4
<1>3. Spec => []FoundInv
  BY FoundInvariant
<1> QED BY <1>1, <1>2, <1>3, TypeCorrect, CoreInvariant, PTL DEF Spec

-----------------------------------------------------------------------------
(* Only Claim makes a worker a runner of a job.                            *)
LEMMA NewRunner ==
  ASSUME TypeOK, CoreInv, [Next]_vars, NEW w \in Workers, NEW j \in Jobs,
         w \in RunnersOf(j)', w \notin RunnersOf(j)
  PROVE  Claim(w) /\ actor[w].job = j
<1>1. /\ w \in Actors /\ actor'[w].job = j /\ actor'[w].pc \in Provisioning
      /\ ~(Running(w) /\ actor[w].job = j)
  BY StepNames DEF RunnersOf, Running
<1>2. CASE Quiet
  BY <1>1, <1>2 DEF Quiet, ActorQuiet, Running, Provisioning
<1>3. ASSUME NEW i \in Jobs, CreateJob(i) \/ UndoReservation(i) PROVE FALSE
  BY <1>1, <1>3, LoudSteps DEF Running
<1>4. ASSUME NEW a \in Actors, MarkSettled(a) \/ Refund(a) \/ RefundRaises(a) PROVE FALSE
  BY <1>1, <1>4, LoudSteps DEF MovesTo, Running, Provisioning
<1> QED BY <1>2, <1>3, <1>4, StepKinds

(* A worker joins a running job only when the lease of the one that runs it *)
(* has lapsed: two live workers never provision the same job.              *)
THEOREM LeaseProtectsRunner == Spec => TakeoverOnlyAfterLapse
<1>1. TypeOK /\ CoreInv /\ [Next]_vars =>
        [ \A j \in Jobs :
            RunnersOf(j) # {} /\ ~(RunnersOf(j)' \subseteq RunnersOf(j))
              => job[j].beat # "live" ]_vars
  <2> SUFFICES ASSUME TypeOK, CoreInv, [Next]_vars, NEW j \in Jobs, RunnersOf(j) # {},
                      ~(RunnersOf(j)' \subseteq RunnersOf(j))
               PROVE  job[j].beat # "live"
    OBVIOUS
  <2>1. PICK w \in Workers : w \in RunnersOf(j)' /\ w \notin RunnersOf(j)
    BY DEF RunnersOf
  <2>2. Claim(w) /\ actor[w].job = j
    BY <2>1, NewRunner
  <2>3. ~job[j].settled /\ ~LeaseHeld(j)
    BY <2>2 DEF Claim, JobOf
  <2>4. PICK v \in Workers : Running(v) /\ actor[v].job = j
    BY DEF RunnersOf
  <2>5. job[j].leased
    BY <2>3, <2>4 DEF CoreInv, JobOf
  <2> QED BY <2>3, <2>5 DEF LeaseHeld
<1> QED BY <1>1, TypeCorrect, CoreInvariant, PTL DEF Spec, TakeoverOnlyAfterLapse

(* Nobody releases a live domain lock but the job that holds it, once it is *)
(* over, and nobody overwrites it: late finishers, takeovers, reconcilers  *)
(* and refused requests leave the locks of others alone.                   *)
THEOREM LockIsOwned == Spec => LockNotStolen
<1>1. TypeOK /\ CoreInv /\ [Next]_vars =>
        [ \A d \in Domains :
            lock[d].token # NoJob /\ lock[d].live /\ lock'[d].token # lock[d].token
              => LET j == lock[d].token
                 IN job[j].settled \/ api[j].pc = "unlock" ]_vars
  <2> SUFFICES ASSUME TypeOK, CoreInv, [Next]_vars, NEW d \in Domains, lock[d].live,
                      lock'[d].token # lock[d].token
               PROVE  job[lock[d].token].settled \/ api[lock[d].token].pc = "unlock"
    OBVIOUS
  <2>1. ASSUME NEW j \in Jobs, Accept(j)
        PROVE  job[lock[d].token].settled \/ api[lock[d].token].pc = "unlock"
    <3>1. AcquireLock(j) \/ UnlockRefused(j)
      BY <2>1 DEF Accept, DomainBusy, Reserve, OverQuota, AssignPlan, CreateJob, Dispatch,
        DispatchRaises, AcceptRaises, AcceptEscapes, UndoReservation
    <3>2. DomainOf[j] \in Domains
      BY ConstantsAssumption
    <3>3. CASE AcquireLock(j)
      BY <3>2, <3>3 DEF TypeOK, AcquireLock
    <3>4. CASE UnlockRefused(j)
      BY <3>2, <3>4 DEF TypeOK, UnlockRefused, ReleaseLock
    <3> QED BY <3>1, <3>3, <3>4
  <2>2. ASSUME NEW w \in Workers, Work(w) \/ Beat(w) PROVE FALSE
    <3>1. CASE Beat(w)
      BY <3>1 DEF TypeOK, LockRecord, Beat
    <3>2. CASE Work(w)
      BY <3>2 DEF Work, Claim, ClaimRefused, EnsureCustomer, ListSeats, RecordBase,
        CreateSubscription, ScaleSeats, NoteAdded, Complete, StepRaises, MarkFailed,
        ReadCharge
    <3> QED BY <2>2, <3>1, <3>2
  <2>3. ASSUME NEW a \in Actors, Settle(a)
        PROVE  job[lock[d].token].settled
    <3>1. Unlock(a)
      BY <2>3 DEF Settle, MarkSettled, AlreadySettled, Refund, RefundRaises
    <3>2. actor[a].job \in Jobs /\ job[actor[a].job].settled
      BY <3>1, ActorBusy DEF TypeOK, CoreInv, Unlock, JobOf
    <3>3. DomainOf[actor[a].job] \in Domains
      BY <3>2, ConstantsAssumption
    <3> QED BY <3>1, <3>2, <3>3 DEF TypeOK, Unlock, ReleaseLock
  <2>4. CASE Time
    BY <2>4 DEF TypeOK, LockRecord, Time, Lapse, GoSilent, LockExpires
  <2>5. CASE Crash
    BY <2>5 DEF Crash, CrashApi, CrashActor, CrashServer
  <2> QED BY <2>1, <2>2, <2>3, <2>4, <2>5
          DEF Next, vars, Deliver, Snapshot, FailStale
<1> QED BY <1>1, TypeCorrect, CoreInvariant, PTL DEF Spec, LockNotStolen

-----------------------------------------------------------------------------
(* accept() owns the lock; accept() is taking back what it had.            *)
OwnSteps == {"locked", "reserved", "planned"}
UndoSteps == {"undo", "unlock"}

Open(j) == Exists(j) /\ ~job[j].settled
AtWork(w) == actor[w].pc \in Provisioning \cup {"settle"}

(* A job is worked on by one thread, under a live lease; no sweep has found *)
(* anything.                                                               *)
AtWorkInv ==
  /\ \A r \in Reconcilers : actor[r].pc = "idle"
  /\ \A w \in Workers : AtWork(w) =>
       JobOf(w).leased /\ ~JobOf(w).settled /\ JobOf(w).beat = "live"
  /\ \A v, w \in Workers :
       AtWork(v) /\ AtWork(w) /\ actor[v].job = actor[w].job => v = w

(* A request has a live lock from its lock to the end of its job; one that *)
(* is taken back has written no document.                                  *)
ExclInv ==
  /\ \A j \in Jobs : api[j].pc \in OwnSteps \/ Open(j) => HoldsLiveLock(j)
  /\ \A j \in Jobs : api[j].pc \in UndoSteps => ~Exists(j)
  /\ \A j \in Jobs : Open(j) => job[j].beat # "silent"
  /\ AtWorkInv

-----------------------------------------------------------------------------
LEMMA RolesDiffer == \A w \in Workers, r \in Reconcilers : w # r
BY ConstantsAssumption

LEMMA BeatPut ==
  ASSUME TypeOK, NEW k \in Jobs, NEW r, job' = [job EXCEPT ![k] = r],
         r.beat \in {job[k].beat, "live"}
  PROVE  \A j \in Jobs : job'[j].beat \in {job[j].beat, "live"}
BY DEF TypeOK

LEMMA StatusKeepsBeat ==
  ASSUME TypeOK, NEW k \in Jobs, NEW s, SetStatus(k, s)
  PROVE  \A j \in Jobs : job'[j].beat = job[j].beat
BY DEF TypeOK, JobRecord, SetStatus

(* A worker before settlement takes no lock from anybody, and writes no    *)
(* heartbeat but the present one.                                          *)
LEMMA WorkKeeps ==
  ASSUME TypeOK, CoreInv, NEW w \in Workers, Work(w) \/ Beat(w)
  PROVE  /\ \A j \in Jobs : HoldsLiveLock(j) => HoldsLiveLock(j)'
         /\ \A j \in Jobs : job'[j].beat \in {job[j].beat, "live"}
         /\ Claim(w) => job'[actor[w].job].beat = "live"
<1> DEFINE k == actor[w].job
<1>1. CASE Beat(w)
  <2>1. k \in Jobs /\ job[k] \in JobRecord
    BY <1>1, StepNames, ActorBusy DEF TypeOK, Beat, Running, Provisioning
  <2> DEFINE r == [job[k] EXCEPT !.beat = "live"]
  <2>2. r.beat = "live"
    BY <2>1 DEF JobRecord
  <2>3. job' = [job EXCEPT ![k] = r]
    BY <1>1 DEF Beat
  <2>4. \A j \in Jobs : job'[j].beat \in {job[j].beat, "live"}
    BY <2>1, <2>2, <2>3, BeatPut
  <2>5. \A j \in Jobs : HoldsLiveLock(j) => HoldsLiveLock(j)'
    BY <1>1, ConstantsAssumption DEF Beat, HoldsLiveLock, TypeOK, LockRecord
  <2> QED BY <1>1, <2>4, <2>5 DEF Beat, Claim, Running, Provisioning
<1>2. ASSUME Work(w) PROVE \A j \in Jobs : HoldsLiveLock(j) => HoldsLiveLock(j)'
  BY <1>2 DEF Work, Claim, ClaimRefused, EnsureCustomer, ListSeats, RecordBase,
     CreateSubscription, ScaleSeats, NoteAdded, Complete, StepRaises, MarkFailed,
     ReadCharge, HoldsLiveLock
<1>3. ASSUME actor[w].pc # "idle" PROVE k \in Jobs /\ job[k] \in JobRecord
  BY <1>3, StepNames, ActorBusy DEF TypeOK
<1>4. CASE Claim(w)
  <2>1. k \in Jobs /\ job[k] \in JobRecord
    BY <1>3, <1>4 DEF Claim
  <2> DEFINE r == [job[k] EXCEPT !.leased = TRUE, !.beat = "live"]
  <2>2. r.beat = "live"
    BY <2>1 DEF JobRecord
  <2>3. job' = [job EXCEPT ![k] = r]
    BY <1>4 DEF Claim
  <2>4. job'[k].beat = "live"
    BY <2>1, <2>2, <2>3 DEF TypeOK
  <2> QED BY <1>2, <1>4, <2>1, <2>2, <2>3, <2>4, BeatPut DEF Work
<1>5. CASE RecordBase(w)
  <2>1. k \in Jobs /\ job[k] \in JobRecord
    BY <1>3, <1>5 DEF RecordBase
  <2> DEFINE base == IF JobOf(w).recorded THEN JobOf(w).before ELSE actor[w].current
             r == [job[k] EXCEPT !.recorded = TRUE, !.before = base]
  <2>2. r.beat = job[k].beat
    BY <2>1 DEF JobRecord
  <2>3. job' = [job EXCEPT ![k] = r]
    BY <1>5 DEF RecordBase
  <2>4. \A j \in Jobs : job'[j].beat \in {job[j].beat, "live"}
    BY <2>1, <2>2, <2>3, BeatPut
  <2> QED BY <1>2, <1>5, <2>4 DEF Work, RecordBase, Claim
<1>6. CASE NoteAdded(w)
  <2>1. k \in Jobs /\ job[k] \in JobRecord
    BY <1>3, <1>6 DEF NoteAdded
  <2> DEFINE added == Minus(Target(w), actor[w].base)
             r == [job[k] EXCEPT !.status = "SUBSCRIBED", !.added = added]
  <2>2. r.beat = job[k].beat
    BY <2>1 DEF JobRecord
  <2>3. job' = [job EXCEPT ![k] = r]
    BY <1>6 DEF NoteAdded
  <2>4. \A j \in Jobs : job'[j].beat \in {job[j].beat, "live"}
    BY <2>1, <2>2, <2>3, BeatPut
  <2> QED BY <1>2, <1>6, <2>4 DEF Work, NoteAdded, Claim
<1>7. CASE EnsureCustomer(w) \/ Complete(w) \/ MarkFailed(w) \/ ReadCharge(w)
  <2>1. k \in Jobs
    BY <1>3, <1>7 DEF EnsureCustomer, Complete, MarkFailed, ReadCharge
  <2>2. job' = job \/ \E s \in Statuses : SetStatus(k, s)
    BY <1>7 DEF EnsureCustomer, Complete, MarkFailed, ReadCharge, SetStatus, Statuses
  <2>3. \A j \in Jobs : job'[j].beat \in {job[j].beat, "live"}
    BY <2>1, <2>2, StatusKeepsBeat
  <2> QED BY <1>2, <1>7, <2>3
          DEF Work, EnsureCustomer, Complete, MarkFailed, ReadCharge, Claim
<1>8. CASE ClaimRefused(w) \/ ListSeats(w) \/ CreateSubscription(w) \/ ScaleSeats(w)
           \/ StepRaises(w)
  <2>1. job' = job /\ ~Claim(w)
    BY <1>8 DEF ClaimRefused, ListSeats, CreateSubscription, ScaleSeats, StepRaises, Claim,
       Provisioning, LeaseHeld, Exists
  <2> QED BY <1>2, <1>8, <2>1 DEF Work
<1> QED BY <1>1, <1>4, <1>5, <1>6, <1>7, <1>8 DEF Work

-----------------------------------------------------------------------------
(* No job outlives its lock unattended, no live worker stops beating, and  *)
(* the hand-over does not raise.                                           *)
Calm == "late" \notin Faults /\ "stall" \notin Faults /\ "dispatch" \notin Faults

LEMMA ExclWork ==
  ASSUME TypeOK, CoreInv, ExclInv, NEW w \in Workers, Work(w) \/ Beat(w)
  PROVE  ExclInv'
<1> DEFINE k == actor[w].job
<1>1. w \in Actors
  BY StepNames
<1>2. /\ api' = api /\ SameBooks
      /\ \A j \in Jobs : HoldsLiveLock(j) => HoldsLiveLock(j)'
      /\ \A j \in Jobs : job'[j].beat \in {job[j].beat, "live"}
  BY WorkStep, WorkKeeps
<1>3. /\ \A j \in Jobs : Open(j)' <=> Open(j)
      /\ \A j \in Jobs : (api[j].pc \in OwnSteps \/ Open(j) => HoldsLiveLock(j))'
      /\ \A j \in Jobs : (api[j].pc \in UndoSteps => ~Exists(j))'
      /\ \A j \in Jobs : (Open(j) => job[j].beat # "silent")'
  BY <1>2 DEF ExclInv, AtWorkInv, Open, SameBooks
<1>4. \A b \in Actors \ {w} : actor'[b] = actor[b]
  BY <1>1, WorkStep DEF MovesTo, TypeOK, ActorType
<1>5. \A r \in Reconcilers : actor'[r].pc = "idle"
  BY <1>4, RolesDiffer DEF ExclInv, AtWorkInv, Actors
<1>6. AtWork(w)' => /\ k \in Jobs /\ actor'[w].job = k
                    /\ AtWork(w) \/ (Claim(w) /\ job'[k].leased)
  BY <1>1, WorkStep, IdleType
     DEF MovesTo, TypeOK, ActorType, AtWork, Running, Provisioning
<1>7. \A v \in Workers : AtWork(v) => actor[v].job \in Jobs
  BY StepNames DEF TypeOK, ActorType, AtWork, Provisioning
<1>8. \A v \in Workers : (AtWork(v) => JobOf(v).leased /\ ~JobOf(v).settled
                                       /\ JobOf(v).beat = "live")'
  <2>1. AtWork(w)' => job'[k].leased /\ ~job'[k].settled /\ job'[k].beat = "live"
    BY <1>2, <1>6, WorkKeeps DEF ExclInv, AtWorkInv, SameBooks, JobOf, Claim
  <2>2. ASSUME NEW v \in Workers, v # w, AtWork(v)'
        PROVE  (JobOf(v).leased /\ ~JobOf(v).settled /\ JobOf(v).beat = "live")'
    <3>1. actor'[v] = actor[v] /\ AtWork(v)
      BY <1>4, <2>2, StepNames DEF AtWork
    <3> QED BY <1>2, <1>7, <3>1 DEF ExclInv, AtWorkInv, SameBooks, JobOf
  <2> QED BY <1>6, <2>1, <2>2 DEF JobOf
<1>9. ASSUME NEW v \in Workers, v # w, AtWork(v)', AtWork(w)', actor'[v].job = actor'[w].job
      PROVE  FALSE
  <2>1. actor'[v] = actor[v] /\ AtWork(v)
    BY <1>4, <1>9, StepNames DEF AtWork
  <2>2. ~AtWork(w)
    BY <1>6, <1>9, <2>1 DEF ExclInv, AtWorkInv
  <2> QED BY <1>6, <1>9, <2>1, <2>2 DEF ExclInv, AtWorkInv, Claim, LeaseHeld, JobOf
<1>10. \A v, u \in Workers : (AtWork(v) /\ AtWork(u) /\ actor[v].job = actor[u].job => v = u)'
  <2>1. ASSUME NEW v \in Workers, NEW u \in Workers, v # w, u # w,
               AtWork(v)', AtWork(u)', actor'[v].job = actor'[u].job
        PROVE  v = u
    <3>1. actor'[v] = actor[v] /\ actor'[u] = actor[u]
      BY <1>4, <2>1, StepNames
    <3> QED BY <2>1, <3>1 DEF ExclInv, AtWorkInv, AtWork
  <2> QED BY <1>9, <2>1
<1> QED BY <1>3, <1>5, <1>8, <1>10 DEF ExclInv, AtWorkInv

-----------------------------------------------------------------------------
(* That holds on if threads keep their places or leave their work, and the *)
(* documents of those that keep at it are as they were.                    *)
LEMMA AtWorkKept ==
  ASSUME AtWorkInv,
         \A r \in Reconcilers : actor'[r].pc = "idle",
         \A w \in Workers : AtWork(w)' =>
           /\ AtWork(w) /\ actor'[w].job = actor[w].job
           /\ job'[actor[w].job].leased = job[actor[w].job].leased
           /\ job'[actor[w].job].settled = job[actor[w].job].settled
           /\ job'[actor[w].job].beat = job[actor[w].job].beat
  PROVE  AtWorkInv'
BY DEF AtWorkInv, JobOf

(* accept(): the lock is taken when it is free, passed on to the job with  *)
(* its document, and given back only by a request that has no document.    *)
LEMMA ExclAccept ==
  ASSUME Calm, TypeOK, CoreInv, ExclInv, NEW j \in Jobs, Accept(j)
  PROVE  ExclInv'
<1> USE DEF TypeOK, ApiRecord, LockRecord, OwnSteps, UndoSteps
<1>1. actor' = actor /\ \A i \in Jobs \ {j} : api'[i] = api[i]
  BY AcceptStep
<1>2. CASE CreateJob(j)
  <2> DEFINE r == [NoDoc EXCEPT !.status = "PENDING", !.reserved = api[j].seats]
  <2>1. r.status = "PENDING" /\ r.settled = FALSE /\ r.beat = "live"
    BY DEF NoDoc
  <2>2. job' = [job EXCEPT ![j] = r]
    BY <1>2 DEF CreateJob
  <2> HIDE DEF r
  <2>3. /\ api[j].pc = "planned" /\ api'[j].pc = "created" /\ lock' = lock /\ ~Exists(j)
        /\ job'[j] = r /\ \A i \in Jobs \ {j} : job'[i] = job[i]
    BY <1>2, <2>2 DEF CreateJob, ApiTo, CoreInv, NewSteps
  <2>4. \A i \in Jobs : (api[i].pc \in OwnSteps \/ Open(i) => HoldsLiveLock(i))'
    BY <1>1, <2>1, <2>3 DEF ExclInv, Open, Exists, HoldsLiveLock
  <2>5. \A i \in Jobs : (api[i].pc \in UndoSteps => ~Exists(i))'
    BY <1>1, <2>1, <2>3 DEF ExclInv, Exists
  <2>6. \A i \in Jobs : (Open(i) => job[i].beat # "silent")'
    BY <1>1, <2>1, <2>3 DEF ExclInv, Open, Exists
  <2>7. \A w \in Workers : AtWork(w) => actor[w].job \in Jobs \ {j}
    BY <2>3, StepNames DEF ActorType, CoreInv, AtWork, Provisioning
  <2>8. AtWorkInv'
    BY <1>1, <2>3, <2>7, AtWorkKept DEF ExclInv, AtWorkInv, AtWork
  <2> QED BY <2>4, <2>5, <2>6, <2>8 DEF ExclInv
<1>3. ASSUME job' = job,
             \A i \in Jobs : (api[i].pc \in OwnSteps \/ Open(i) => HoldsLiveLock(i))',
             api'[j].pc \in UndoSteps => ~Exists(j)
      PROVE  ExclInv'
  BY <1>1, <1>3 DEF ExclInv, AtWorkInv, Open, Exists, JobOf, AtWork
<1>4. CASE AcquireLock(j)
  <2>1. job' = job /\ api'[j].pc = "locked" /\ ~Exists(j)
    BY <1>4 DEF AcquireLock, ApiTo, CoreInv, NewSteps
  <2>2. /\ lock'[DomainOf[j]] = [token |-> j, live |-> TRUE]
        /\ \A d \in Domains \ {DomainOf[j]} : lock'[d] = lock[d]
        /\ ~lock[DomainOf[j]].live
    BY <1>4, ConstantsAssumption DEF AcquireLock
  <2>3. HoldsLiveLock(j)' /\ \A i \in Jobs : HoldsLiveLock(i) => HoldsLiveLock(i)'
    BY <2>2, ConstantsAssumption DEF HoldsLiveLock
  <2> QED BY <1>1, <1>3, <2>1, <2>3 DEF ExclInv, Open, Exists
<1>5. CASE UnlockRefused(j)
  <2>1. job' = job /\ ~Exists(j) /\ api'[j].pc = "refused"
    BY <1>5 DEF UnlockRefused, ApiTo, ExclInv
  <2>2. \A i \in Jobs \ {j} : HoldsLiveLock(i) => HoldsLiveLock(i)'
    BY <1>5, ConstantsAssumption DEF UnlockRefused, ReleaseLock, HoldsLiveLock
  <2> QED BY <1>1, <1>3, <2>1, <2>2 DEF ExclInv, Open, Exists
<1>6. ASSUME UNCHANGED <<job, lock>>,
             api'[j].pc \in OwnSteps => api[j].pc \in OwnSteps,
             api'[j].pc \in UndoSteps => api[j].pc \in OwnSteps \cup UndoSteps
      PROVE  ExclInv'
  <2>1. api'[j].pc \in UndoSteps => ~Exists(j)
    BY <1>6 DEF ExclInv, CoreInv, NewSteps
  <2>2. \A i \in Jobs : (api[i].pc \in OwnSteps \/ Open(i) => HoldsLiveLock(i))'
    BY <1>1, <1>6 DEF ExclInv, Open, Exists, HoldsLiveLock
  <2> QED BY <1>3, <1>6, <2>1, <2>2
<1>7. CASE DomainBusy(j) \/ Reserve(j) \/ OverQuota(j)
  BY <1>6, <1>7 DEF DomainBusy, Reserve, OverQuota, ApiTo
<1>8. CASE AssignPlan(j) \/ Dispatch(j) \/ AcceptRaises(j) \/ AcceptEscapes(j)
  BY <1>6, <1>8 DEF AssignPlan, Dispatch, AcceptRaises, AcceptEscapes, ApiTo
<1>9. CASE UndoReservation(j)
  BY <1>6, <1>9 DEF UndoReservation
<1> QED BY <1>2, <1>4, <1>5, <1>7, <1>8, <1>9 DEF Accept, Calm, DispatchRaises

(* settle(), by a worker: the job's lock goes when the job is settled.     *)
LEMMA ExclSettle ==
  ASSUME TypeOK, CoreInv, ExclInv, NEW a \in Actors, Settle(a)
  PROVE  ExclInv'
<1> DEFINE k == actor[a].job
<1>1. actor[a].pc \in {"settle", "refund", "unlock"}
  BY DEF Settle, MarkSettled, AlreadySettled, Refund, RefundRaises, Unlock
<1>2. /\ a \in Workers /\ k \in Jobs /\ Exists(k)
      /\ job[k] \in JobRecord /\ api'= api
  BY <1>1, ActorBusy DEF Settle, MarkSettled, AlreadySettled, Refund, RefundRaises, Unlock,
     ExclInv, AtWorkInv, Actors, TypeOK, CoreInv
<1>3. /\ ~AtWork(a)'
      /\ \A b \in Actors \ {a} : actor'[b] = actor[b]
  <2>1. CASE MarkSettled(a) \/ Refund(a) \/ RefundRaises(a)
    <3>1. \E p \in {"refund", "unlock"} : MovesTo(a, p)
      BY <2>1, StepMoves, StepNames DEF MarkSettled, Refund, RefundRaises
    <3> QED BY <3>1 DEF MovesTo, AtWork, Provisioning
  <2>2. CASE AlreadySettled(a) \/ Unlock(a)
    BY <2>2 DEF AlreadySettled, Unlock, Done, Idle, TypeOK, ActorType, AtWork, Provisioning
  <2> QED BY <2>1, <2>2 DEF Settle
<1>4. \A r \in Reconcilers : actor'[r].pc = "idle"
  BY <1>2, <1>3, RolesDiffer DEF ExclInv, AtWorkInv, Actors
<1>5. \A w \in Workers : AtWork(w)' => AtWork(w) /\ actor'[w].job = actor[w].job
  BY <1>3, StepNames DEF AtWork
<1>6. CASE MarkSettled(a)
  <2> DEFINE r == [job[k] EXCEPT !.settled = TRUE, !.leased = FALSE, !.added = actor[a].charge]
  <2>1. r.settled = TRUE /\ r.status = job[k].status
    BY <1>2 DEF JobRecord
  <2>2. job' = [job EXCEPT ![k] = r]
    BY <1>6 DEF MarkSettled
  <2> HIDE DEF r
  <2>3. job'[k] = r /\ \A i \in Jobs \ {k} : job'[i] = job[i]
    BY <1>2, <2>2 DEF TypeOK
  <2>4. AtWork(a) /\ lock' = lock
    BY <1>6 DEF MarkSettled, AtWork
  <2>5. \A w \in Workers : AtWork(w)' => actor[w].job \in Jobs \ {k}
    BY <1>2, <1>3, <1>5, <2>4, StepNames
       DEF ExclInv, AtWorkInv, TypeOK, ActorType, AtWork, Provisioning
  <2>6. AtWorkInv'
    BY <1>4, <1>5, <2>3, <2>5, AtWorkKept DEF ExclInv
  <2>7. \A i \in Jobs : Exists(i)' = Exists(i) /\ (Open(i)' => i # k /\ Open(i))
    BY <2>1, <2>3 DEF Open, Exists
  <2>8. \A i \in Jobs : HoldsLiveLock(i)' = HoldsLiveLock(i)
    BY <2>4 DEF HoldsLiveLock
  <2> QED BY <1>2, <2>3, <2>6, <2>7, <2>8 DEF ExclInv
<1>7. ASSUME job' = job, \A i \in Jobs \ {k} : HoldsLiveLock(i) => HoldsLiveLock(i)',
             ~Open(k) \/ lock' = lock
      PROVE  ExclInv'
  <2>1. AtWorkInv'
    BY <1>4, <1>5, <1>7, AtWorkKept DEF ExclInv
  <2>2. api[k].pc \notin OwnSteps
    BY <1>2 DEF CoreInv, NewSteps, OwnSteps
  <2> QED BY <1>2, <1>7, <2>1, <2>2 DEF ExclInv, Open, Exists, HoldsLiveLock
<1>8. CASE AlreadySettled(a) \/ Refund(a) \/ RefundRaises(a)
  BY <1>7, <1>8 DEF AlreadySettled, Refund, RefundRaises, HoldsLiveLock
<1>9. CASE Unlock(a)
  <2>1. ~Open(k) /\ job' = job
    BY <1>9 DEF Unlock, CoreInv, JobOf, Open
  <2>2. \A i \in Jobs \ {k} : HoldsLiveLock(i) => HoldsLiveLock(i)'
    BY <1>2, <1>9, ConstantsAssumption
       DEF Unlock, ReleaseLock, HoldsLiveLock, TypeOK, LockRecord
  <2> QED BY <1>7, <2>1, <2>2
<1> QED BY <1>6, <1>8, <1>9 DEF Settle

(* Deliveries and deaths take no lock and write no document.               *)
LEMMA ExclDrop ==
  ASSUME TypeOK, ExclInv, UNCHANGED <<job, lock>>,
         \A a \in Actors : actor'[a] = actor[a] \/ actor'[a].pc \in {"idle", "claim"},
         \A r \in Reconcilers : actor'[r] = actor[r] \/ actor'[r].pc = "idle",
         \A j \in Jobs : api'[j].pc = api[j].pc \/ api'[j].pc = "dead"
  PROVE  ExclInv'
<1>1. \A w \in Workers : AtWork(w)' => AtWork(w) /\ actor'[w].job = actor[w].job
  BY StepNames DEF AtWork, Provisioning
<1>2. AtWorkInv'
  BY <1>1, AtWorkKept DEF ExclInv, AtWorkInv
<1> QED BY <1>2 DEF ExclInv, Open, Exists, HoldsLiveLock, OwnSteps, UndoSteps

LEMMA ExclCrash ==
  ASSUME TypeOK, ExclInv, Crash
  PROVE  ExclInv'
<1>1. CASE \E j \in Jobs : CrashApi(j)
  BY <1>1, ExclDrop DEF CrashApi, ApiTo, TypeOK, ApiRecord
<1>2. CASE \E a \in Actors : CrashActor(a)
  BY <1>2, IdleType, ExclDrop, StepNames DEF CrashActor, TypeOK, ActorType
<1>3. CASE CrashServer
  BY <1>3, IdleType, ExclDrop, StepNames DEF CrashServer, TypeOK, ApiRecord
<1> QED BY <1>1, <1>2, <1>3 DEF Crash

(* Time: no lease ends under a worker, no lock under a request or a job    *)
(* that is not settled, and so no such job falls silent.                   *)
LEMMA ExclTime ==
  ASSUME Calm, TypeOK, ExclInv, Time
  PROVE  ExclInv'
<1>1. ASSUME NEW j \in Jobs, NEW b \in {"lapsed", "silent"}, Unattended(j),
             job' = [job EXCEPT ![j].beat = b], b = "silent" => ~Open(j),
             UNCHANGED <<api, lock, actor>>
      PROVE  ExclInv'
  <2> DEFINE r == [job[j] EXCEPT !.beat = b]
  <2>1. r.status = job[j].status /\ (r.settled <=> job[j].settled) /\ r.beat = b
    BY DEF TypeOK, JobRecord
  <2>2. job'[j] = r /\ \A i \in Jobs \ {j} : job'[i] = job[i]
    BY <1>1 DEF TypeOK
  <2> HIDE DEF r
  <2>3. \A w \in Workers : AtWork(w) => actor[w].job \in Jobs \ {j}
    BY <1>1, StepNames
       DEF Calm, Unattended, AtWork, Settling, Provisioning, TypeOK, ActorType
  <2>4. AtWorkInv'
    BY <1>1, <2>2, <2>3, AtWorkKept DEF ExclInv, AtWorkInv, AtWork
  <2>5. \A i \in Jobs : Exists(i)' = Exists(i) /\ Open(i)' = Open(i)
    BY <2>1, <2>2 DEF Open, Exists
  <2>6. \A i \in Jobs : (Open(i) => job[i].beat # "silent")'
    BY <1>1, <2>1, <2>2, <2>5 DEF ExclInv
  <2> QED BY <1>1, <2>4, <2>5, <2>6 DEF ExclInv, HoldsLiveLock
<1>2. CASE \E j \in Jobs : Lapse(j)
  BY <1>1, <1>2 DEF Lapse
<1>3. CASE \E j \in Jobs : GoSilent(j)
  BY <1>1, <1>3 DEF GoSilent, ExclInv
<1>4. CASE \E d \in Domains : LockExpires(d)
  <2>1. PICK d \in Domains : LockExpires(d)
    BY <1>4
  <2>2. UNCHANGED <<api, job, actor>>
    BY <2>1 DEF LockExpires
  <2>3. \A j \in Jobs : DomainOf[j] = d /\ HoldsLiveLock(j) =>
          ~Open(j) /\ api[j].pc \notin OwnSteps
    BY <2>1 DEF LockExpires, HoldsLiveLock, Open, Calm, OwnSteps, InAccept
  <2>4. \A j \in Jobs : DomainOf[j] # d => HoldsLiveLock(j)' = HoldsLiveLock(j)
    BY <2>1, ConstantsAssumption DEF LockExpires, HoldsLiveLock, TypeOK, LockRecord
  <2>5. \A j \in Jobs : (api[j].pc \in OwnSteps \/ Open(j) => HoldsLiveLock(j))'
    BY <2>2, <2>3, <2>4 DEF ExclInv, Open, Exists
  <2> QED BY <2>2, <2>5 DEF ExclInv, AtWorkInv, AtWork, JobOf, Open, Exists
<1> QED BY <1>2, <1>3, <1>4 DEF Time

-----------------------------------------------------------------------------
LEMMA ExclInductive ==
  ASSUME Calm, TypeOK, CoreInv, ExclInv, [Next]_vars
  PROVE  ExclInv'
<1>1. CASE \E w \in Workers, j \in Jobs : Deliver(w, j)
  BY <1>1, RolesDiffer, StepNames, ExclDrop DEF Deliver, Idle, TypeOK, ActorType, Actors
<1>2. CASE \E r \in Reconcilers : FailStale(r) \/ \E j \in Jobs : Snapshot(r, j)
  BY <1>2 DEF FailStale, Snapshot, ExclInv, AtWorkInv, Open
<1>3. CASE UNCHANGED vars
  BY <1>3, ExclDrop DEF vars
<1> QED BY <1>1, <1>2, <1>3, ExclWork, ExclAccept, ExclSettle, ExclTime, ExclCrash DEF Next

LEMMA ExclInvariant ==
  ASSUME Calm
  PROVE  Spec => []ExclInv
<1>1. Init => ExclInv
  BY StepNames DEF Init, Idle, NoDoc, ExclInv, AtWorkInv, Open, Exists, AtWork, Provisioning,
     OwnSteps, UndoSteps
<1>2. TypeOK /\ CoreInv /\ ExclInv /\ [Next]_vars => ExclInv'
  BY ExclInductive
<1> QED BY <1>1, <1>2, TypeCorrect, CoreInvariant, PTL DEF Spec

(* OneOperationPerDomain ("only one operation per domain at a time"): the  *)
(* workers that are busy with a domain at one time are busy with one job,  *)
(* whatever else fails or dies, if locks outlive the waiting of their jobs, *)
(* live workers beat, and the hand-over to the queue does not raise.       *)
THEOREM DomainHasOneJob ==
  ASSUME "late" \notin Faults, "stall" \notin Faults, "dispatch" \notin Faults
  PROVE  Spec => []OneOperationPerDomain
<1>1. Spec => []ExclInv
  BY ExclInvariant DEF Calm
<1>2. TypeOK /\ CoreInv /\ ExclInv => OneOperationPerDomain
  <2> SUFFICES ASSUME TypeOK, CoreInv, ExclInv, NEW v \in Workers, NEW w \in Workers,
                      Running(v), Running(w), Dom(v) = Dom(w)
               PROVE  actor[v].job = actor[w].job
    BY DEF OneOperationPerDomain
  <2>1. \A u \in {v, w} : actor[u].job \in Jobs /\ Open(actor[u].job)
    BY StepNames DEF Running, AtWork, Provisioning, TypeOK, ActorType, CoreInv, ExclInv,
       AtWorkInv, JobOf, Open
  <2> QED BY <2>1 DEF ExclInv, HoldsLiveLock, Dom
<1> QED BY <1>1, <1>2, TypeCorrect, CoreInvariant, PTL
=============================================================================
