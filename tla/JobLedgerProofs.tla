--------------------------- MODULE JobLedgerProofs ---------------------------
(***************************************************************************)
(* The partner's books, for every set of requests, domains and workers:    *)
(* the counter is the sum of what the requests hold, the life cycle        *)
(* implements the ledger, and a job is charged what its domain gained.     *)
(***************************************************************************)
EXTENDS JobSafetyProofs, Sums

Held == [j \in Jobs |-> HeldBy(j)]

(* A request without a document has an empty one; one with a document has  *)
(* reserved what it holds; whoever refunds refunds what is on the record;  *)
(* and the counter is the sum of what the requests hold.                   *)
Account(j) ==
  /\ ~Exists(j) => job[j] = NoDoc
  /\ api[j].pc \in {"start", "locked"} => api[j].seats = 0 /\ closings[j] = 0
  /\ api[j].pc \in {"reserved", "planned", "created", "undo"} => api[j].seats > 0
  /\ Exists(j) => api[j].seats > 0 /\ job[j].reserved = api[j].seats

AccountsInv ==
  /\ \A j \in Jobs : Account(j)
  /\ \A a \in Actors : actor[a].pc = "refund" => actor[a].charge = JobOf(a).added
  /\ used = SumFunctionOnSet(Held, Jobs)

-----------------------------------------------------------------------------
(* What job j has added at Google, according to its document.              *)
Gained(j) ==
  IF job[j].settled THEN job[j].added
    ELSE IF job[j].recorded THEN google[DomainOf[j]] - job[j].before ELSE 0

(* What a worker remembers of Google is true while it works.               *)
Informed(w) ==
  LET now == google[Dom(w)] IN
  /\ actor[w].pc = "base" => actor[w].current = now
  /\ actor[w].pc \in {"create", "scale", "note", "finish"} =>
       JobOf(w).recorded /\ actor[w].base = JobOf(w).before /\ actor[w].current = now
  /\ actor[w].pc = "create" => now = 0
  /\ actor[w].pc = "scale" => now < Target(w)
  /\ actor[w].pc \in {"note", "finish"} => now = Target(w)
  /\ actor[w].pc = "finish" =>
       JobOf(w).added = Gained(actor[w].job) /\ actor[w].charge = Gained(actor[w].job)
  /\ actor[w].pc = "failed" => JobOf(w).status = "FAILED"
  /\ actor[w].pc = "settle" /\ JobOf(w).status = "COMPLETED" =>
       JobOf(w).recorded /\ actor[w].charge = Gained(actor[w].job)

Sole(j) == \A k \in Jobs \ {j} : DomainOf[k] # DomainOf[j]

JobSales(j) ==
  LET now == google[DomainOf[j]]
      held == InitialSeats[DomainOf[j]]
  IN /\ Open(j) /\ job[j].recorded =>
          job[j].before <= now /\ (now = job[j].before \/ now <= job[j].reserved)
     /\ Sole(j) =>
          /\ job[j].recorded => job[j].before = held
          /\ ~job[j].recorded => now = held
          /\ job[j].settled /\ job[j].status = "COMPLETED" => job[j].added = now - held

SalesInv ==
  /\ \A d \in Domains : InitialSeats[d] <= google[d]
  /\ \A w \in Workers : AtWork(w) => Informed(w)
  /\ \A j \in Jobs : JobSales(j)

-----------------------------------------------------------------------------
(* No attempt fails between a sale and the note of it.                     *)
Candid == "halfDone" \notin Faults /\ (MaxCrashes = 0 \/ "error" \notin Faults)

Late == {"create", "scale", "note", "finish", "failing", "failed", "settle"}

(* Without crashes, the attempt that recorded seats_before is still on.    *)
BegunInv ==
  MaxCrashes = 0 =>
    \A j \in Jobs :
      Open(j) /\ job[j].recorded =>
        \E w \in Workers : actor[w].job = j /\ actor[w].pc \in Late

(* What is written down as added has been sold, in full.                   *)
JobCandid(j) ==
  LET now == google[DomainOf[j]] IN
  /\ Open(j) /\ job[j].added # 0 =>
       job[j].recorded /\ job[j].added = Gained(j) /\ now = job[j].reserved
  /\ job[j].settled => job[j].added <= job[j].reserved
  /\ Sole(j) /\ job[j].settled => job[j].added = now - InitialSeats[DomainOf[j]]

WorkerCandid(w) ==
  /\ actor[w].pc \in {"failing", "failed"} => JobOf(w).added = Gained(actor[w].job)
  /\ actor[w].pc = "settle" => actor[w].charge = Gained(actor[w].job)

(* What Google has sold for a domain beyond what it held before.           *)
Sold == [d \in Domains |-> google[d] - InitialSeats[d]]
Gains == [j \in Jobs |-> Gained(j)]

CandidInv ==
  /\ \A j \in Jobs : JobCandid(j)
  /\ \A w \in Workers : WorkerCandid(w)
  /\ SumFunctionOnSet(Sold, Domains) = SumFunctionOnSet(Gains, Jobs)

-----------------------------------------------------------------------------
(* What the steps of a worker do to the job document and to the thread.    *)
Becomes(w, status, recorded, before, added) ==
  LET k == actor[w].job IN
  /\ job'[k].status = status /\ job'[k].recorded = recorded
  /\ job'[k].before = before /\ job'[k].added = added
  /\ job'[k].reserved = job[k].reserved /\ job'[k].settled = job[k].settled
  /\ \A j \in Jobs \ {k} : job'[j] = job[j]

Turns(w, pc, current, base, charge) ==
  /\ actor'[w].pc = pc /\ actor'[w].job = actor[w].job
  /\ actor'[w].current = current /\ actor'[w].base = base /\ actor'[w].charge = charge
  /\ \A b \in Actors \ {w} : actor'[b] = actor[b]

Stays(w) ==
  Becomes(w, JobOf(w).status, JobOf(w).recorded, JobOf(w).before, JobOf(w).added)

SetsStatus(w, s) ==
  Becomes(w, s, JobOf(w).recorded, JobOf(w).before, JobOf(w).added)

Goes(w, pc) == Turns(w, pc, actor[w].current, actor[w].base, actor[w].charge)

LEMMA DocPut ==
  ASSUME TypeOK, NEW w \in Workers, actor[w].job \in Jobs, NEW r,
         job' = [job EXCEPT ![actor[w].job] = r],
         r.reserved = JobOf(w).reserved, r.settled = JobOf(w).settled
  PROVE  Becomes(w, r.status, r.recorded, r.before, r.added)
BY DEF TypeOK, Becomes, JobOf

LEMMA StatusPut ==
  ASSUME TypeOK, NEW w \in Workers, actor[w].job \in Jobs, NEW s,
         SetStatus(actor[w].job, s)
  PROVE  SetsStatus(w, s)
<1> DEFINE r == [job[actor[w].job] EXCEPT !.status = s]
<1>1. /\ r.reserved = JobOf(w).reserved /\ r.settled = JobOf(w).settled /\ r.status = s
      /\ r.recorded = JobOf(w).recorded /\ r.before = JobOf(w).before
      /\ r.added = JobOf(w).added
  BY DEF TypeOK, JobRecord, JobOf
<1>2. job' = [job EXCEPT ![actor[w].job] = r]
  BY DEF SetStatus
<1> QED BY <1>1, <1>2, DocPut DEF SetsStatus

LEMMA NoPut ==
  ASSUME TypeOK, NEW w \in Workers, actor[w].job \in Jobs, job' = job
  PROVE  Stays(w)
BY DEF Stays, Becomes, JobOf

LEMMA ThreadPut ==
  ASSUME TypeOK, NEW w \in Workers, NEW r, r.job = actor[w].job,
         actor' = [actor EXCEPT ![w] = r]
  PROVE  Turns(w, r.pc, r.current, r.base, r.charge)
BY StepNames DEF TypeOK, ActorType, Turns

LEMMA ThreadTo ==
  ASSUME TypeOK, NEW w \in Workers, actor[w].pc # "idle", NEW p, To(w, p)
  PROVE  Goes(w, p)
<1> DEFINE r == [actor[w] EXCEPT !.pc = p]
<1>1. /\ r.pc = p /\ r.job = actor[w].job /\ r.current = actor[w].current
      /\ r.base = actor[w].base /\ r.charge = actor[w].charge
  BY StepNames, ActorBusy DEF TypeOK, ActorRecord
<1>2. actor' = [actor EXCEPT ![w] = r]
  BY DEF To
<1> QED BY <1>1, <1>2, ThreadPut DEF Goes

(* The steps that leave Google alone.                                      *)
LEMMA ClaimDoes ==
  ASSUME TypeOK, NEW w \in Workers, Claim(w)
  PROVE  /\ actor[w].pc = "claim" /\ Stays(w) /\ Goes(w, "validate")
         /\ UNCHANGED <<api, used, google, closings>>
<1> DEFINE k == actor[w].job
<1>1. actor[w].pc = "claim" /\ k \in Jobs
  BY StepNames, ActorBusy DEF TypeOK, Claim
<1> DEFINE r == [job[k] EXCEPT !.leased = TRUE, !.beat = "live"]
<1>2. /\ r.reserved = JobOf(w).reserved /\ r.settled = JobOf(w).settled
      /\ r.status = JobOf(w).status /\ r.recorded = JobOf(w).recorded
      /\ r.before = JobOf(w).before /\ r.added = JobOf(w).added
  BY <1>1 DEF TypeOK, JobRecord, JobOf
<1>3. job' = [job EXCEPT ![k] = r]
  BY DEF Claim
<1>4. Stays(w)
  BY <1>1, <1>2, <1>3, DocPut DEF Stays
<1>5. Goes(w, "validate")
  BY <1>1, ThreadTo DEF Claim
<1> QED BY <1>1, <1>4, <1>5 DEF Claim

LEMMA BeatDoes ==
  ASSUME TypeOK, NEW w \in Workers, Beat(w)
  PROVE  Stays(w) /\ actor[w].job \in Jobs /\ UNCHANGED <<api, used, google, closings, actor>>
<1> DEFINE k == actor[w].job
           r == [job[k] EXCEPT !.beat = "live"]
<1>1. k \in Jobs
  BY StepNames, ActorBusy DEF TypeOK, Beat, Running, Provisioning
<1>2. /\ r.reserved = JobOf(w).reserved /\ r.settled = JobOf(w).settled
      /\ r.status = JobOf(w).status /\ r.recorded = JobOf(w).recorded
      /\ r.before = JobOf(w).before /\ r.added = JobOf(w).added
  BY <1>1 DEF TypeOK, JobRecord, JobOf
<1>3. job' = [job EXCEPT ![k] = r]
  BY DEF Beat
<1>4. Stays(w)
  BY <1>1, <1>2, <1>3, DocPut DEF Stays
<1> QED BY <1>1, <1>4 DEF Beat

LEMMA PlainDoes ==
  ASSUME TypeOK, NEW w \in Workers
  PROVE  /\ EnsureCustomer(w) => /\ actor[w].pc = "validate" /\ SetsStatus(w, "RUNNING")
                                 /\ Goes(w, "list")
                                 /\ UNCHANGED <<api, used, google, closings>>
         /\ ListSeats(w) => /\ actor[w].pc = "list" /\ Stays(w)
                            /\ Turns(w, "base", google[Dom(w)], actor[w].base, actor[w].charge)
                            /\ UNCHANGED <<api, used, google, closings>>
         /\ Complete(w) => /\ actor[w].pc = "finish" /\ SetsStatus(w, "COMPLETED")
                           /\ Goes(w, "settle")
                           /\ UNCHANGED <<api, used, google, closings>>
         /\ StepRaises(w) => /\ actor[w].pc \in Provisioning \ {"failing", "failed"}
                             /\ Stays(w) /\ Goes(w, "failing")
                             /\ UNCHANGED <<api, used, google, closings>>
         /\ MarkFailed(w) => /\ actor[w].pc = "failing" /\ SetsStatus(w, "FAILED")
                             /\ Goes(w, "failed")
                             /\ UNCHANGED <<api, used, google, closings>>
<1> DEFINE k == actor[w].job
<1>1. actor[w].pc # "idle" => k \in Jobs /\ actor[w] \in ActorRecord
  BY StepNames, ActorBusy DEF TypeOK
<1>2. ASSUME EnsureCustomer(w)
      PROVE  /\ actor[w].pc = "validate" /\ SetsStatus(w, "RUNNING") /\ Goes(w, "list")
             /\ UNCHANGED <<api, used, google, closings>>
  BY <1>1, <1>2, StatusPut, ThreadTo DEF EnsureCustomer
<1>3. ASSUME ListSeats(w)
      PROVE  /\ actor[w].pc = "list" /\ Stays(w)
             /\ Turns(w, "base", google[Dom(w)], actor[w].base, actor[w].charge)
             /\ UNCHANGED <<api, used, google, closings>>
  <2> DEFINE r == [actor[w] EXCEPT !.pc = "base", !.current = google[Dom(w)]]
  <2>1. /\ r.pc = "base" /\ r.job = k /\ r.current = google[Dom(w)]
        /\ r.base = actor[w].base /\ r.charge = actor[w].charge
    BY <1>1, <1>3 DEF ActorRecord, ListSeats
  <2>2. actor' = [actor EXCEPT ![w] = r]
    BY <1>3 DEF ListSeats
  <2>3. Turns(w, "base", google[Dom(w)], actor[w].base, actor[w].charge)
    BY <2>1, <2>2, ThreadPut
  <2> QED BY <1>1, <1>3, <2>3, NoPut DEF ListSeats
<1>4. ASSUME Complete(w)
      PROVE  /\ actor[w].pc = "finish" /\ SetsStatus(w, "COMPLETED") /\ Goes(w, "settle")
             /\ UNCHANGED <<api, used, google, closings>>
  BY <1>1, <1>4, StatusPut, ThreadTo DEF Complete
<1>5. ASSUME StepRaises(w)
      PROVE  /\ actor[w].pc \in Provisioning \ {"failing", "failed"}
             /\ Stays(w) /\ Goes(w, "failing")
             /\ UNCHANGED <<api, used, google, closings>>
  BY <1>1, <1>5, StepNames, NoPut, ThreadTo DEF StepRaises, Provisioning
<1>6. ASSUME MarkFailed(w)
      PROVE  /\ actor[w].pc = "failing" /\ SetsStatus(w, "FAILED") /\ Goes(w, "failed")
             /\ UNCHANGED <<api, used, google, closings>>
  BY <1>1, <1>6, StatusPut, ThreadTo DEF MarkFailed
<1> QED BY <1>2, <1>3, <1>4, <1>5, <1>6

LEMMA BaseDoes ==
  ASSUME TypeOK, NEW w \in Workers, RecordBase(w)
  PROVE  LET now  == actor[w].current
             base == IF JobOf(w).recorded THEN JobOf(w).before ELSE now
             next == IF now > Target(w) THEN "failing"
                     ELSE IF now = 0 THEN "create"
                     ELSE IF now < Target(w) THEN "scale" ELSE "note"
         IN /\ actor[w].pc = "base"
            /\ Becomes(w, JobOf(w).status, TRUE, base, JobOf(w).added)
            /\ Turns(w, next, now, base, actor[w].charge)
            /\ UNCHANGED <<api, used, google, closings>>
<1> DEFINE k == actor[w].job
           now  == actor[w].current
           base == IF JobOf(w).recorded THEN JobOf(w).before ELSE now
           next == IF now > Target(w) THEN "failing"
                   ELSE IF now = 0 THEN "create"
                   ELSE IF now < Target(w) THEN "scale" ELSE "note"
           r == [job[k] EXCEPT !.recorded = TRUE, !.before = base]
           s == [actor[w] EXCEPT !.pc = next, !.base = base]
<1>1. actor[w].pc = "base" /\ k \in Jobs /\ actor[w] \in ActorRecord
  BY StepNames, ActorBusy DEF TypeOK, RecordBase
<1>2. actor' = [actor EXCEPT ![w] = s] /\ job' = [job EXCEPT ![k] = r]
      /\ UNCHANGED <<api, used, google, closings>>
  BY DEF RecordBase
<1> HIDE DEF next, base
<1>3. /\ r.reserved = JobOf(w).reserved /\ r.settled = JobOf(w).settled
      /\ r.status = JobOf(w).status /\ r.recorded = TRUE
      /\ r.before = base /\ r.added = JobOf(w).added
  BY <1>1 DEF TypeOK, JobRecord, JobOf
<1>4. /\ s.pc = next /\ s.job = k /\ s.current = now /\ s.base = base
      /\ s.charge = actor[w].charge
  BY <1>1 DEF ActorRecord
<1>5. Becomes(w, JobOf(w).status, TRUE, base, JobOf(w).added)
  BY <1>1, <1>2, <1>3, DocPut
<1>6. Turns(w, next, now, base, actor[w].charge)
  BY <1>2, <1>4, ThreadPut
<1> QED BY <1>1, <1>2, <1>5, <1>6 DEF next, base

LEMMA NoteDoes ==
  ASSUME TypeOK, NEW w \in Workers, NoteAdded(w)
  PROVE  LET added == Minus(Target(w), actor[w].base) IN
         /\ actor[w].pc = "note"
         /\ Becomes(w, "SUBSCRIBED", JobOf(w).recorded, JobOf(w).before, added)
         /\ Turns(w, "finish", actor[w].current, actor[w].base, added)
         /\ UNCHANGED <<api, used, google, closings>>
<1> DEFINE k == actor[w].job
           added == Minus(Target(w), actor[w].base)
           r == [job[k] EXCEPT !.status = "SUBSCRIBED", !.added = added]
           s == [actor[w] EXCEPT !.pc = "finish", !.charge = added]
<1>1. actor[w].pc = "note" /\ k \in Jobs /\ actor[w] \in ActorRecord
  BY StepNames, ActorBusy DEF TypeOK, NoteAdded
<1>2. actor' = [actor EXCEPT ![w] = s] /\ job' = [job EXCEPT ![k] = r]
      /\ UNCHANGED <<api, used, google, closings>>
  BY DEF NoteAdded
<1> HIDE DEF added
<1>3. /\ r.reserved = JobOf(w).reserved /\ r.settled = JobOf(w).settled
      /\ r.status = "SUBSCRIBED" /\ r.recorded = JobOf(w).recorded
      /\ r.before = JobOf(w).before /\ r.added = added
  BY <1>1 DEF TypeOK, JobRecord, JobOf
<1>4. /\ s.pc = "finish" /\ s.job = k /\ s.current = actor[w].current
      /\ s.base = actor[w].base /\ s.charge = added
  BY <1>1 DEF ActorRecord
<1>5. Becomes(w, "SUBSCRIBED", JobOf(w).recorded, JobOf(w).before, added)
  BY <1>1, <1>2, <1>3, DocPut
<1>6. Turns(w, "finish", actor[w].current, actor[w].base, added)
  BY <1>2, <1>4, ThreadPut
<1> QED BY <1>1, <1>2, <1>5, <1>6 DEF added

LEMMA ChargeDoes ==
  ASSUME TypeOK, NEW w \in Workers, ReadCharge(w)
  PROVE  /\ actor[w].pc = "failed"
         /\ SetsStatus(w, IF JobOf(w).status \in Terminal THEN JobOf(w).status ELSE "FAILED")
         /\ Turns(w, "settle", actor[w].current, actor[w].base, JobOf(w).added)
         /\ UNCHANGED <<api, used, google, closings>>
<1> DEFINE k == actor[w].job
           s == [actor[w] EXCEPT !.pc = "settle", !.charge = JobOf(w).added]
<1>1. actor[w].pc = "failed" /\ k \in Jobs /\ actor[w] \in ActorRecord
  BY StepNames, ActorBusy DEF TypeOK, ReadCharge
<1>2. /\ s.pc = "settle" /\ s.job = k /\ s.current = actor[w].current
      /\ s.base = actor[w].base /\ s.charge = JobOf(w).added
  BY <1>1 DEF ActorRecord
<1>3. actor' = [actor EXCEPT ![w] = s]
  BY DEF ReadCharge
<1>4. Turns(w, "settle", actor[w].current, actor[w].base, JobOf(w).added)
  BY <1>2, <1>3, ThreadPut
<1>5. CASE JobOf(w).status \in Terminal
  <2>1. job' = job
    BY <1>5 DEF ReadCharge
  <2> QED BY <1>1, <1>4, <1>5, <2>1, NoPut DEF ReadCharge, Stays, SetsStatus
<1>6. CASE JobOf(w).status \notin Terminal
  <2>1. SetStatus(k, "FAILED")
    BY <1>6 DEF ReadCharge, SetStatus
  <2> QED BY <1>1, <1>4, <1>6, <2>1, StatusPut DEF ReadCharge
<1> QED BY <1>5, <1>6

(* The two steps that change the seats at Google.                          *)
LEMMA SaleDoes ==
  ASSUME TypeOK, NEW w \in Workers, CreateSubscription(w) \/ ScaleSeats(w)
  PROVE  \E now \in Nat, pc \in Provisioning :
           /\ actor[w].job \in Jobs /\ Stays(w)
           /\ Turns(w, pc, now, actor[w].base, actor[w].charge)
           /\ google' = [google EXCEPT ![Dom(w)] = now]
           /\ UNCHANGED <<api, used, closings>>
           /\ \/ /\ actor[w].pc = "create" /\ now = Opened(w)
                 /\ pc # "failing" => pc = IF now < Target(w) THEN "scale" ELSE "note"
                 /\ pc = "failing" => "halfDone" \in Faults \/ google[Dom(w)] # 0
              \/ /\ actor[w].pc = "scale"
                 /\ now = Smaller(actor[w].current + Batch, Target(w))
                 /\ pc # "failing" => pc = IF now < Target(w) THEN "scale" ELSE "note"
                 /\ pc = "failing" => "halfDone" \in Faults
<1> DEFINE k == actor[w].job
           s(p, n) == [actor[w] EXCEPT !.pc = p, !.current = n]
<1>1. actor[w].pc \in {"create", "scale"} /\ k \in Jobs /\ actor[w] \in ActorRecord
  BY StepNames, ActorBusy DEF TypeOK, CreateSubscription, ScaleSeats
<1>2. Target(w) \in Nat /\ actor[w].current \in Nat /\ google[Dom(w)] \in Nat /\ Batch \in Nat
  BY <1>1, RecordTypes, ConstantsAssumption DEF TypeOK, Target, JobOf, Dom
<1>3. \A p, n : /\ s(p, n).pc = p /\ s(p, n).job = k /\ s(p, n).current = n
                /\ s(p, n).base = actor[w].base /\ s(p, n).charge = actor[w].charge
  BY <1>1 DEF ActorRecord
<1>4. ASSUME NEW p, NEW n, actor' = [actor EXCEPT ![w] = s(p, n)]
      PROVE  Turns(w, p, n, actor[w].base, actor[w].charge)
  <2> DEFINE r == s(p, n)
  <2>1. r.pc = p /\ r.job = k /\ r.current = n /\ r.base = actor[w].base
        /\ r.charge = actor[w].charge
    BY <1>3
  <2>2. actor' = [actor EXCEPT ![w] = r]
    BY <1>4
  <2> HIDE DEF r, s
  <2> QED BY <2>1, <2>2, ThreadPut
<1>5. Stays(w) /\ UNCHANGED <<api, used, closings>>
  BY <1>1, NoPut DEF CreateSubscription, ScaleSeats
<1>6. CASE CreateSubscription(w)
  <2> DEFINE now == Opened(w)
             next == IF now < Target(w) THEN "scale" ELSE "note"
  <2>1. now \in Nat
    BY <1>2, NaturalOps DEF Opened
  <2>2. PICK p \in Answered(next) \cup (IF google[Dom(w)] = 0 THEN {} ELSE {"failing"}) :
          actor' = [actor EXCEPT ![w] = s(p, now)]
    BY <1>6 DEF CreateSubscription
  <2>3. actor[w].pc = "create" /\ google' = [google EXCEPT ![Dom(w)] = now]
    BY <1>6 DEF CreateSubscription
  <2>4. /\ p \in Provisioning /\ (p # "failing" => p = next)
        /\ p = "failing" => "halfDone" \in Faults \/ google[Dom(w)] # 0
    BY <2>2 DEF Answered, Provisioning
  <2>5. Turns(w, p, now, actor[w].base, actor[w].charge)
    BY <1>4, <2>2
  <2> HIDE DEF now
  <2> QED BY <1>1, <1>5, <2>1, <2>3, <2>4, <2>5 DEF now
<1>7. CASE ScaleSeats(w)
  <2> DEFINE now == Smaller(actor[w].current + Batch, Target(w))
             next == IF now < Target(w) THEN "scale" ELSE "note"
  <2>1. now \in Nat
    BY <1>2 DEF Smaller
  <2>2. PICK p \in Answered(next) : actor' = [actor EXCEPT ![w] = s(p, now)]
    BY <1>7 DEF ScaleSeats
  <2>3. actor[w].pc = "scale" /\ google' = [google EXCEPT ![Dom(w)] = now]
    BY <1>7 DEF ScaleSeats
  <2>4. /\ p \in Provisioning /\ (p # "failing" => p = next)
        /\ p = "failing" => "halfDone" \in Faults
    BY <2>2 DEF Answered, Provisioning
  <2>5. Turns(w, p, now, actor[w].base, actor[w].charge)
    BY <1>4, <2>2
  <2> HIDE DEF now
  <2> QED BY <1>1, <1>5, <2>1, <2>3, <2>4, <2>5 DEF now
<1> QED BY <1>6, <1>7

-----------------------------------------------------------------------------
(* A worker that takes a step of its job has the domain to itself: nobody  *)
(* else is at work on the job, and no other job of the domain is open.     *)
WorkerTurn(w) ==
  LET k == actor[w].job IN
  /\ k \in Jobs /\ Open(k) /\ DomainOf[k] \in Domains
  /\ \A v \in Workers \ {w} : AtWork(v) => actor[v].job # k
  /\ \A i \in Jobs \ {k} : job'[i] = job[i] /\ (DomainOf[i] = DomainOf[k] => ~Open(i))
  /\ \A b \in Actors \ {w} : actor'[b] = actor[b]
  /\ \A d \in Domains \ {DomainOf[k]} : google'[d] = google[d]

LEMMA HasTheDomain ==
  ASSUME TypeOK, CoreInv, ExclInv, NEW w \in Workers, AtWork(w) \/ Claim(w)
  PROVE  LET k == actor[w].job IN
         /\ k \in Jobs /\ Open(k) /\ DomainOf[k] \in Domains
         /\ \A v \in Workers \ {w} : AtWork(v) => actor[v].job # k
         /\ \A i \in Jobs \ {k} : DomainOf[i] = DomainOf[k] => ~Open(i)
<1> DEFINE k == actor[w].job
<1>1. k \in Jobs /\ Open(k)
  BY StepNames DEF AtWork, Provisioning, TypeOK, ActorType, CoreInv, ExclInv, AtWorkInv, JobOf,
     Open, Claim
<1>2. \A v \in Workers \ {w} : AtWork(v) => actor[v].job # k
  BY <1>1 DEF ExclInv, AtWorkInv, Claim, LeaseHeld, JobOf
<1>3. \A i \in Jobs \ {k} : DomainOf[i] = DomainOf[k] => ~Open(i)
  BY <1>1 DEF ExclInv, HoldsLiveLock
<1> QED BY <1>1, <1>2, <1>3, ConstantsAssumption

LEMMA TurnOfWorker ==
  ASSUME TypeOK, CoreInv, ExclInv, NEW w \in Workers, AtWork(w) \/ Claim(w),
         NEW s, NEW r, NEW b, NEW n, Becomes(w, s, r, b, n),
         NEW p, NEW c, NEW e, NEW g, Turns(w, p, c, e, g),
         google' = google \/ \E m : google' = [google EXCEPT ![Dom(w)] = m]
  PROVE  WorkerTurn(w)
<1>1. \A d \in Domains \ {Dom(w)} : google'[d] = google[d]
  BY DEF TypeOK
<1> QED BY <1>1, HasTheDomain DEF WorkerTurn, Becomes, Turns, Dom

LEMMA WorkIsOpen ==
  ASSUME TypeOK, CoreInv, ExclInv, NEW w \in Workers, AtWork(w)
  PROVE  actor[w].job \in Jobs /\ Open(actor[w].job)
BY StepNames DEF AtWork, Provisioning, TypeOK, ActorType, CoreInv, ExclInv, AtWorkInv, JobOf, Open

(* The other jobs have gained what they had gained before.                 *)
LEMMA OthersGain ==
  ASSUME TypeOK, AccountsInv, NEW w \in Workers, WorkerTurn(w)
  PROVE  \A i \in Jobs \ {actor[w].job} :
           /\ Gained(i)' = Gained(i)
           /\ DomainOf[i] \in Domains
           /\ DomainOf[i] # Dom(w) => google'[DomainOf[i]] = google[DomainOf[i]]
           /\ Open(i)' = Open(i) /\ job'[i] = job[i]
           /\ DomainOf[i] = Dom(w) => ~Open(i)
<1> SUFFICES ASSUME NEW i \in Jobs, i # actor[w].job
             PROVE  /\ Gained(i)' = Gained(i)
                    /\ DomainOf[i] \in Domains
                    /\ DomainOf[i] # Dom(w) => google'[DomainOf[i]] = google[DomainOf[i]]
                    /\ Open(i)' = Open(i) /\ job'[i] = job[i]
                    /\ DomainOf[i] = Dom(w) => ~Open(i)
  OBVIOUS
<1>1. /\ DomainOf[i] \in Domains /\ job'[i] = job[i]
      /\ DomainOf[i] # Dom(w) => google'[DomainOf[i]] = google[DomainOf[i]]
      /\ DomainOf[i] = Dom(w) => ~Open(i)
  BY ConstantsAssumption DEF WorkerTurn, Dom
<1>2. ~Open(i) => job[i].settled \/ ~job[i].recorded
  BY DEF AccountsInv, Account, Open, NoDoc
<1> QED BY <1>1, <1>2 DEF Gained, Open, Exists

LEMMA SalesFrame ==
  ASSUME TypeOK, CoreInv, ExclInv, AccountsInv, SalesInv, NEW w \in Workers, WorkerTurn(w),
         InitialSeats[Dom(w)] <= google'[Dom(w)],
         AtWork(w)' => Informed(w)', \A k \in Jobs : k = actor[w].job => JobSales(k)'
  PROVE  SalesInv'
<1> DEFINE k == actor[w].job
<1>1. \A d \in Domains : InitialSeats[d] <= google'[d]
  BY DEF WorkerTurn, SalesInv, Dom
<1>2. ASSUME NEW v \in Workers, v # w, AtWork(v)' PROVE Informed(v)'
  <2>1. actor'[v] = actor[v] /\ AtWork(v) /\ actor[v].job \in Jobs
    BY <1>2, StepNames DEF WorkerTurn, AtWork, TypeOK, ActorType, Provisioning
  <2>2. actor[v].job # k /\ Open(actor[v].job) => Dom(v) # Dom(w)
    BY <2>1, OthersGain DEF Dom
  <2>3. Informed(v) /\ actor[v].job # k
    BY <1>2, <2>1 DEF SalesInv, WorkerTurn
  <2>4. job'[actor[v].job] = job[actor[v].job] /\ Gained(actor[v].job)' = Gained(actor[v].job)
    BY <2>1, <2>3, OthersGain
  <2>5. google'[Dom(v)] = google[Dom(v)]
    BY <2>1, <2>2, <2>3, WorkIsOpen, OthersGain DEF Dom
  <2>6. Dom(v)' = Dom(v) /\ Target(v)' = Target(v) /\ JobOf(v)' = JobOf(v)
    BY <2>1, <2>4 DEF Dom, Target, JobOf
  <2> QED BY <2>1, <2>3, <2>4, <2>5, <2>6 DEF Informed
<1>3. ASSUME NEW i \in Jobs, i # k PROVE JobSales(i)'
  <2>1. job'[i] = job[i] /\ Open(i)' = Open(i) /\ JobSales(i)
    BY <1>3, OthersGain DEF SalesInv
  <2>2. CASE DomainOf[i] # Dom(w)
    <3>1. google'[DomainOf[i]] = google[DomainOf[i]]
      BY <1>3, <2>2, OthersGain
    <3> QED BY <2>1, <3>1 DEF JobSales
  <2>3. CASE DomainOf[i] = Dom(w)
    <3>1. ~Open(i) /\ ~Sole(i)
      BY <1>3, <2>3, OthersGain DEF Sole, Dom, WorkerTurn
    <3> QED BY <2>1, <3>1 DEF JobSales, Sole
  <2> QED BY <2>2, <2>3
<1>4. \A i \in Jobs : i = k => JobSales(i)'
  OBVIOUS
<1> QED BY <1>1, <1>2, <1>3, <1>4 DEF SalesInv

(* A step that leaves documents and Google alone but for heartbeats and new *)
(* documents, and in which threads only leave their work.                  *)
SameDoc(j) ==
  /\ job'[j].status = job[j].status /\ job'[j].settled = job[j].settled
  /\ job'[j].recorded = job[j].recorded /\ job'[j].before = job[j].before
  /\ job'[j].added = job[j].added /\ job'[j].reserved = job[j].reserved

NewDoc(j) == ~job[j].recorded /\ ~job'[j].recorded /\ ~job'[j].settled

LEMMA SalesKept ==
  ASSUME TypeOK, SalesInv, google' = google,
         \A j \in Jobs : SameDoc(j) \/ NewDoc(j),
         \A v \in Workers : AtWork(v)' => /\ actor'[v] = actor[v] /\ AtWork(v)
                                          /\ SameDoc(actor[v].job)
  PROVE  SalesInv'
<1>1. \A j \in Jobs : JobSales(j)'
  <2> SUFFICES ASSUME NEW j \in Jobs PROVE JobSales(j)'
    OBVIOUS
  <2>1. CASE SameDoc(j)
    BY <2>1 DEF SalesInv, JobSales, SameDoc, Open, Exists
  <2>2. CASE NewDoc(j)
    BY <2>2 DEF SalesInv, JobSales, NewDoc
  <2> QED BY <2>1, <2>2
<1>2. ASSUME NEW v \in Workers, AtWork(v)' PROVE Informed(v)'
  <2>1. actor'[v] = actor[v] /\ Informed(v) /\ SameDoc(actor[v].job)
    BY <1>2 DEF SalesInv
  <2>2. /\ Dom(v)' = Dom(v) /\ Target(v)' = Target(v) /\ google'[Dom(v)] = google[Dom(v)]
        /\ JobOf(v)'.recorded = JobOf(v).recorded /\ JobOf(v)'.before = JobOf(v).before
        /\ JobOf(v)'.added = JobOf(v).added /\ JobOf(v)'.status = JobOf(v).status
        /\ Gained(actor[v].job)' = Gained(actor[v].job)
    BY <2>1 DEF SameDoc, Dom, Target, JobOf, Gained
  <2> QED BY <2>1, <2>2 DEF Informed
<1> QED BY <1>1, <1>2 DEF SalesInv

(* What the worker itself learns, sells and records.                       *)
LEMMA SalesByWork ==
  ASSUME TypeOK, CoreInv, ExclInv, AccountsInv, SalesInv, NEW w \in Workers, Work(w) \/ Beat(w)
  PROVE  SalesInv'
<1> DEFINE k == actor[w].job
           d == Dom(w)
<1>0. ASSUME AtWork(w) \/ Claim(w)
      PROVE  /\ k \in Jobs /\ Open(k) /\ d \in Domains /\ JobSales(k)
             /\ google[d] \in Nat /\ InitialSeats[d] <= google[d] /\ InitialSeats[d] \in Nat
             /\ job[k].before \in Nat /\ job[k].added \in Nat /\ Target(w) \in Nat
             /\ Target(w) = job[k].reserved /\ JobOf(w) = job[k] /\ ~job[k].settled
             /\ AtWork(w) => Informed(w)
             /\ Batch \in Nat \ {0}
  <2>1. k \in Jobs /\ Open(k) /\ d \in Domains
    BY <1>0, HasTheDomain DEF Dom
  <2> QED BY <1>0, <2>1, RecordTypes, ConstantsAssumption
          DEF TypeOK, SalesInv, Target, JobOf, Open
<1>1. CASE Claim(w)
  <2>1. Stays(w) /\ Goes(w, "validate") /\ google' = google
    BY <1>1, ClaimDoes
  <2>2. WorkerTurn(w)
    BY <1>1, <2>1, TurnOfWorker DEF Stays, Goes
  <2>3. Informed(w)'
    BY <2>1 DEF Goes, Turns, Informed
  <2>4. \A j \in Jobs : j = k => JobSales(j)'
    BY <1>0, <1>1, <2>1 DEF Stays, Becomes, JobSales, Open, Exists, JobOf
  <2> QED BY <1>0, <1>1, <2>1, <2>2, <2>3, <2>4, SalesFrame
<1>2. CASE Beat(w)
  <2>1. Stays(w) /\ UNCHANGED <<google, actor>> /\ AtWork(w)
    BY <1>2, BeatDoes DEF Beat, Running, AtWork
  <2>2. Goes(w, actor[w].pc)
    BY <2>1 DEF Goes, Turns
  <2>3. WorkerTurn(w)
    BY <2>1, <2>2, TurnOfWorker DEF Stays, Goes
  <2>4. \A j \in Jobs : j = k => JobSales(j)'
    BY <1>0, <2>1 DEF Stays, Becomes, JobSales, Open, Exists, JobOf
  <2>5. Informed(w)'
    BY <1>0, <2>1 DEF Stays, Becomes, Informed, Gained, JobOf, Dom, Target
  <2> QED BY <1>0, <2>1, <2>3, <2>4, <2>5, SalesFrame
<1>3. CASE ClaimRefused(w)
  <2>1. /\ job' = job /\ google' = google
        /\ \A v \in Workers : AtWork(v)' => actor'[v] = actor[v] /\ AtWork(v)
    BY <1>3, StepNames, IdleType DEF ClaimRefused, TypeOK, ActorType, AtWork, Provisioning
  <2>2. (\A j \in Jobs : SameDoc(j)) /\ \A v \in Workers : SameDoc(actor[v].job)
    BY <2>1 DEF SameDoc
  <2> QED BY <2>1, <2>2, SalesKept
<1>4. CASE EnsureCustomer(w) \/ StepRaises(w) \/ MarkFailed(w)
  <2>1. PICK s \in {"RUNNING", "FAILED", JobOf(w).status}, p \in {"list", "failing", "failed"} :
          /\ SetsStatus(w, s) /\ Goes(w, p) /\ google' = google
          /\ p = "failed" => s = "FAILED"
    BY <1>4, PlainDoes DEF Stays, SetsStatus
  <2>2. AtWork(w)
    BY <1>4 DEF EnsureCustomer, StepRaises, MarkFailed, AtWork, Provisioning
  <2>3. WorkerTurn(w)
    BY <2>1, <2>2, TurnOfWorker DEF SetsStatus, Goes
  <2>4. Informed(w)'
    BY <2>1 DEF Goes, Turns, SetsStatus, Becomes, Informed, JobOf
  <2>5. \A j \in Jobs : j = k => JobSales(j)'
    BY <1>0, <2>1, <2>2 DEF SetsStatus, Becomes, JobSales, Open, Exists, JobOf
  <2> QED BY <1>0, <2>1, <2>2, <2>3, <2>4, <2>5, SalesFrame
<1>5. CASE ListSeats(w)
  <2>1. /\ Stays(w) /\ Turns(w, "base", google[d], actor[w].base, actor[w].charge)
        /\ google' = google /\ AtWork(w)
    BY <1>5, PlainDoes DEF AtWork, Provisioning
  <2>2. WorkerTurn(w)
    BY <2>1, TurnOfWorker DEF Stays
  <2>3. Informed(w)'
    BY <2>1 DEF Turns, Informed, Dom
  <2>4. \A j \in Jobs : j = k => JobSales(j)'
    BY <1>0, <2>1 DEF Stays, Becomes, JobSales, Open, Exists, JobOf
  <2> QED BY <1>0, <2>1, <2>2, <2>3, <2>4, SalesFrame
<1>6. CASE RecordBase(w)
  <2> DEFINE now  == actor[w].current
             base == IF JobOf(w).recorded THEN JobOf(w).before ELSE now
             next == IF now > Target(w) THEN "failing"
                     ELSE IF now = 0 THEN "create"
                     ELSE IF now < Target(w) THEN "scale" ELSE "note"
  <2>1. /\ actor[w].pc = "base" /\ google' = google
        /\ Becomes(w, JobOf(w).status, TRUE, base, JobOf(w).added)
        /\ Turns(w, next, now, base, actor[w].charge)
    BY <1>6, BaseDoes
  <2>2. AtWork(w)
    BY <2>1 DEF AtWork, Provisioning
  <2>3. WorkerTurn(w)
    BY <2>1, <2>2, TurnOfWorker
  <2>4. now = google[d]
    BY <1>0, <2>1, <2>2 DEF Informed
  <2>5. Informed(w)'
    <3>1. JobOf(w)'.recorded /\ JobOf(w)'.before = base /\ Target(w)' = Target(w) /\ Dom(w)' = d
      BY <2>1 DEF Becomes, Turns, JobOf, Target, Dom
    <3> QED BY <1>0, <2>1, <2>2, <2>4, <3>1 DEF Turns, Informed
  <2>6. \A j \in Jobs : j = k => JobSales(j)'
    <3>1. base = IF job[k].recorded THEN job[k].before ELSE google[d]
      BY <1>0, <2>2, <2>4
    <3>2. Becomes(w, JobOf(w).status, TRUE, base, JobOf(w).added) /\ google' = google
      BY <2>1
    <3> HIDE DEF base
    <3>3. /\ job'[k].recorded /\ job'[k].before = base /\ ~job'[k].settled
          /\ job'[k].reserved = job[k].reserved
      BY <1>0, <2>2, <3>2 DEF Becomes
    <3>4. /\ base <= google[d] /\ (google[d] = base \/ google[d] <= job[k].reserved)
          /\ Sole(k) => base = InitialSeats[d]
      BY <1>0, <2>2, <3>1 DEF JobSales, Dom
    <3> QED BY <3>2, <3>3, <3>4 DEF JobSales, Dom
  <2> QED BY <1>0, <2>1, <2>2, <2>3, <2>5, <2>6, SalesFrame
<1>7. CASE CreateSubscription(w) \/ ScaleSeats(w)
  <2>1. PICK now \in Nat, pc \in Provisioning :
           /\ Stays(w) /\ Turns(w, pc, now, actor[w].base, actor[w].charge)
           /\ google' = [google EXCEPT ![Dom(w)] = now]
           /\ \/ /\ actor[w].pc = "create" /\ now = Opened(w)
                 /\ pc # "failing" => pc = IF now < Target(w) THEN "scale" ELSE "note"
              \/ /\ actor[w].pc = "scale"
                 /\ now = Smaller(actor[w].current + Batch, Target(w))
                 /\ pc # "failing" => pc = IF now < Target(w) THEN "scale" ELSE "note"
    BY <1>7, SaleDoes
  <2>2. AtWork(w)
    BY <2>1 DEF AtWork, Provisioning
  <2>3. WorkerTurn(w)
    BY <2>1, <2>2, TurnOfWorker DEF Stays
  <2>4. /\ google[d] <= now /\ now <= Target(w) /\ google'[d] = now
        /\ job[k].recorded /\ actor[w].base = job[k].before
    BY <1>0, <2>1, <2>2 DEF Informed, Opened, Smaller, TypeOK, JobOf
  <2>5. Informed(w)'
    <3>1. /\ JobOf(w)'.recorded /\ JobOf(w)'.before = job[k].before
          /\ Target(w)' = Target(w) /\ Dom(w)' = d
      BY <1>0, <2>1, <2>2, <2>4 DEF Stays, Becomes, Turns, JobOf, Target, Dom
    <3> QED BY <1>0, <2>1, <2>2, <2>4, <3>1 DEF Turns, Informed
  <2>6. \A j \in Jobs : j = k => JobSales(j)'
    <3>1. /\ job'[k].recorded /\ job'[k].before = job[k].before /\ ~job'[k].settled
          /\ job'[k].reserved = Target(w)
      BY <1>0, <2>1, <2>2, <2>4 DEF Stays, Becomes, JobOf
    <3>2. job[k].before <= google[d] /\ (Sole(k) => job[k].before = InitialSeats[d])
      BY <1>0, <2>2, <2>4 DEF JobSales, Dom
    <3> SUFFICES ASSUME NEW j \in Jobs, j = k PROVE JobSales(j)'
      OBVIOUS
    <3>3. DomainOf[j] = d /\ google'[DomainOf[j]] = now /\ InitialSeats[d] <= google[d]
      BY <1>0, <2>2, <2>4 DEF Dom
    <3>4. job[k].before \in Nat /\ google[d] \in Nat /\ Target(w) \in Nat
      BY <1>0, <2>2
    <3> HIDE DEF d, k
    <3> QED BY <2>1, <2>4, <3>1, <3>2, <3>3, <3>4 DEF JobSales
  <2>7. InitialSeats[d] <= google'[d]
    BY <1>0, <2>2, <2>4
  <2> QED BY <2>2, <2>3, <2>5, <2>6, <2>7, SalesFrame
<1>8. CASE NoteAdded(w)
  <2> DEFINE added == Minus(Target(w), actor[w].base)
  <2>1. /\ actor[w].pc = "note" /\ google' = google
        /\ Becomes(w, "SUBSCRIBED", JobOf(w).recorded, JobOf(w).before, added)
        /\ Turns(w, "finish", actor[w].current, actor[w].base, added)
    BY <1>8, NoteDoes
  <2>2. AtWork(w)
    BY <2>1 DEF AtWork, Provisioning
  <2>3. WorkerTurn(w)
    BY <2>1, <2>2, TurnOfWorker
  <2>4. added = google[d] - job[k].before /\ job[k].recorded
    BY <1>0, <2>1, <2>2 DEF Informed, JobSales, Minus, Dom
  <2>5. Informed(w)'
    <3>1. /\ JobOf(w)'.recorded /\ JobOf(w)'.before = job[k].before /\ JobOf(w)'.added = added
          /\ Target(w)' = Target(w) /\ Dom(w)' = d /\ ~JobOf(w)'.settled
      BY <1>0, <2>1, <2>2, <2>4 DEF Becomes, Turns, JobOf, Target, Dom
    <3>2. Gained(actor[w].job)' = added
      BY <2>1, <2>4, <3>1 DEF Gained, JobOf, Dom
    <3> QED BY <1>0, <2>1, <2>2, <2>4, <3>1, <3>2 DEF Turns, Informed
  <2>6. \A j \in Jobs : j = k => JobSales(j)'
    BY <1>0, <2>1, <2>2 DEF Becomes, JobSales, Open, Exists, JobOf, Dom
  <2> QED BY <1>0, <2>1, <2>2, <2>3, <2>5, <2>6, SalesFrame
<1>9. CASE Complete(w)
  <2>1. /\ actor[w].pc = "finish" /\ SetsStatus(w, "COMPLETED") /\ Goes(w, "settle")
        /\ google' = google
    BY <1>9, PlainDoes
  <2>2. AtWork(w)
    BY <2>1 DEF AtWork, Provisioning
  <2>3. WorkerTurn(w)
    BY <2>1, <2>2, TurnOfWorker DEF SetsStatus, Goes
  <2>4. Informed(w)'
    BY <1>0, <2>1, <2>2 DEF Goes, Turns, SetsStatus, Becomes, Informed, JobOf, Gained
  <2>5. \A j \in Jobs : j = k => JobSales(j)'
    BY <1>0, <2>1, <2>2 DEF SetsStatus, Becomes, JobSales, Open, Exists, JobOf
  <2> QED BY <1>0, <2>1, <2>2, <2>3, <2>4, <2>5, SalesFrame
<1>10. CASE ReadCharge(w)
  <2>1. /\ actor[w].pc = "failed" /\ google' = google
        /\ SetsStatus(w, IF JobOf(w).status \in Terminal THEN JobOf(w).status ELSE "FAILED")
        /\ Turns(w, "settle", actor[w].current, actor[w].base, JobOf(w).added)
    BY <1>10, ChargeDoes
  <2>2. AtWork(w)
    BY <2>1 DEF AtWork, Provisioning
  <2>3. WorkerTurn(w)
    BY <2>1, <2>2, TurnOfWorker DEF SetsStatus
  <2>4. SetsStatus(w, "FAILED")
    BY <1>0, <2>1, <2>2 DEF Informed, Terminal
  <2>5. Informed(w)'
    BY <2>1, <2>4 DEF Turns, SetsStatus, Becomes, Informed, JobOf
  <2>6. \A j \in Jobs : j = k => JobSales(j)'
    BY <1>0, <2>2, <2>1, <2>4 DEF SetsStatus, Becomes, JobSales, Open, Exists, JobOf
  <2> QED BY <1>0, <2>1, <2>2, <2>3, <2>5, <2>6, SalesFrame
<1> QED BY <1>1, <1>2, <1>3, <1>4, <1>5, <1>6, <1>7, <1>8, <1>9, <1>10 DEF Work

-----------------------------------------------------------------------------
(* The steps that move no seats and write nothing of interest: accept()    *)
(* goes on or gives up, a task is delivered, a thread ends or dies, time   *)
(* passes.                                                                 *)
Booked == {"reserved", "planned", "created", "undo"}

RequestStill(j) ==
  /\ api'[j].seats = api[j].seats
  /\ api'[j].pc \in {"start", "locked"} => api[j].pc \in {"start", "locked"}
  /\ api'[j].pc \in Booked => api[j].pc \in Booked

Busy(a) == actor[a].pc \in Provisioning \cup {"settle", "refund"}

Still ==
  /\ UNCHANGED <<used, google, closings>>
  /\ \A j \in Jobs : SameDoc(j) /\ (~Exists(j) => job'[j] = job[j])
  /\ \A j \in Jobs : RequestStill(j)
  /\ \A a \in Actors : Busy(a)' => actor'[a] = actor[a] /\ Busy(a)

LEMMA StillAs ==
  /\ job' = job => \A j \in Jobs : SameDoc(j) /\ (~Exists(j) => job'[j] = job[j])
  /\ api' = api => \A j \in Jobs : RequestStill(j)
  /\ actor' = actor => \A a \in Actors : Busy(a)' => actor'[a] = actor[a] /\ Busy(a)
BY DEF SameDoc, RequestStill, Busy

LEMMA NotBusy ==
  ASSUME TypeOK, NEW a \in Actors, NEW r, actor' = [actor EXCEPT ![a] = r],
         r.pc \notin Provisioning \cup {"settle", "refund"}
  PROVE  \A b \in Actors : Busy(b)' => actor'[b] = actor[b] /\ Busy(b)
BY DEF TypeOK, ActorType, Busy

LEMMA AcceptStill ==
  ASSUME TypeOK, NEW j \in Jobs, Accept(j),
         ~Reserve(j), ~AssignPlan(j), ~CreateJob(j), ~UndoReservation(j)
  PROVE  Still
<1>1. UNCHANGED <<used, google, closings, job, actor>>
  BY DEF Accept, AcquireLock, DomainBusy, OverQuota, Dispatch, DispatchRaises, AcceptRaises,
     AcceptEscapes, UnlockRefused
<1>2. PICK p \in ApiSteps \ {"start"} :
        /\ ApiTo(j, p)
        /\ p = "locked" => api[j].pc = "start"
        /\ p \in Booked => api[j].pc \in Booked
  BY DEF Accept, AcquireLock, DomainBusy, OverQuota, Dispatch, DispatchRaises, AcceptRaises,
     AcceptEscapes, UnlockRefused, Booked, ApiSteps
<1>3. /\ api'[j].pc = p /\ api'[j].seats = api[j].seats
      /\ \A i \in Jobs \ {j} : api'[i] = api[i]
  BY <1>2 DEF TypeOK, ApiRecord, ApiTo
<1>4. \A i \in Jobs : RequestStill(i)
  BY <1>2, <1>3 DEF RequestStill, Booked
<1> QED BY <1>1, <1>4, StillAs DEF Still

LEMMA TimeStill == ASSUME TypeOK, AccountsInv, Time PROVE Still
<1>1. UNCHANGED <<used, google, closings, api, actor>>
  BY DEF Time, Lapse, GoSilent, LockExpires
<1>2. ASSUME NEW i \in Jobs, NEW b \in {"lapsed", "silent"}, Exists(i),
             job' = [job EXCEPT ![i].beat = b]
      PROVE  \A j \in Jobs : SameDoc(j) /\ (~Exists(j) => job'[j] = job[j])
  <2> DEFINE r == [job[i] EXCEPT !.beat = b]
  <2>1. /\ r.status = job[i].status /\ r.settled = job[i].settled
        /\ r.recorded = job[i].recorded /\ r.before = job[i].before
        /\ r.added = job[i].added /\ r.reserved = job[i].reserved
    BY DEF TypeOK, JobRecord
  <2>2. job'[i] = r /\ \A j \in Jobs \ {i} : job'[j] = job[j]
    BY <1>2 DEF TypeOK
  <2> HIDE DEF r
  <2> QED BY <1>2, <2>1, <2>2 DEF SameDoc
<1>3. CASE \E i \in Jobs : Lapse(i) \/ GoSilent(i)
  <2>1. PICK i \in Jobs : Lapse(i) \/ GoSilent(i)
    BY <1>3
  <2>2. Exists(i)
    BY <2>1 DEF Lapse, GoSilent, AccountsInv, Account, NoDoc
  <2>3. \A j \in Jobs : SameDoc(j) /\ (~Exists(j) => job'[j] = job[j])
    BY <1>2, <2>1, <2>2 DEF Lapse, GoSilent
  <2> QED BY <1>1, <2>3, StillAs DEF Still
<1>4. CASE \E d \in Domains : LockExpires(d)
  BY <1>1, <1>4, StillAs DEF LockExpires, Still
<1> QED BY <1>3, <1>4 DEF Time

LEMMA CrashStill == ASSUME TypeOK, Crash PROVE Still
<1>1. UNCHANGED <<used, google, closings, job>>
  BY DEF Crash, CrashApi, CrashActor, CrashServer
<1>2. ASSUME NEW i \in Jobs, CrashApi(i) PROVE Still
  <2>1. \A j \in Jobs : RequestStill(j)
    BY <1>2 DEF CrashApi, ApiTo, TypeOK, ApiRecord, RequestStill, Booked
  <2> QED BY <1>1, <1>2, <2>1, StillAs DEF CrashApi, Still
<1>3. ASSUME NEW a \in Actors, CrashActor(a) PROVE Still
  BY <1>1, <1>3, StillAs, IdleType, NotBusy, StepNames DEF CrashActor, Still, Provisioning
<1>4. CASE CrashServer
  <2>1. \A j \in Jobs : RequestStill(j)
    BY <1>4 DEF CrashServer, TypeOK, ApiRecord, RequestStill, Booked
  <2>2. \A a \in Actors : ~Busy(a)'
    BY <1>4, IdleType DEF CrashServer, Busy, Provisioning
  <2> QED BY <1>1, <2>1, <2>2, StillAs DEF Still
<1> QED BY <1>2, <1>3, <1>4 DEF Crash

(* All steps, while no sweep has found anything.                           *)
LEMMA BookSteps ==
  ASSUME TypeOK, CoreInv, ExclInv, AccountsInv, [Next]_vars
  PROVE  \/ Still
         \/ \E j \in Jobs : Reserve(j) \/ AssignPlan(j) \/ CreateJob(j) \/ UndoReservation(j)
         \/ \E w \in Workers : Work(w) \/ Beat(w) \/ MarkSettled(w) \/ Refund(w)
<1>1. \A r \in Reconcilers : actor[r].pc = "idle"
  BY DEF ExclInv, AtWorkInv
<1>2. CASE \E w \in Workers, j \in Jobs : Deliver(w, j)
  <2>1. PICK w \in Workers, j \in Jobs : Deliver(w, j)
    BY <1>2
  <2> DEFINE r == [Idle EXCEPT !.pc = "claim", !.job = j]
  <2>2. r.pc = "claim"
    BY DEF Idle
  <2>3. actor' = [actor EXCEPT ![w] = r]
    BY <2>1 DEF Deliver
  <2>4. \A a \in Actors : Busy(a)' => actor'[a] = actor[a] /\ Busy(a)
    BY <2>2, <2>3, NotBusy, StepNames DEF Provisioning
  <2> QED BY <2>1, <2>4, StillAs DEF Deliver, Still
<1>3. CASE \E r \in Reconcilers, j \in Jobs : Snapshot(r, j)
  <2>1. PICK s \in Reconcilers, j \in Jobs : Snapshot(s, j)
    BY <1>3
  <2> DEFINE r == [Idle EXCEPT !.pc = "stale", !.job = j,
                     !.open = job[j].status \notin Terminal, !.charge = job[j].added]
  <2>2. r.pc = "stale"
    BY DEF Idle
  <2>3. actor' = [actor EXCEPT ![s] = r]
    BY <2>1 DEF Snapshot
  <2>4. \A a \in Actors : Busy(a)' => actor'[a] = actor[a] /\ Busy(a)
    BY <2>2, <2>3, NotBusy, StepNames DEF Provisioning
  <2> QED BY <2>1, <2>4, StillAs DEF Snapshot, Still
<1>4. ~ \E r \in Reconcilers : FailStale(r)
  BY <1>1 DEF FailStale
<1>5. ASSUME NEW a \in Actors, Settle(a)
      PROVE  Still \/ (a \in Workers /\ (MarkSettled(a) \/ Refund(a)))
  <2>1. a \in Workers
    BY <1>1, <1>5 DEF Settle, MarkSettled, AlreadySettled, Refund, RefundRaises, Unlock, Actors
  <2>2. CASE AlreadySettled(a) \/ Unlock(a)
    <3>1. actor' = [actor EXCEPT ![a] = Idle] /\ UNCHANGED <<api, job, used, google, closings>>
      BY <2>2 DEF AlreadySettled, Unlock, Done
    <3> QED BY <3>1, IdleType, NotBusy, StillAs DEF Provisioning, Still
  <2>3. CASE RefundRaises(a)
    <3>1. Goes(a, "unlock") /\ UNCHANGED <<api, job, used, google, closings>>
      BY <2>1, <2>3, ThreadTo DEF RefundRaises
    <3>2. \A b \in Actors : Busy(b)' => actor'[b] = actor[b] /\ Busy(b)
      BY <3>1 DEF Goes, Turns, Busy, Provisioning
    <3> QED BY <3>1, <3>2, StillAs DEF Still
  <2> QED BY <1>5, <2>1, <2>2, <2>3 DEF Settle
<1>6. CASE UNCHANGED vars
  BY <1>6, StillAs DEF vars, Still
<1> QED BY <1>2, <1>3, <1>4, <1>5, <1>6, AcceptStill, TimeStill, CrashStill DEF Next

-----------------------------------------------------------------------------
(* What a step does to the partner's books: nothing, or it changes what one *)
(* request holds, and the counter by as much.                              *)
Unmoved ==
  /\ used' = used /\ closings' = closings
  /\ \A j \in Jobs : HeldBy(j)' = HeldBy(j) /\ api'[j].seats = api[j].seats

Moved(j, n) ==
  /\ used' = used + (n - HeldBy(j))
  /\ \A i \in Jobs : HeldBy(i)' = IF i = j THEN n ELSE HeldBy(i)
  /\ \A i \in Jobs \ {j} : closings'[i] = closings[i] /\ api'[i].seats = api[i].seats

Opens(j) ==
  /\ closings[j] = 0 /\ closings'[j] = 0
  /\ api[j].seats = 0 /\ api'[j].seats > 0
  /\ \E n \in 1 .. Cap : used + n <= Cap /\ HeldBy(j) = 0 /\ Moved(j, n)

Trims(j) ==
  /\ closings[j] = 0 /\ closings'[j] = 0
  /\ api[j].seats > 0 /\ api'[j].seats > 0
  /\ \E n \in 1 .. HeldBy(j) : Moved(j, n)

Closes(j) ==
  /\ closings[j] = 0 /\ closings'[j] = 1
  /\ api[j].seats > 0
  /\ \E n \in 0 .. HeldBy(j) : Moved(j, n)

LEMMA HeldTypes ==
  ASSUME TypeOK, AccountsInv
  PROVE  /\ \A j \in Jobs : HeldBy(j) \in Nat /\ HeldBy(j) <= used
         /\ \A j \in Jobs : api[j].seats \in Nat /\ closings[j] \in Nat
         /\ used \in Nat
<1>1. \A j \in Jobs : /\ api[j].seats \in Nat /\ closings[j] \in Nat
                      /\ job[j].reserved \in Nat /\ job[j].added \in Nat
  BY RecordTypes DEF TypeOK
<1>2. \A j \in Jobs : HeldBy(j) \in Nat
  BY <1>1 DEF HeldBy, Smaller
<1>3. \A j \in Jobs : Held[j] \in Nat /\ Held[j] = HeldBy(j)
  BY <1>2 DEF Held
<1>4. \A j \in Jobs : Held[j] <= SumFunctionOnSet(Held, Jobs)
  BY <1>3, SumIsNatural, ConstantsAssumption
<1> QED BY <1>1, <1>2, <1>3, <1>4 DEF AccountsInv, TypeOK

LEMMA SumFollows ==
  ASSUME TypeOK, TypeOK', AccountsInv, Unmoved \/ \E j \in Jobs, n \in Nat : Moved(j, n)
  PROVE  used' = SumFunctionOnSet(Held, Jobs)'
<1>0. IsFiniteSet(Jobs)
  BY ConstantsAssumption
<1>1. \A j \in Jobs : Held[j] = HeldBy(j) /\ Held'[j] = HeldBy(j)' /\ Held[j] \in Int
  BY HeldTypes DEF Held
<1>2. CASE Unmoved
  <2>1. Held' = Held
    BY <1>2 DEF Unmoved, Held
  <2> QED BY <1>2, <2>1 DEF Unmoved, AccountsInv
<1>3. ASSUME NEW j \in Jobs, NEW n \in Nat, Moved(j, n)
      PROVE  used' = SumFunctionOnSet(Held, Jobs)'
  <2>1. \A i \in Jobs : Held'[i] = IF i = j THEN n ELSE Held[i]
    BY <1>1, <1>3 DEF Moved
  <2>2. \A i \in Jobs : Held'[i] \in Int
    BY <1>1, <2>1
  <2>3. SumFunctionOnSet(Held', Jobs)
          = SumFunctionOnSet(Held, Jobs) + (Held'[j] - Held[j])
    <3> DEFINE f == Held
               g == Held'
    <3>1. /\ \A x \in Jobs : f[x] \in Int /\ g[x] \in Int
          /\ \A x \in Jobs \ {j} : g[x] = f[x]
      BY <1>1, <2>1, <2>2
    <3> HIDE DEF f, g
    <3>2. SumFunctionOnSet(g, Jobs) = SumFunctionOnSet(f, Jobs) + (g[j] - f[j])
      BY <1>0, <3>1, SumChanges
    <3> QED BY <3>2 DEF f, g
  <2> QED BY <1>1, <1>3, <2>1, <2>3 DEF Moved, AccountsInv
<1> QED BY <1>2, <1>3

(* Steps that touch neither documents' figures nor reservations.           *)
LEMMA BooksByStill ==
  ASSUME TypeOK, CoreInv, AccountsInv, Still
  PROVE  /\ Unmoved
         /\ \A j \in Jobs : Account(j)'
         /\ \A a \in Actors : (actor[a].pc = "refund" => actor[a].charge = JobOf(a).added)'
<1>1. \A j \in Jobs : HeldBy(j)' = HeldBy(j) /\ api'[j].seats = api[j].seats
  BY DEF Still, SameDoc, RequestStill, HeldBy
<1>2. \A j \in Jobs : Account(j)'
  BY DEF Still, SameDoc, RequestStill, AccountsInv, Account, Exists, Booked
<1>3. ASSUME NEW a \in Actors, actor'[a].pc = "refund"
      PROVE  actor'[a].charge = JobOf(a)'.added
  <2>1. actor'[a] = actor[a] /\ actor[a].job \in Jobs
    BY <1>3 DEF Still, Busy, TypeOK, ActorType
  <2> QED BY <1>3, <2>1 DEF AccountsInv, Still, SameDoc, JobOf
<1> QED BY <1>1, <1>2, <1>3 DEF Unmoved, Still

(* A worker before settlement changes the figures of open jobs only.       *)
LEMMA BooksByWork ==
  ASSUME TypeOK, CoreInv, ExclInv, AccountsInv, NEW w \in Workers, Work(w) \/ Beat(w)
  PROVE  /\ Unmoved
         /\ \A j \in Jobs : Account(j)'
         /\ \A a \in Actors : (actor[a].pc = "refund" => actor[a].charge = JobOf(a).added)'
<1> DEFINE k == actor[w].job
<1>1. CASE ClaimRefused(w)
  <2>1. Still
    BY <1>1, IdleType, NotBusy, StillAs, StepNames DEF ClaimRefused, Still, Provisioning
  <2> QED BY <2>1, BooksByStill
<1>2. CASE ~ClaimRefused(w)
  <2>1. /\ AtWork(w) \/ Claim(w)
        /\ UNCHANGED <<api, used, closings>>
        /\ actor'[w].pc # "refund" /\ \A b \in Actors \ {w} : actor'[b] = actor[b]
    <3>1. CASE Beat(w)
      BY <3>1, BeatDoes DEF Beat, Running, AtWork, Provisioning
    <3>2. CASE Claim(w)
      BY <3>2, ClaimDoes DEF Goes, Turns
    <3>3. CASE EnsureCustomer(w) \/ ListSeats(w) \/ Complete(w) \/ StepRaises(w) \/ MarkFailed(w)
      BY <3>3, PlainDoes DEF Goes, Turns, AtWork, Provisioning
    <3>4. CASE RecordBase(w)
      BY <3>4, BaseDoes DEF Turns, AtWork, Provisioning
    <3>5. CASE NoteAdded(w)
      BY <3>5, NoteDoes DEF Turns, AtWork, Provisioning
    <3>6. CASE ReadCharge(w)
      BY <3>6, ChargeDoes DEF Turns, AtWork, Provisioning
    <3>7. CASE CreateSubscription(w) \/ ScaleSeats(w)
      BY <3>7, SaleDoes DEF Turns, AtWork, Provisioning
    <3> QED BY <1>2, <3>1, <3>2, <3>3, <3>4, <3>5, <3>6, <3>7 DEF Work
  <2>2. /\ k \in Jobs /\ Open(k)
        /\ job'[k].reserved = job[k].reserved /\ ~job'[k].settled
        /\ \A j \in Jobs \ {k} : job'[j] = job[j]
    <3>1. k \in Jobs /\ Open(k)
      BY <2>1, HasTheDomain
    <3>2. \E s, r, b, n : Becomes(w, s, r, b, n)
      BY <1>2, ClaimDoes, BeatDoes, PlainDoes, BaseDoes, NoteDoes, ChargeDoes, SaleDoes
         DEF Work, Stays, SetsStatus
    <3> QED BY <3>1, <3>2 DEF Becomes, Open
  <2>3. SameBooks
    BY WorkStep
  <2>4. \A j \in Jobs : HeldBy(j)' = HeldBy(j) /\ Account(j)'
    <3> SUFFICES ASSUME NEW j \in Jobs PROVE HeldBy(j)' = HeldBy(j) /\ Account(j)'
      OBVIOUS
    <3>1. CASE j = k
      BY <2>1, <2>2, <2>3, <3>1 DEF HeldBy, Account, AccountsInv, Open, SameBooks
    <3>2. CASE j # k
      BY <2>1, <2>2, <3>2 DEF HeldBy, Account, AccountsInv, Exists
    <3> QED BY <3>1, <3>2
  <2>5. ASSUME NEW a \in Actors, actor'[a].pc = "refund"
        PROVE  actor'[a].charge = JobOf(a)'.added
    <3>1. actor'[a] = actor[a] /\ actor[a].job \in Jobs \ {k}
      BY <2>1, <2>2, <2>5 DEF TypeOK, ActorType, CoreInv, JobOf, Open
    <3> QED BY <2>2, <2>5, <3>1 DEF AccountsInv, JobOf
  <2> QED BY <2>1, <2>4, <2>5 DEF Unmoved
<1> QED BY <1>1, <1>2

(* The steps that open, trim and close an account, and the two that write  *)
(* its document and its settlement.                                        *)
BooksTold ==
  /\ Unmoved \/ \E j \in Jobs : Opens(j) \/ Trims(j) \/ Closes(j)
  /\ \A j \in Jobs : Account(j)'
  /\ \A a \in Actors : (actor[a].pc = "refund" => actor[a].charge = JobOf(a).added)'

LEMMA Undocumented ==
  ASSUME TypeOK, CoreInv, AccountsInv, NEW j \in Jobs, api[j].pc \in NewSteps \cup {"undo"},
         ~Exists(j)
  PROVE  job[j] = NoDoc /\ ~job[j].settled /\ HeldBy(j) = api[j].seats
BY DEF AccountsInv, Account, HeldBy, NoDoc

LEMMA ApiOnly ==
  ASSUME TypeOK, AccountsInv, NEW j \in Jobs, UNCHANGED <<job, actor>>,
         \A i \in Jobs \ {j} : api'[i] = api[i] /\ closings'[i] = closings[i],
         ~Exists(j)
  PROVE  /\ \A i \in Jobs \ {j} : Account(i)' /\ HeldBy(i)' = HeldBy(i)
         /\ HeldBy(j)' = api'[j].seats
         /\ ~Exists(j)' /\ job'[j] = NoDoc
         /\ \A a \in Actors : (actor[a].pc = "refund" => actor[a].charge = JobOf(a).added)'
BY DEF AccountsInv, Account, HeldBy, Exists, JobOf, NoDoc

LEMMA BooksByRequest ==
  ASSUME TypeOK, CoreInv, BooksInv, AccountsInv, NEW j \in Jobs,
         Reserve(j) \/ AssignPlan(j) \/ UndoReservation(j)
  PROVE  BooksTold
<1>1. api[j].pc \in {"locked", "reserved", "undo"} /\ UNCHANGED <<job, actor>>
  BY DEF Reserve, AssignPlan, UndoReservation
<1>2. ~Exists(j) /\ closings[j] = 0
  BY <1>1 DEF BooksInv, NewSteps
<1>3. HeldBy(j) = api[j].seats
  BY <1>1, <1>2, Undocumented DEF NewSteps
<1>4. api[j].seats \in Nat /\ used \in Nat /\ api[j].seats <= used
  BY <1>3, HeldTypes
<1>5. Seats[j] \in Nat \ {0} /\ CommitCap \in Nat \ {0} /\ Cap \in Nat
  BY ConstantsAssumption
<1>6. CASE Reserve(j)
  <2> DEFINE n == Seats[j]
  <2>1. /\ used + n <= Cap /\ used' = used + n /\ closings' = closings
        /\ api'[j].pc = "reserved" /\ api'[j].seats = n
        /\ \A i \in Jobs \ {j} : api'[i] = api[i]
    BY <1>6 DEF TypeOK, Reserve
  <2>2. api[j].seats = 0
    BY <1>6 DEF Reserve, AccountsInv, Account
  <2>3. Opens(j)
    <3>1. n \in 1 .. Cap
      BY <1>4, <1>5, <2>1
    <3>2. HeldBy(j)' = n /\ \A i \in Jobs \ {j} : HeldBy(i)' = HeldBy(i)
      BY <1>1, <1>2, <2>1, ApiOnly
    <3>3. Moved(j, n)
      BY <1>3, <1>4, <1>5, <2>1, <2>2, <3>2 DEF Moved
    <3> QED BY <1>2, <1>3, <1>5, <2>1, <2>2, <3>1, <3>3 DEF Opens
  <2>4. Account(j)'
    BY <1>1, <1>2, <1>5, <2>1, ApiOnly DEF Account
  <2> QED BY <1>1, <1>2, <2>1, <2>3, <2>4, ApiOnly DEF BooksTold
<1>7. CASE AssignPlan(j)
  <2>1. PICK n \in {api[j].seats, Smaller(api[j].seats, CommitCap)} :
          /\ api' = [api EXCEPT ![j] = [pc |-> "planned", seats |-> n]]
          /\ used' = Minus(used, api[j].seats - n)
    BY <1>7 DEF AssignPlan
  <2>2. api[j].seats > 0
    BY <1>7 DEF AssignPlan, AccountsInv, Account
  <2>3. n \in 1 .. api[j].seats /\ used' = used + (n - api[j].seats)
    BY <1>4, <1>5, <2>1, <2>2 DEF Smaller, Minus
  <2>4. /\ closings' = closings /\ api'[j].pc = "planned" /\ api'[j].seats = n
        /\ \A i \in Jobs \ {j} : api'[i] = api[i]
    BY <1>7, <2>1 DEF TypeOK, AssignPlan
  <2>5. Trims(j)
    <3>1. HeldBy(j)' = n /\ \A i \in Jobs \ {j} : HeldBy(i)' = HeldBy(i)
      BY <1>1, <1>2, <2>4, ApiOnly
    <3>2. Moved(j, n)
      BY <1>3, <2>3, <2>4, <3>1 DEF Moved
    <3> QED BY <1>2, <1>3, <2>2, <2>3, <2>4, <3>2 DEF Trims
  <2>6. Account(j)'
    BY <1>1, <1>2, <2>3, <2>4, ApiOnly DEF Account
  <2> QED BY <1>1, <1>2, <2>4, <2>5, <2>6, ApiOnly DEF BooksTold
<1>8. CASE UndoReservation(j)
  <2>1. /\ closings'[j] = 1 /\ api'[j].pc = "unlock" /\ api'[j].seats = 0
        /\ \A i \in Jobs \ {j} : api'[i] = api[i] /\ closings'[i] = closings[i]
        /\ used' = Minus(used, api[j].seats)
    BY <1>2, <1>8 DEF TypeOK, UndoReservation
  <2>2. used' = used + (0 - api[j].seats)
    BY <1>4, <2>1 DEF Minus
  <2>3. api[j].seats > 0
    BY <1>8 DEF UndoReservation, AccountsInv, Account
  <2>4. Closes(j)
    <3>1. Moved(j, 0)
      BY <1>1, <1>2, <1>3, <2>1, <2>2, ApiOnly DEF Moved
    <3>2. 0 \in 0 .. HeldBy(j)
      BY <1>3, <1>4
    <3> QED BY <1>2, <2>1, <2>3, <3>1, <3>2 DEF Closes
  <2>5. Account(j)'
    BY <1>1, <1>2, <2>1, ApiOnly DEF Account
  <2> QED BY <1>1, <1>2, <2>1, <2>4, <2>5, ApiOnly DEF BooksTold
<1> QED BY <1>6, <1>7, <1>8

LEMMA BooksByDocument ==
  ASSUME TypeOK, CoreInv, BooksInv, AccountsInv, NEW j \in Jobs, CreateJob(j)
  PROVE  BooksTold
<1>1. /\ api[j].pc = "planned" /\ api'[j].pc = "created"
      /\ \A i \in Jobs \ {j} : api'[i] = api[i] /\ job'[i] = job[i]
      /\ UNCHANGED <<actor, closings, used>>
  BY LoudSteps DEF CreateJob
<1> DEFINE r == [NoDoc EXCEPT !.status = "PENDING", !.reserved = api[j].seats]
<1>2. r.status = "PENDING" /\ ~r.settled /\ r.reserved = api[j].seats
  BY DEF NoDoc
<1>3. job'[j] = r /\ api'[j].seats = api[j].seats
  BY DEF TypeOK, ApiRecord, CreateJob, ApiTo
<1> HIDE DEF r
<1>4. ~Exists(j) /\ api[j].seats > 0
  BY <1>1 DEF CoreInv, NewSteps, AccountsInv, Account
<1>5. HeldBy(j) = api[j].seats
  BY <1>1, <1>4, Undocumented DEF NewSteps
<1>6. HeldBy(j)' = api[j].seats /\ Account(j)'
  BY <1>1, <1>2, <1>3, <1>4 DEF HeldBy, Account, Exists
<1>7. \A i \in Jobs \ {j} : HeldBy(i)' = HeldBy(i) /\ Account(i)'
  BY <1>1 DEF HeldBy, Account, AccountsInv, Exists
<1>8. ASSUME NEW a \in Actors, actor'[a].pc = "refund"
      PROVE  actor'[a].charge = JobOf(a)'.added
  <2>1. actor'[a] = actor[a] /\ actor[a].job \in Jobs \ {j}
    BY <1>1, <1>4, <1>8 DEF TypeOK, ActorType, CoreInv
  <2> QED BY <1>1, <1>8, <2>1 DEF AccountsInv, JobOf
<1> QED BY <1>1, <1>3, <1>5, <1>6, <1>7, <1>8 DEF BooksTold, Unmoved

(* mark_settled by a worker: the figure it was given goes on the record.   *)
LEMMA SettleDoes ==
  ASSUME TypeOK, NEW w \in Workers, MarkSettled(w)
  PROVE  LET k == actor[w].job IN
         /\ actor[w].pc = "settle" /\ k \in Jobs /\ ~job[k].settled
         /\ job'[k].settled /\ job'[k].added = actor[w].charge
         /\ job'[k].status = job[k].status /\ job'[k].reserved = job[k].reserved
         /\ job'[k].recorded = job[k].recorded /\ job'[k].before = job[k].before
         /\ \A i \in Jobs \ {k} : job'[i] = job[i]
         /\ Goes(w, "refund")
         /\ UNCHANGED <<api, used, google, closings>>
<1> DEFINE k == actor[w].job
           r == [job[k] EXCEPT !.settled = TRUE, !.leased = FALSE, !.added = actor[w].charge]
<1>1. actor[w].pc = "settle" /\ k \in Jobs
  BY StepNames, ActorBusy DEF TypeOK, MarkSettled
<1>2. /\ r.settled /\ r.added = actor[w].charge /\ r.status = job[k].status
      /\ r.reserved = job[k].reserved /\ r.recorded = job[k].recorded
      /\ r.before = job[k].before
  BY <1>1 DEF TypeOK, JobRecord
<1>3. job' = [job EXCEPT ![k] = r]
  BY DEF MarkSettled
<1> HIDE DEF r
<1>4. job'[k] = r /\ \A i \in Jobs \ {k} : job'[i] = job[i]
  BY <1>1, <1>3 DEF TypeOK
<1>5. Goes(w, "refund")
  BY <1>1, ThreadTo DEF MarkSettled
<1> QED BY <1>1, <1>2, <1>4, <1>5 DEF MarkSettled, JobOf

LEMMA BooksBySettlement ==
  ASSUME TypeOK, CoreInv, BooksInv, AccountsInv, NEW w \in Workers, MarkSettled(w)
  PROVE  BooksTold
<1> DEFINE k == actor[w].job
<1>1. /\ k \in Jobs /\ ~job[k].settled /\ job'[k].settled /\ job'[k].added = actor[w].charge
      /\ job'[k].status = job[k].status /\ job'[k].reserved = job[k].reserved
      /\ \A i \in Jobs \ {k} : job'[i] = job[i]
      /\ actor[w].pc = "settle" /\ Goes(w, "refund")
      /\ UNCHANGED <<api, used, google, closings>>
  BY SettleDoes
<1>2. Exists(k) /\ closings[k] = 0
  BY <1>1 DEF CoreInv, BooksInv, TypeOK, Actors
<1>3. \A j \in Jobs : HeldBy(j)' = HeldBy(j) /\ Account(j)'
  BY <1>1, <1>2 DEF HeldBy, Account, AccountsInv, Exists
<1>4. ASSUME NEW a \in Actors, actor'[a].pc = "refund"
      PROVE  actor'[a].charge = JobOf(a)'.added
  <2>1. CASE a = w
    BY <1>1, <2>1 DEF Goes, Turns, JobOf
  <2>2. CASE a # w
    <3>1. actor'[a] = actor[a] /\ actor[a].job \in Jobs \ {k}
      BY <1>1, <1>4, <2>2 DEF Goes, Turns, TypeOK, ActorType, CoreInv, JobOf
    <3> QED BY <1>1, <1>4, <3>1 DEF AccountsInv, JobOf
  <2> QED BY <2>1, <2>2
<1> QED BY <1>1, <1>3, <1>4 DEF BooksTold, Unmoved

(* settle() gives back what was reserved above the charge.                 *)
LEMMA BooksByRefund ==
  ASSUME TypeOK, CoreInv, BooksInv, AccountsInv, NEW w \in Workers, Refund(w)
  PROVE  BooksTold
<1> DEFINE k == actor[w].job
           n == Smaller(job[k].reserved, job[k].added)
<1>1. /\ w \in Actors /\ k \in Jobs /\ actor[w].pc = "refund" /\ MovesTo(w, "unlock")
      /\ closings' = [closings EXCEPT ![k] = @ + 1] /\ UNCHANGED <<api, job>>
  BY LoudSteps, StepNames
<1>2. /\ job[k].settled /\ closings[k] = 0 /\ actor[w].charge = job[k].added
      /\ Exists(k) /\ api[k].seats > 0 /\ job[k].reserved = api[k].seats
  BY <1>1 DEF CoreInv, BooksInv, AccountsInv, Account, JobOf
<1>3. closings'[k] = 1 /\ \A i \in Jobs \ {k} : closings'[i] = closings[i]
  BY <1>1, <1>2 DEF TypeOK
<1>4. /\ HeldBy(k) = api[k].seats
      /\ \A i \in Jobs : HeldBy(i)' = IF i = k THEN n ELSE HeldBy(i)
  BY <1>1, <1>2, <1>3 DEF HeldBy
<1>5. job[k].added \in Nat /\ job[k].reserved \in Nat /\ used \in Nat /\ HeldBy(k) <= used
  BY <1>1, RecordTypes, HeldTypes DEF TypeOK
<1>6. n \in 0 .. HeldBy(k) /\ used' = used + (n - HeldBy(k))
  BY <1>2, <1>4, <1>5 DEF Refund, Smaller, Minus, JobOf
<1>7. Closes(k)
  <2>1. Moved(k, n)
    BY <1>1, <1>3, <1>4, <1>6 DEF Moved
  <2> QED BY <1>2, <1>3, <1>6, <2>1 DEF Closes
<1>8. \A j \in Jobs : Account(j)'
  BY <1>1, <1>2, <1>3 DEF Account, AccountsInv, Exists
<1>9. \A a \in Actors : (actor[a].pc = "refund" => actor[a].charge = JobOf(a).added)'
  BY <1>1 DEF MovesTo, AccountsInv, JobOf
<1> QED BY <1>1, <1>7, <1>8, <1>9 DEF BooksTold

LEMMA BooksAreTold ==
  ASSUME TypeOK, TypeOK', CoreInv, BooksInv, ExclInv, AccountsInv, [Next]_vars
  PROVE  BooksTold /\ AccountsInv'
<1>1. BooksTold
  BY BookSteps, BooksByStill, BooksByWork, BooksByRequest, BooksByDocument, BooksBySettlement,
     BooksByRefund DEF BooksTold
<1>2. used' = SumFunctionOnSet(Held, Jobs)'
  <2>1. Unmoved \/ \E j \in Jobs, n \in Nat : Moved(j, n)
    BY <1>1, HeldTypes DEF BooksTold, Opens, Trims, Closes
  <2> QED BY <2>1, SumFollows
<1> QED BY <1>1, <1>2 DEF BooksTold, AccountsInv

LEMMA AccountsInvariant ==
  ASSUME Calm
  PROVE  Spec => []AccountsInv
<1>1. Init => AccountsInv
  <2> SUFFICES ASSUME Init PROVE AccountsInv
    OBVIOUS
  <2>1. \A j \in Jobs : Account(j) /\ HeldBy(j) = 0
    BY DEF Init, Account, Exists, NoDoc, HeldBy
  <2>2. \A j \in Jobs : Held[j] = 0
    BY <2>1 DEF Held
  <2>3. SumFunctionOnSet(Held, Jobs) = 0
    BY <2>2, SumOfZeros, ConstantsAssumption
  <2>4. used = 0 /\ \A a \in Actors : actor[a].pc # "refund"
    BY DEF Init, Idle
  <2> QED BY <2>1, <2>3, <2>4 DEF AccountsInv
<1>2. TypeOK /\ TypeOK' /\ CoreInv /\ BooksInv /\ ExclInv /\ AccountsInv /\ [Next]_vars
        => AccountsInv'
  BY BooksAreTold
<1>3. "dispatch" \notin Faults
  BY DEF Calm
<1>4. Spec => []BooksInv
  BY <1>3, BooksInvariant
<1>5. Spec => []ExclInv
  BY ExclInvariant
<1> QED BY <1>1, <1>2, <1>4, <1>5, TypeCorrect, CoreInvariant, PTL DEF Spec

-----------------------------------------------------------------------------
(* ImplementsLedger: with the domain to themselves, requests, workers and  *)
(* settlement together keep the partner's ledger.  A request opens one     *)
(* account within the cap, trims it at most before its job exists, and     *)
(* whoever closes it closes it once, at a charge within what it held.      *)
THEOREM LedgerIsImplemented ==
  ASSUME "late" \notin Faults, "stall" \notin Faults, "dispatch" \notin Faults
  PROVE  Spec => ImplementsLedger
<1> USE DEF Ledger!LedgerInit, Ledger!LedgerNext, Ledger!ledgerVars
<1>0. Calm
  BY DEF Calm
<1>1. Init => Ledger!LedgerInit
  <2> SUFFICES ASSUME Init PROVE Ledger!LedgerInit
    OBVIOUS
  <2>1. \A j \in Jobs : HeldBy(j) = 0 /\ closings[j] = 0 /\ api[j].seats = 0
    BY DEF Init, HeldBy, NoDoc
  <2> QED BY <2>1 DEF Init
<1>2. TypeOK /\ TypeOK' /\ CoreInv /\ BooksInv /\ ExclInv /\ AccountsInv /\ [Next]_vars
        => [Ledger!LedgerNext]_(Ledger!ledgerVars)
  <2> SUFFICES ASSUME TypeOK, TypeOK', CoreInv, BooksInv, ExclInv, AccountsInv, [Next]_vars
               PROVE  Ledger!LedgerNext \/ UNCHANGED Ledger!ledgerVars
    OBVIOUS
  <2> DEFINE balance == [j \in Jobs |-> HeldBy(j)]
             State(j) == IF closings[j] > 0 THEN "closed"
                         ELSE IF api[j].seats > 0 THEN "open" ELSE "none"
             account == [j \in Jobs |-> State(j)]
  <2>1. BooksTold
    BY BooksAreTold
  <2>2. CASE Unmoved
    <3>1. balance' = balance /\ account' = account
      BY <2>2 DEF Unmoved
    <3> QED BY <2>2, <3>1 DEF Unmoved
  <2>3. /\ \A j \in Jobs : balance[j] = HeldBy(j) /\ account[j] = State(j)
        /\ \A j \in Jobs : HeldBy(j) \in Nat /\ HeldBy(j) <= used
        /\ used \in Nat /\ Cap \in Nat
    BY HeldTypes, ConstantsAssumption
  <2>4. ASSUME NEW j \in Jobs, NEW n \in Nat, Moved(j, n)
        PROVE  /\ balance' = [balance EXCEPT ![j] = n]
               /\ \A s : State(j)' = s => account' = [account EXCEPT ![j] = s]
               /\ used' = used + (n - balance[j])
    <3>1. balance' = [balance EXCEPT ![j] = n] /\ used' = used + (n - balance[j])
      BY <2>3, <2>4 DEF Moved
    <3>2. \A i \in Jobs \ {j} : State(i)' = State(i)
      BY <2>4 DEF Moved
    <3>3. ASSUME NEW s, State(j)' = s PROVE account' = [account EXCEPT ![j] = s]
      <4> HIDE DEF State
      <4> QED BY <3>2, <3>3
    <3> QED BY <3>1, <3>3
  <2>5. ASSUME NEW j \in Jobs, Opens(j) PROVE Ledger!Open(j)
    <3>1. PICK n \in 1 .. Cap : used + n <= Cap /\ HeldBy(j) = 0 /\ Moved(j, n)
      BY <2>5 DEF Opens
    <3>2. account[j] = "none" /\ State(j)' = "open"
      BY <2>3, <2>5 DEF Opens
    <3>3. n \in Nat /\ balance[j] = 0
      BY <2>3, <3>1
    <3>4. /\ balance' = [balance EXCEPT ![j] = n]
          /\ account' = [account EXCEPT ![j] = "open"]
          /\ used' = used + (n - balance[j])
      BY <2>4, <3>1, <3>2, <3>3
    <3> HIDE DEF balance, account, State
    <3>5. used' = used + n
      BY <2>3, <3>3, <3>4
    <3>6. /\ account[j] = "none" /\ account' = [account EXCEPT ![j] = "open"]
          /\ \E m \in 1 .. Cap : /\ used + m <= Cap /\ used' = used + m
                                 /\ balance' = [balance EXCEPT ![j] = m]
      BY <3>1, <3>2, <3>4, <3>5
    <3> QED BY <3>6 DEF Ledger!Open, balance, account, State
  <2>6. ASSUME NEW j \in Jobs, Trims(j) PROVE Ledger!Trim(j)
    <3>1. PICK n \in 1 .. HeldBy(j) : Moved(j, n)
      BY <2>6 DEF Trims
    <3>2. account[j] = "open" /\ State(j)' = "open"
      BY <2>3, <2>6 DEF Trims
    <3>3. n \in Nat /\ n \in 1 .. balance[j] /\ balance[j] \in Nat
      BY <2>3, <3>1
    <3>4. /\ balance' = [balance EXCEPT ![j] = n]
          /\ account' = [account EXCEPT ![j] = "open"]
          /\ used' = used + (n - balance[j])
      BY <2>4, <3>1, <3>2, <3>3
    <3>5. account' = account
      BY <3>2, <3>4
    <3> HIDE DEF balance, account, State
    <3>6. used' = used - (balance[j] - n)
      BY <2>3, <3>3, <3>4
    <3>7. /\ account[j] = "open" /\ account' = account
          /\ \E m \in 1 .. balance[j] : /\ balance' = [balance EXCEPT ![j] = m]
                                        /\ used' = used - (balance[j] - m)
      BY <3>2, <3>3, <3>4, <3>5, <3>6
    <3> QED BY <3>7 DEF Ledger!Trim, balance, account, State
  <2>7. ASSUME NEW j \in Jobs, Closes(j) PROVE Ledger!Close(j)
    <3>1. PICK n \in 0 .. HeldBy(j) : Moved(j, n)
      BY <2>7 DEF Closes
    <3>2. account[j] = "open" /\ State(j)' = "closed"
      BY <2>3, <2>7 DEF Closes
    <3>3. n \in Nat /\ n \in 0 .. balance[j] /\ balance[j] \in Nat
      BY <2>3, <3>1
    <3>4. /\ balance' = [balance EXCEPT ![j] = n]
          /\ account' = [account EXCEPT ![j] = "closed"]
          /\ used' = used + (n - balance[j])
      BY <2>4, <3>1, <3>2, <3>3
    <3> HIDE DEF balance, account, State
    <3>5. used' = used - (balance[j] - n)
      BY <2>3, <3>3, <3>4
    <3>6. /\ account[j] = "open" /\ account' = [account EXCEPT ![j] = "closed"]
          /\ \E m \in 0 .. balance[j] : /\ balance' = [balance EXCEPT ![j] = m]
                                        /\ used' = used - (balance[j] - m)
      BY <3>2, <3>3, <3>4, <3>5
    <3> QED BY <3>6 DEF Ledger!Close, balance, account, State
  <2> QED BY <2>1, <2>2, <2>5, <2>6, <2>7 DEF BooksTold
<1>3. Spec => []BooksInv
  BY BooksInvariant
<1>4. Spec => []ExclInv
  BY <1>0, ExclInvariant
<1>5. Spec => []AccountsInv
  BY <1>0, AccountsInvariant
<1> QED BY <1>1, <1>2, <1>3, <1>4, <1>5, TypeCorrect, CoreInvariant, PTL
        DEF Spec, ImplementsLedger, Ledger!LedgerSpec

-----------------------------------------------------------------------------
(* Before settlement no worker touches the document of a settled job.      *)
LEMMA WorkSparesSettled ==
  ASSUME TypeOK, CoreInv, ExclInv, NEW w \in Workers, Work(w) \/ Beat(w)
  PROVE  \A j \in Jobs : job[j].settled => job'[j] = job[j]
<1>1. CASE ClaimRefused(w)
  BY <1>1 DEF ClaimRefused
<1>2. CASE ~ClaimRefused(w)
  <2>1. AtWork(w) \/ Claim(w)
    BY <1>2 DEF Work, Beat, Running, AtWork, Provisioning, EnsureCustomer, ListSeats, RecordBase,
       CreateSubscription, ScaleSeats, NoteAdded, Complete, StepRaises, MarkFailed, ReadCharge
  <2>2. \E s, r, b, n : Becomes(w, s, r, b, n)
    BY <1>2, ClaimDoes, BeatDoes, PlainDoes, BaseDoes, NoteDoes, ChargeDoes, SaleDoes
       DEF Work, Stays, SetsStatus
  <2>3. ~job[actor[w].job].settled
    BY <2>1, HasTheDomain DEF Open
  <2> QED BY <2>2, <2>3 DEF Becomes
<1> QED BY <1>1, <1>2

(* The two steps that give a job its document and its last figure, seen    *)
(* from the other jobs and threads.                                        *)
LEMMA DocumentIsNew ==
  ASSUME TypeOK, CoreInv, AccountsInv, NEW j \in Jobs, CreateJob(j)
  PROVE  /\ ~Exists(j) /\ job[j] = NoDoc /\ NewDoc(j) /\ job'[j].added = 0
         /\ \A i \in Jobs \ {j} : job'[i] = job[i] /\ SameDoc(i)
         /\ UNCHANGED <<google, actor>>
         /\ \A v \in Workers : AtWork(v) => actor[v].job \in Jobs \ {j}
<1> DEFINE r == [NoDoc EXCEPT !.status = "PENDING", !.reserved = api[j].seats]
<1>1. ~r.recorded /\ ~r.settled /\ r.added = 0
  BY DEF NoDoc
<1>2. job'[j] = r
  BY DEF TypeOK, CreateJob
<1> HIDE DEF r
<1>3. ~Exists(j) /\ job[j] = NoDoc
  BY DEF CreateJob, CoreInv, NewSteps, AccountsInv, Account
<1>4. \A i \in Jobs \ {j} : job'[i] = job[i] /\ SameDoc(i)
  BY DEF TypeOK, CreateJob, SameDoc
<1>5. \A v \in Workers : AtWork(v) => actor[v].job \in Jobs \ {j}
  BY <1>3, StepNames DEF TypeOK, ActorType, CoreInv, AtWork, Provisioning
<1> QED BY <1>1, <1>2, <1>3, <1>4, <1>5 DEF CreateJob, NewDoc, NoDoc

LEMMA SettleIsTurn ==
  ASSUME TypeOK, CoreInv, ExclInv, NEW w \in Workers, MarkSettled(w)
  PROVE  WorkerTurn(w) /\ AtWork(w) /\ ~AtWork(w)' /\ google' = google
<1>1. /\ actor[w].pc = "settle" /\ Goes(w, "refund") /\ google' = google
      /\ \A i \in Jobs \ {actor[w].job} : job'[i] = job[i]
  BY SettleDoes
<1>2. AtWork(w) /\ ~AtWork(w)'
  BY <1>1 DEF AtWork, Goes, Turns, Provisioning
<1> QED BY <1>1, <1>2, HasTheDomain DEF WorkerTurn, Goes, Turns

LEMMA WorkStaysQuiet ==
  ASSUME TypeOK, NEW v \in Workers, AtWork(v)'
  PROVE  /\ Still => actor'[v] = actor[v] /\ AtWork(v) /\ SameDoc(actor[v].job)
         /\ \A w \in Workers : Refund(w) => actor'[v] = actor[v] /\ AtWork(v)
<1>1. ASSUME Still
      PROVE  actor'[v] = actor[v] /\ AtWork(v) /\ SameDoc(actor[v].job)
  <2>1. actor'[v] = actor[v] /\ AtWork(v)
    BY <1>1, StepNames DEF Still, Busy, AtWork
  <2>2. actor[v].job \in Jobs
    BY <2>1, StepNames DEF TypeOK, ActorType, AtWork, Provisioning
  <2> QED BY <1>1, <2>1, <2>2 DEF Still
<1>2. ASSUME NEW w \in Workers, Refund(w)
      PROVE  actor'[v] = actor[v] /\ AtWork(v)
  <2>1. Goes(w, "unlock")
    BY <1>2, ThreadTo DEF Refund
  <2> QED BY <2>1, StepNames DEF Goes, Turns, AtWork, Provisioning
<1> QED BY <1>1, <1>2

LEMMA SalesStep ==
  ASSUME TypeOK, CoreInv, ExclInv, AccountsInv, SalesInv, [Next]_vars
  PROVE  SalesInv'
<1>1. CASE Still
  <2>1. \A v \in Workers : AtWork(v)' => /\ actor'[v] = actor[v] /\ AtWork(v)
                                         /\ SameDoc(actor[v].job)
    BY <1>1, WorkStaysQuiet
  <2> QED BY <1>1, <2>1, SalesKept DEF Still
<1>2. ASSUME NEW j \in Jobs, Reserve(j) \/ AssignPlan(j) \/ UndoReservation(j) PROVE SalesInv'
  <2>1. UNCHANGED <<job, google, actor>>
    BY <1>2 DEF Reserve, AssignPlan, UndoReservation
  <2> QED BY <2>1, SalesKept DEF SameDoc, AtWork
<1>3. ASSUME NEW j \in Jobs, CreateJob(j) PROVE SalesInv'
  BY <1>3, DocumentIsNew, SalesKept DEF AtWork
<1>4. ASSUME NEW w \in Workers, MarkSettled(w) PROVE SalesInv'
  <2> DEFINE k == actor[w].job
  <2>1. WorkerTurn(w) /\ AtWork(w) /\ ~AtWork(w)' /\ google' = google
    BY <1>4, SettleIsTurn
  <2>2. /\ k \in Jobs /\ ~job[k].settled
        /\ job'[k].settled /\ job'[k].added = actor[w].charge
        /\ job'[k].status = job[k].status
        /\ job'[k].recorded = job[k].recorded /\ job'[k].before = job[k].before
        /\ actor[w].pc = "settle"
    BY <1>4, SettleDoes
  <2>3. \A j \in Jobs : j = k => JobSales(j)'
    <3>1. JobSales(k) /\ Informed(w)
      BY <2>1, <2>2 DEF SalesInv
    <3>2. job[k].status = "COMPLETED" =>
            job[k].recorded /\ job'[k].added = google[DomainOf[k]] - job[k].before
      BY <2>2, <3>1 DEF Informed, JobOf, Gained
    <3> HIDE DEF k
    <3> QED BY <2>1, <2>2, <3>1, <3>2 DEF JobSales, Open
  <2>4. InitialSeats[Dom(w)] <= google'[Dom(w)]
    BY <2>1 DEF SalesInv, WorkerTurn, Dom
  <2> QED BY <2>1, <2>3, <2>4, SalesFrame
<1>5. ASSUME NEW w \in Workers, Refund(w) PROVE SalesInv'
  <2>1. job' = job /\ google' = google
    BY <1>5 DEF Refund
  <2>2. \A j : SameDoc(j)
    BY <2>1 DEF SameDoc
  <2> QED BY <1>5, <2>1, <2>2, WorkStaysQuiet, SalesKept
<1> QED BY <1>1, <1>2, <1>3, <1>4, <1>5, BookSteps, SalesByWork

LEMMA SalesInvariant ==
  ASSUME Calm
  PROVE  Spec => []SalesInv
<1>1. Init => SalesInv
  <2> SUFFICES ASSUME Init PROVE SalesInv
    OBVIOUS
  <2>1. google = InitialSeats /\ \A j \in Jobs : job[j] = NoDoc /\ DomainOf[j] \in Domains
    BY ConstantsAssumption DEF Init
  <2>2. \A d \in Domains : InitialSeats[d] <= google[d]
    BY <2>1, ConstantsAssumption
  <2>3. \A w \in Workers : ~AtWork(w)
    BY StepNames DEF Init, Idle, AtWork, Provisioning
  <2>4. \A j \in Jobs : JobSales(j)
    BY <2>1 DEF JobSales, Open, Exists, NoDoc
  <2> QED BY <2>2, <2>3, <2>4 DEF SalesInv
<1>2. TypeOK /\ CoreInv /\ ExclInv /\ AccountsInv /\ SalesInv /\ [Next]_vars => SalesInv'
  BY SalesStep
<1>3. Spec => []ExclInv
  BY ExclInvariant
<1>4. Spec => []AccountsInv
  BY AccountsInvariant
<1> QED BY <1>1, <1>2, <1>3, <1>4, TypeCorrect, CoreInvariant, PTL DEF Spec

(* ResumeChargesExactly: however often it was resumed, a job that completes *)
(* on a domain of its own is charged what the domain gained, because the   *)
(* first attempt's seats_before is what the last one subtracts.            *)
THEOREM ResumedJobsChargedExactly ==
  ASSUME "late" \notin Faults, "stall" \notin Faults, "dispatch" \notin Faults
  PROVE  Spec => []ResumeChargesExactly
<1>1. TypeOK /\ SalesInv => ResumeChargesExactly
  <2> SUFFICES ASSUME TypeOK, SalesInv, NEW j \in Jobs,
                      job[j].settled, job[j].status = "COMPLETED",
                      \A k \in Jobs \ {j} : DomainOf[k] # DomainOf[j]
               PROVE  job[j].added = SeatsSold(DomainOf[j])
    BY DEF ResumeChargesExactly
  <2>1. job[j].added = google[DomainOf[j]] - InitialSeats[DomainOf[j]]
    BY DEF SalesInv, JobSales, Sole
  <2>2. /\ google[DomainOf[j]] \in Nat /\ InitialSeats[DomainOf[j]] \in Nat
        /\ InitialSeats[DomainOf[j]] <= google[DomainOf[j]]
    BY ConstantsAssumption DEF TypeOK, SalesInv
  <2> QED BY <2>1, <2>2 DEF SeatsSold, Minus
<1>2. Calm
  BY DEF Calm
<1>3. Spec => []SalesInv
  BY <1>2, SalesInvariant
<1> QED BY <1>1, <1>3, TypeCorrect, PTL

(* ChargeIsFinal: the figure a refund was computed from stays on record.   *)
THEOREM ChargesAreFinal ==
  ASSUME "late" \notin Faults, "stall" \notin Faults, "dispatch" \notin Faults
  PROVE  Spec => ChargeIsFinal
<1> DEFINE Final ==
             \A j \in Jobs : job[j].settled => job'[j].settled /\ job'[j].added = job[j].added
<1>1. TypeOK /\ CoreInv /\ ExclInv /\ AccountsInv /\ [Next]_vars => Final
  <2> SUFFICES ASSUME TypeOK, CoreInv, ExclInv, AccountsInv, [Next]_vars PROVE Final
    OBVIOUS
  <2>1. CASE Still
    BY <2>1 DEF Still, SameDoc
  <2>2. ASSUME NEW j \in Jobs, Reserve(j) \/ AssignPlan(j) \/ UndoReservation(j) PROVE Final
    BY <2>2 DEF Reserve, AssignPlan, UndoReservation
  <2>3. ASSUME NEW j \in Jobs, CreateJob(j) PROVE Final
    <3>1. ~job[j].settled /\ \A i \in Jobs \ {j} : job'[i] = job[i]
      BY <2>3, DocumentIsNew DEF NoDoc
    <3> QED BY <3>1
  <2>4. ASSUME NEW w \in Workers, MarkSettled(w) PROVE Final
    BY <2>4, SettleDoes
  <2>5. ASSUME NEW w \in Workers, Refund(w) PROVE Final
    BY <2>5 DEF Refund
  <2>6. ASSUME NEW w \in Workers, Work(w) \/ Beat(w) PROVE Final
    BY <2>6, WorkSparesSettled
  <2> QED BY <2>1, <2>2, <2>3, <2>4, <2>5, <2>6, BookSteps
<1>2. TypeOK /\ CoreInv /\ ExclInv /\ AccountsInv /\ [Next]_vars => [Final]_vars
  BY <1>1
<1>3. Calm
  BY DEF Calm
<1>4. Spec => []ExclInv
  BY <1>3, ExclInvariant
<1>5. Spec => []AccountsInv
  BY <1>3, AccountsInvariant
<1> QED BY <1>2, <1>4, <1>5, TypeCorrect, CoreInvariant, PTL DEF Spec, ChargeIsFinal

-----------------------------------------------------------------------------
(* Without crashes an attempt that has begun goes on until its job is      *)
(* settled.                                                                *)
LEMMA LateGoesOn ==
  ASSUME TypeOK, CoreInv, ExclInv, [Next]_vars, MaxCrashes = 0,
         NEW w \in Workers, actor[w].pc \in Late
  PROVE  /\ actor'[w].job = actor[w].job
         /\ actor'[w].pc \in Late \/ job'[actor[w].job].settled
<1> DEFINE On == /\ actor'[w].job = actor[w].job
                 /\ actor'[w].pc \in Late \/ job'[actor[w].job].settled
<1>0. /\ actor[w].pc \notin {"idle", "claim", "refund", "unlock"} /\ AtWork(w) /\ ~JobOf(w).settled
      /\ crashes \in Nat /\ w \in Actors
  BY StepNames DEF Late, AtWork, Provisioning, ExclInv, AtWorkInv, TypeOK
<1>1. CASE \E j \in Jobs : Accept(j)
  <2>1. actor' = actor
    BY <1>1 DEF Accept, AcquireLock, DomainBusy, Reserve, OverQuota, AssignPlan, CreateJob,
       Dispatch, DispatchRaises, AcceptRaises, AcceptEscapes, UndoReservation, UnlockRefused
  <2> QED BY <2>1
<1>2. CASE \E v \in Workers, j \in Jobs : Deliver(v, j)
  <2>1. actor'[w] = actor[w]
    BY <1>0, <1>2 DEF Deliver, TypeOK, ActorType
  <2> QED BY <2>1
<1>3. ASSUME NEW v \in Workers, Work(v) \/ Beat(v) PROVE On
  <2>1. CASE v # w
    <3>1. actor'[w] = actor[w]
      <4>1. CASE ClaimRefused(v)
        BY <1>0, <2>1, <4>1 DEF ClaimRefused, TypeOK, ActorType
      <4>2. CASE Beat(v)
        BY <4>2 DEF Beat
      <4>3. CASE ~ClaimRefused(v) /\ ~Beat(v)
        <5>1. \E p, c, e, g : Turns(v, p, c, e, g)
          BY <1>3, <4>3, ClaimDoes, PlainDoes, BaseDoes, NoteDoes, ChargeDoes, SaleDoes
             DEF Work, Goes
        <5> QED BY <1>0, <2>1, <5>1 DEF Turns
      <4> QED BY <4>1, <4>2, <4>3
    <3> QED BY <3>1
  <2>2. CASE v = w
    <3>1. CASE Claim(w) \/ ClaimRefused(w) \/ EnsureCustomer(w) \/ ListSeats(w) \/ RecordBase(w)
      BY <1>0, <3>1 DEF Claim, ClaimRefused, EnsureCustomer, ListSeats, RecordBase, Late
    <3>2. CASE Beat(w)
      BY <3>2 DEF Beat
    <3>3. CASE Complete(w) \/ StepRaises(w) \/ MarkFailed(w)
      BY <3>3, PlainDoes DEF Goes, Turns, Late
    <3>4. CASE NoteAdded(w)
      BY <3>4, NoteDoes DEF Turns, Late
    <3>5. CASE ReadCharge(w)
      BY <3>5, ChargeDoes DEF Turns, Late
    <3>6. CASE CreateSubscription(w) \/ ScaleSeats(w)
      BY <3>6, SaleDoes DEF Turns, Late
    <3> QED BY <1>3, <2>2, <3>1, <3>2, <3>3, <3>4, <3>5, <3>6 DEF Work
  <2> QED BY <2>1, <2>2
<1>4. CASE \E r \in Reconcilers : FailStale(r) \/ \E j \in Jobs : Snapshot(r, j)
  <2>1. actor'[w] = actor[w]
    BY <1>0, <1>4, RolesDiffer DEF FailStale, Snapshot, To, TypeOK, ActorType
  <2> QED BY <2>1
<1>5. ASSUME NEW a \in Actors, Settle(a) PROVE On
  <2>1. a \in Workers
    BY <1>5 DEF Settle, MarkSettled, AlreadySettled, Refund, RefundRaises, Unlock, Actors,
       ExclInv, AtWorkInv
  <2>2. CASE a # w
    BY <1>0, <1>5, <2>2 DEF Settle, MarkSettled, AlreadySettled, Refund, RefundRaises, Unlock, To,
       Done, TypeOK, ActorType
  <2>3. CASE a = w
    <3>1. MarkSettled(w)
      BY <1>0, <1>5, <2>3 DEF Settle, AlreadySettled, Refund, RefundRaises, Unlock
    <3> QED BY <2>1, <3>1, SettleDoes DEF Goes, Turns
  <2> QED BY <2>2, <2>3
<1>6. CASE Time \/ UNCHANGED vars
  BY <1>6 DEF Time, Lapse, GoSilent, LockExpires, vars
<1>7. ~Crash
  BY <1>0 DEF Crash, CrashApi, CrashActor, CrashServer
<1> QED BY <1>1, <1>2, <1>3, <1>4, <1>5, <1>6, <1>7 DEF Next

LEMMA BegunStep ==
  ASSUME TypeOK, CoreInv, ExclInv, AccountsInv, BegunInv, [Next]_vars
  PROVE  BegunInv'
<1> SUFFICES ASSUME MaxCrashes = 0, NEW j \in Jobs, Open(j)', job'[j].recorded
             PROVE  \E w \in Workers : actor'[w].job = j /\ actor'[w].pc \in Late
  BY DEF BegunInv
<1>1. CASE Open(j) /\ job[j].recorded
  <2>1. PICK w \in Workers : actor[w].job = j /\ actor[w].pc \in Late
    BY <1>1 DEF BegunInv
  <2> QED BY <2>1, LateGoesOn DEF Open
<1>2. CASE ~(Open(j) /\ job[j].recorded)
  <2>1. ~Still
    BY <1>2 DEF Still, SameDoc, Open, Exists
  <2>2. ASSUME NEW i \in Jobs, Reserve(i) \/ AssignPlan(i) \/ UndoReservation(i) PROVE FALSE
    BY <1>2, <2>2 DEF Reserve, AssignPlan, UndoReservation, Open, Exists
  <2>3. ASSUME NEW i \in Jobs, CreateJob(i) PROVE FALSE
    BY <1>2, <2>3, DocumentIsNew DEF NewDoc, SameDoc, Open, Exists
  <2>4. ASSUME NEW w \in Workers, MarkSettled(w) PROVE FALSE
    BY <1>2, <2>4, SettleDoes DEF Open, Exists
  <2>5. ASSUME NEW w \in Workers, Refund(w) PROVE FALSE
    BY <1>2, <2>5 DEF Refund, Open, Exists
  <2>6. PICK w \in Workers : Work(w) \/ Beat(w)
    BY <2>1, <2>2, <2>3, <2>4, <2>5, BookSteps
  <2>7. RecordBase(w)
    <3>1. ~ClaimRefused(w)
      BY <1>2 DEF ClaimRefused, Open, Exists
    <3>2. AtWork(w) \/ Claim(w)
      BY <2>6, <3>1 DEF Work, Beat, Running, AtWork, Provisioning, EnsureCustomer, ListSeats,
         RecordBase, CreateSubscription, ScaleSeats, NoteAdded, Complete, StepRaises, MarkFailed,
         ReadCharge
    <3>3. actor[w].job \in Jobs /\ Open(actor[w].job)
      BY <3>2, HasTheDomain
    <3>4. ASSUME NEW s, NEW b, NEW n, Becomes(w, s, JobOf(w).recorded, b, n) PROVE FALSE
      <4>1. job'[j].recorded = job[j].recorded /\ (Open(j)' => Open(j))
        BY <3>3, <3>4 DEF Becomes, JobOf, Open, Exists
      <4> QED BY <1>2, <4>1
    <3> QED BY <2>6, <3>1, <3>4, ClaimDoes, BeatDoes, PlainDoes, NoteDoes, ChargeDoes, SaleDoes
            DEF Work, Stays, SetsStatus
  <2>8. /\ actor'[w].pc \in Late /\ actor'[w].job = actor[w].job
        /\ \A i \in Jobs \ {actor[w].job} : job'[i] = job[i]
    BY <2>7, BaseDoes DEF Becomes, Turns, Late
  <2>9. actor[w].job = j
    BY <1>2, <2>8 DEF Open, Exists
  <2> QED BY <2>8, <2>9
<1> QED BY <1>1, <1>2

LEMMA BegunInvariant ==
  ASSUME Calm
  PROVE  Spec => []BegunInv
<1>1. Init => BegunInv
  BY DEF Init, NoDoc, BegunInv
<1>2. TypeOK /\ CoreInv /\ ExclInv /\ AccountsInv /\ BegunInv /\ [Next]_vars => BegunInv'
  BY BegunStep
<1>3. Spec => []ExclInv
  BY ExclInvariant
<1>4. Spec => []AccountsInv
  BY AccountsInvariant
<1> QED BY <1>1, <1>2, <1>3, <1>4, TypeCorrect, CoreInvariant, PTL DEF Spec

-----------------------------------------------------------------------------
(* Whoever works on an open job: what a candid record says of it.          *)
LEMMA GainTypes ==
  /\ TypeOK => \A j \in Jobs : Gained(j) \in Int /\ DomainOf[j] \in Domains
  /\ TypeOK' => \A j \in Jobs : Gained(j)' \in Int
BY ConstantsAssumption DEF TypeOK, JobRecord, Gained

LEMMA SoldTypes ==
  ASSUME TypeOK, TypeOK'
  PROVE  \A d \in Domains : google[d] \in Nat /\ google'[d] \in Nat /\ InitialSeats[d] \in Nat
BY ConstantsAssumption DEF TypeOK

(* Sales and gains move together: one domain and the job at work on it.    *)
LEMMA SalesMatchGains ==
  ASSUME TypeOK, TypeOK', CandidInv, NEW k \in Jobs,
         \A i \in Jobs \ {k} : Gained(i)' = Gained(i),
         \A d \in Domains \ {DomainOf[k]} : google'[d] = google[d],
         Gained(k)' - Gained(k) = google'[DomainOf[k]] - google[DomainOf[k]]
  PROVE  SumFunctionOnSet(Sold, Domains)' = SumFunctionOnSet(Gains, Jobs)'
<1> DEFINE f == Gains
           g == Gains'
           s == Sold
           t == Sold'
           d == DomainOf[k]
<1>1. IsFiniteSet(Jobs) /\ IsFiniteSet(Domains) /\ d \in Domains
  BY ConstantsAssumption
<1>2. /\ \A i \in Jobs : f[i] = Gained(i) /\ g[i] = Gained(i)' /\ f[i] \in Int /\ g[i] \in Int
      /\ \A i \in Jobs \ {k} : g[i] = f[i]
  BY GainTypes DEF Gains
<1>3. /\ \A e \in Domains : /\ s[e] = google[e] - InitialSeats[e] /\ s[e] \in Int
                            /\ t[e] = google'[e] - InitialSeats[e] /\ t[e] \in Int
      /\ \A e \in Domains \ {d} : t[e] = s[e]
  BY SoldTypes DEF Sold
<1>4. SumFunctionOnSet(s, Domains) = SumFunctionOnSet(f, Jobs)
  BY DEF CandidInv
<1>5. t[d] - s[d] = g[k] - f[k]
  BY <1>1, <1>2, <1>3, SoldTypes
<1>6. SumFunctionOnSet(f, Jobs) \in Int
  <2> HIDE DEF f, g, s, t
  <2> QED BY <1>1, <1>2, SumIsInteger
<1>7. SumFunctionOnSet(g, Jobs) = SumFunctionOnSet(f, Jobs) + (g[k] - f[k])
  <2> HIDE DEF f, g, s, t
  <2> QED BY <1>1, <1>2, SumChanges
<1>8. SumFunctionOnSet(t, Domains) = SumFunctionOnSet(s, Domains) + (t[d] - s[d])
  <2>1. /\ \A e \in Domains : s[e] \in Int /\ t[e] \in Int
        /\ \A e \in Domains \ {d} : t[e] = s[e]
    BY <1>3
  <2> HIDE DEF f, g, s, t, d
  <2> QED BY <1>1, <2>1, SumChanges
<1>9. SumFunctionOnSet(t, Domains) = SumFunctionOnSet(g, Jobs)
  <2> HIDE DEF f, g, s, t, d
  <2> QED BY <1>4, <1>5, <1>7, <1>8
<1> QED BY <1>9

(* The turn of a worker leaves the records of the other jobs as candid.    *)
LEMMA CandidFrame ==
  ASSUME TypeOK, TypeOK', CoreInv, ExclInv, AccountsInv, CandidInv,
         NEW w \in Workers, WorkerTurn(w), WorkerCandid(w)',
         \A k \in Jobs : k = actor[w].job =>
           /\ JobCandid(k)'
           /\ Gained(k)' - Gained(k) = google'[DomainOf[k]] - google[DomainOf[k]]
  PROVE  CandidInv'
<1> PICK k \in Jobs : k = actor[w].job
  BY DEF WorkerTurn
<1>1. ASSUME NEW v \in Workers, v # w PROVE WorkerCandid(v)'
  <2> SUFFICES ASSUME actor'[v].pc \in {"failing", "failed", "settle"} PROVE WorkerCandid(v)'
    BY DEF WorkerCandid
  <2>1. actor'[v] = actor[v]
    BY <1>1, StepNames DEF WorkerTurn
  <2>2. AtWork(v) /\ actor[v].job \in Jobs
    BY <2>1, StepNames DEF AtWork, Provisioning, TypeOK, ActorType
  <2> PICK i \in Jobs : i = actor[v].job
    BY <2>2
  <2>3. i # k
    BY <1>1, <2>2 DEF WorkerTurn
  <2>4. job'[i] = job[i] /\ Gained(i)' = Gained(i)
    BY <2>3, OthersGain
  <2>5. Gained(actor[v].job)' = Gained(actor[v].job)
    BY <2>1, <2>4 DEF Gained
  <2>6. JobOf(v)' = JobOf(v)
    BY <2>1, <2>4 DEF JobOf
  <2> QED BY <2>1, <2>5, <2>6 DEF CandidInv, WorkerCandid
<1>2. ASSUME NEW i \in Jobs, i # k PROVE JobCandid(i)'
  <2>1. job'[i] = job[i] /\ Open(i)' = Open(i) /\ JobCandid(i) /\ Gained(i)' = Gained(i)
    BY <1>2, OthersGain DEF CandidInv
  <2>2. CASE DomainOf[i] # Dom(w)
    <3>1. google'[DomainOf[i]] = google[DomainOf[i]]
      BY <1>2, <2>2, OthersGain
    <3> QED BY <2>1, <3>1 DEF JobCandid
  <2>3. CASE DomainOf[i] = Dom(w)
    <3>1. ~Open(i) /\ ~Sole(i)
      BY <1>2, <2>3, OthersGain DEF Sole, Dom, WorkerTurn
    <3> QED BY <2>1, <3>1 DEF JobCandid, Sole
  <2> QED BY <2>2, <2>3
<1>3. SumFunctionOnSet(Sold, Domains)' = SumFunctionOnSet(Gains, Jobs)'
  <2>1. \A i \in Jobs \ {k} : Gained(i)' = Gained(i)
    BY OthersGain
  <2>2. \A d \in Domains \ {DomainOf[k]} : google'[d] = google[d]
    BY DEF WorkerTurn
  <2>3. Gained(k)' - Gained(k) = google'[DomainOf[k]] - google[DomainOf[k]]
    OBVIOUS
  <2> QED BY <2>1, <2>2, <2>3, SalesMatchGains
<1>4. \A j \in Jobs : JobCandid(j)'
  BY <1>2
<1> QED BY <1>1, <1>3, <1>4 DEF CandidInv

(* Steps that change neither records nor Google leave both candid.         *)
Fresh(j) == NewDoc(j) /\ ~job[j].settled /\ job'[j].added = 0

LEMMA CandidKept ==
  ASSUME TypeOK, CandidInv, google' = google,
         \A j \in Jobs : SameDoc(j) \/ Fresh(j),
         \A v \in Workers : AtWork(v)' => /\ actor'[v] = actor[v] /\ AtWork(v)
                                          /\ SameDoc(actor[v].job)
  PROVE  CandidInv'
<1>1. \A j \in Jobs : Gained(j)' = Gained(j)
  BY DEF SameDoc, Fresh, NewDoc, Gained
<1>2. \A j \in Jobs : JobCandid(j)'
  <2> SUFFICES ASSUME NEW j \in Jobs PROVE JobCandid(j)'
    OBVIOUS
  <2>1. CASE SameDoc(j)
    BY <1>1, <2>1 DEF CandidInv, JobCandid, SameDoc, Open, Exists
  <2>2. CASE Fresh(j)
    BY <2>2 DEF JobCandid, Fresh, NewDoc
  <2> QED BY <2>1, <2>2
<1>3. ASSUME NEW v \in Workers PROVE WorkerCandid(v)'
  <2> SUFFICES ASSUME actor'[v].pc \in {"failing", "failed", "settle"} PROVE WorkerCandid(v)'
    BY DEF WorkerCandid
  <2>1. actor'[v] = actor[v] /\ SameDoc(actor[v].job)
    BY DEF AtWork, Provisioning
  <2>2. /\ Gained(actor[v].job)' = Gained(actor[v].job)
        /\ JobOf(v)'.added = JobOf(v).added
    BY <2>1 DEF SameDoc, JobOf, Gained
  <2> QED BY <2>1, <2>2 DEF CandidInv, WorkerCandid
<1>4. Sold' = Sold /\ Gains' = Gains
  BY <1>1 DEF Sold, Gains
<1> QED BY <1>2, <1>3, <1>4 DEF CandidInv

(* Where a step of a worker may fail: nothing has been sold that is not    *)
(* written down.                                                           *)
LEMMA FailsCandidly ==
  ASSUME TypeOK, CoreInv, ExclInv, AccountsInv, SalesInv, BegunInv, CandidInv, Candid,
         NEW w \in Workers, StepRaises(w)
  PROVE  JobOf(w).added = Gained(actor[w].job)
<1> PICK k \in Jobs : k = actor[w].job
  BY StepNames DEF TypeOK, ActorType, StepRaises, Provisioning
<1>1. /\ AtWork(w) /\ Open(k) /\ JobOf(w) = job[k] /\ JobCandid(k) /\ JobSales(k)
      /\ Informed(w) /\ job[k].reserved > 0 /\ ~job[k].settled
  <2>1. AtWork(w)
    BY DEF StepRaises, AtWork
  <2> QED BY <2>1, WorkIsOpen DEF SalesInv, CandidInv, AccountsInv, Account, JobOf, Open
<1>2. ~SoldUnrecorded(w) /\ MaxCrashes = 0
  BY DEF StepRaises, Candid
<1>3. /\ google[DomainOf[k]] \in Nat /\ job[k].before \in Nat /\ job[k].reserved \in Nat
      /\ actor[w].current \in Nat /\ actor[w].base \in Nat /\ job[k].added \in Nat
  BY StepNames, ConstantsAssumption DEF TypeOK, JobRecord, ActorType, ActorRecord
<1>4. CASE actor[w].pc \in {"validate", "list", "base"}
  <2>1. ~job[k].recorded
    <3> SUFFICES ASSUME job[k].recorded PROVE FALSE
      OBVIOUS
    <3>1. PICK v \in Workers : actor[v].job = k /\ actor[v].pc \in Late
      BY <1>1, <1>2 DEF BegunInv
    <3>2. AtWork(v) /\ v # w
      BY <1>4, <3>1 DEF Late, AtWork, Provisioning
    <3> QED BY <1>1, <3>1, <3>2 DEF ExclInv, AtWorkInv
  <2> QED BY <1>1, <2>1 DEF JobCandid, Gained
<1>5. CASE actor[w].pc = "create"
  BY <1>1, <1>3, <1>5 DEF Informed, Dom, JobCandid, JobSales, Gained
<1>6. CASE actor[w].pc \in {"scale", "note"}
  BY <1>1, <1>2, <1>3, <1>6 DEF SoldUnrecorded, Informed, Dom, JobCandid, JobSales, Gained
<1>7. CASE actor[w].pc = "finish"
  BY <1>1, <1>7 DEF Informed
<1> QED BY <1>4, <1>5, <1>6, <1>7 DEF StepRaises, Provisioning

LEMMA CandidByWork ==
  ASSUME TypeOK, TypeOK', CoreInv, ExclInv, AccountsInv, SalesInv, BegunInv, CandidInv, Candid,
         NEW w \in Workers, Work(w) \/ Beat(w)
  PROVE  CandidInv'
<1>1. CASE ClaimRefused(w)
  <2>1. /\ job' = job /\ google' = google
        /\ \A v \in Workers : AtWork(v)' => actor'[v] = actor[v] /\ AtWork(v)
    BY <1>1, StepNames, IdleType DEF ClaimRefused, TypeOK, ActorType, AtWork, Provisioning
  <2>2. \A j : SameDoc(j)
    BY <2>1 DEF SameDoc
  <2> QED BY <2>1, <2>2, CandidKept
<1> SUFFICES ASSUME ~ClaimRefused(w) PROVE CandidInv'
  BY <1>1
<1>2. AtWork(w) \/ Claim(w)
  BY DEF Work, Beat, Running, AtWork, Provisioning, EnsureCustomer, ListSeats, RecordBase,
     CreateSubscription, ScaleSeats, NoteAdded, Complete, StepRaises, MarkFailed, ReadCharge
<1> PICK k \in Jobs : k = actor[w].job
  BY <1>2, HasTheDomain
<1> DEFINE d == DomainOf[k]
<1>3. /\ Open(k) /\ d \in Domains /\ JobSales(k) /\ JobCandid(k) /\ WorkerCandid(w)
      /\ google[d] \in Nat /\ InitialSeats[d] \in Nat
      /\ job[k].before \in Nat /\ job[k].added \in Nat /\ job[k].reserved \in Nat
      /\ Target(w) = job[k].reserved /\ JobOf(w) = job[k] /\ Dom(w) = d
      /\ ~job[k].settled /\ job[k].reserved > 0
      /\ AtWork(w) => Informed(w)
      /\ Batch \in Nat \ {0}
  <2>1. Open(k) /\ d \in Domains
    BY <1>2, HasTheDomain
  <2> QED BY <2>1, RecordTypes, ConstantsAssumption
          DEF TypeOK, SalesInv, CandidInv, AccountsInv, Account, Target, JobOf, Open, Dom
<1>4. CASE Claim(w) \/ Beat(w) \/ ListSeats(w) \/ EnsureCustomer(w) \/ Complete(w)
           \/ StepRaises(w) \/ MarkFailed(w) \/ ReadCharge(w)
  <2>1. PICK s, p, c, g :
          /\ SetsStatus(w, s) /\ Turns(w, p, c, actor[w].base, g) /\ google' = google
          /\ p \in {"failing", "failed"} =>
               \/ StepRaises(w)
               \/ actor[w].pc \in {"failing", "failed"}
          /\ p = "settle" => \/ actor[w].pc = "finish" /\ g = actor[w].charge
                             \/ actor[w].pc = "failed" /\ g = job[k].added
    <3>1. CASE Claim(w)
      BY <3>1, ClaimDoes DEF Stays, SetsStatus, Goes
    <3>2. CASE Beat(w)
      <4>1. Stays(w) /\ Goes(w, actor[w].pc) /\ google' = google
        BY <3>2, BeatDoes DEF Goes, Turns
      <4>2. actor[w].pc # "settle"
        BY <3>2 DEF Beat, Running, Provisioning
      <4> QED BY <4>1, <4>2 DEF Stays, SetsStatus, Goes
    <3>3. CASE ListSeats(w)
      BY <3>3, PlainDoes DEF Stays, SetsStatus
    <3>4. CASE EnsureCustomer(w) \/ StepRaises(w) \/ MarkFailed(w) \/ Complete(w)
      BY <3>4, PlainDoes DEF Stays, SetsStatus, Goes
    <3>5. CASE ReadCharge(w)
      BY <1>3, <3>5, ChargeDoes
    <3> QED BY <1>4, <3>1, <3>2, <3>3, <3>4, <3>5
  <2>2. WorkerTurn(w)
    BY <1>2, <2>1, TurnOfWorker DEF SetsStatus
  <2>3. /\ job'[k].recorded = job[k].recorded /\ job'[k].before = job[k].before
        /\ job'[k].added = job[k].added /\ job'[k].reserved = job[k].reserved
        /\ job'[k].settled = job[k].settled /\ actor'[w].job = k
        /\ actor'[w].pc = p /\ actor'[w].charge = g
    BY <1>3, <2>1 DEF SetsStatus, Becomes, Turns, JobOf
  <2>4. Gained(k)' = Gained(k)
    BY <2>1, <2>3 DEF Gained
  <2>5. JobCandid(k)'
    BY <1>3, <2>1, <2>3, <2>4 DEF JobCandid, Open
  <2>6. p \in {"failing", "failed"} => job[k].added = Gained(k)
    BY <1>3, <2>1, FailsCandidly DEF WorkerCandid
  <2>7. p = "settle" => g = Gained(k)
    BY <1>2, <1>3, <2>1 DEF WorkerCandid, Informed, AtWork, Claim, Provisioning
  <2>8. WorkerCandid(w)'
    <3>1. JobOf(w)'.added = job[k].added /\ Gained(actor[w].job)' = Gained(k)
      BY <2>3, <2>4 DEF JobOf, Gained
    <3> QED BY <2>3, <2>6, <2>7, <3>1 DEF WorkerCandid
  <2>9. Gained(k)' - Gained(k) = google'[DomainOf[k]] - google[DomainOf[k]]
    BY <1>3, <2>1, <2>4, GainTypes
  <2> QED BY <2>2, <2>5, <2>8, <2>9, CandidFrame
<1>5. CASE RecordBase(w)
  <2> DEFINE now  == actor[w].current
             base == IF JobOf(w).recorded THEN JobOf(w).before ELSE now
             next == IF now > Target(w) THEN "failing"
                     ELSE IF now = 0 THEN "create"
                     ELSE IF now < Target(w) THEN "scale" ELSE "note"
  <2>1. /\ actor[w].pc = "base" /\ google' = google
        /\ Becomes(w, JobOf(w).status, TRUE, base, JobOf(w).added)
        /\ Turns(w, next, now, base, actor[w].charge)
    BY <1>5, BaseDoes
  <2>2. AtWork(w)
    BY <2>1 DEF AtWork, Provisioning
  <2>3. WorkerTurn(w)
    BY <2>1, <2>2, TurnOfWorker
  <2>4. now = google[d]
    BY <1>3, <2>1, <2>2 DEF Informed
  <2>5. /\ job'[k].recorded
        /\ job'[k].before = IF job[k].recorded THEN job[k].before ELSE google[d]
        /\ job'[k].added = job[k].added /\ job'[k].reserved = job[k].reserved
        /\ ~job'[k].settled /\ actor'[w].job = k /\ job'[k].status = job[k].status
        /\ actor'[w].pc = next /\ next \notin {"failed", "settle"}
        /\ next = "failing" => google[d] > job[k].reserved
    BY <1>3, <2>1, <2>4 DEF Becomes, Turns, JobOf
  <2> HIDE DEF now, base, next
  <2>6. Gained(k)' = Gained(k)
    BY <1>3, <2>1, <2>5 DEF Gained
  <2>7. JobCandid(k)'
    BY <1>3, <2>1, <2>5, <2>6 DEF JobCandid, Open, Exists
  <2>8. next = "failing" => job[k].added = Gained(k)
    BY <1>3, <2>5 DEF JobCandid, JobSales, Gained
  <2>9. WorkerCandid(w)'
    <3>1. JobOf(w)'.added = job[k].added /\ Gained(actor[w].job)' = Gained(k)
      BY <2>5, <2>6 DEF JobOf, Gained
    <3> QED BY <2>5, <2>8, <3>1 DEF WorkerCandid
  <2>10. Gained(k)' - Gained(k) = google'[DomainOf[k]] - google[DomainOf[k]]
    BY <1>3, <2>1, <2>6, GainTypes
  <2> QED BY <2>3, <2>7, <2>9, <2>10, CandidFrame
<1>6. CASE CreateSubscription(w) \/ ScaleSeats(w)
  <2>1. PICK now \in Nat, pc \in Provisioning :
           /\ Stays(w) /\ Turns(w, pc, now, actor[w].base, actor[w].charge)
           /\ google' = [google EXCEPT ![Dom(w)] = now]
           /\ actor[w].pc \in {"create", "scale"}
           /\ pc # "failing" => pc \in {"scale", "note"}
           /\ pc = "failing" => \/ "halfDone" \in Faults
                                \/ actor[w].pc = "create" /\ google[Dom(w)] # 0
    BY <1>6, SaleDoes
  <2>2. AtWork(w) /\ Informed(w)
    BY <1>3, <2>1 DEF AtWork, Provisioning
  <2>3. WorkerTurn(w)
    BY <2>1, <2>2, TurnOfWorker DEF Stays
  <2>4. pc \in {"scale", "note"}
    BY <1>3, <2>1, <2>2 DEF Candid, Informed
  <2>5. job[k].recorded /\ job[k].added = 0 /\ google'[d] = now
    <3>1. google'[d] = now
      BY <1>3, <2>1 DEF TypeOK
    <3>2. job[k].recorded /\ google[d] # job[k].reserved
      BY <1>3, <2>1, <2>2 DEF Informed
    <3>3. job[k].added # 0 => google[d] = job[k].reserved
      BY <1>3, <2>1, <2>2 DEF JobCandid
    <3> QED BY <1>3, <3>1, <3>2, <3>3
  <2>6. /\ job'[k].recorded /\ job'[k].before = job[k].before /\ job'[k].added = 0
        /\ ~job'[k].settled /\ actor'[w].pc = pc
    BY <1>3, <2>1, <2>5 DEF Stays, Becomes, Turns, JobOf
  <2>7. JobCandid(k)' /\ WorkerCandid(w)'
    BY <2>4, <2>6 DEF JobCandid, WorkerCandid
  <2>8. Gained(k) = google[d] - job[k].before /\ Gained(k)' = now - job[k].before
    BY <1>3, <2>5, <2>6 DEF Gained
  <2>9. Gained(k)' - Gained(k) = google'[DomainOf[k]] - google[DomainOf[k]]
    BY <1>3, <2>5, <2>8
  <2> QED BY <2>3, <2>7, <2>9, CandidFrame
<1>7. CASE NoteAdded(w)
  <2> DEFINE added == Minus(Target(w), actor[w].base)
  <2>1. /\ actor[w].pc = "note" /\ google' = google
        /\ Becomes(w, "SUBSCRIBED", JobOf(w).recorded, JobOf(w).before, added)
        /\ Turns(w, "finish", actor[w].current, actor[w].base, added)
    BY <1>7, NoteDoes
  <2>2. AtWork(w) /\ Informed(w)
    BY <1>3, <2>1 DEF AtWork, Provisioning
  <2>3. WorkerTurn(w)
    BY <2>1, <2>2, TurnOfWorker
  <2>4. /\ added = google[d] - job[k].before /\ job[k].recorded /\ google[d] = job[k].reserved
    <3>1. /\ job[k].recorded /\ actor[w].base = job[k].before
          /\ google[d] = job[k].reserved /\ Target(w) = google[d]
      BY <1>3, <2>1, <2>2 DEF Informed
    <3>2. job[k].before <= google[d]
      BY <1>3, <3>1 DEF JobSales
    <3> QED BY <1>3, <3>1, <3>2 DEF Minus
  <2>5. /\ job'[k].recorded /\ job'[k].before = job[k].before /\ job'[k].added = added
        /\ ~job'[k].settled /\ job'[k].reserved = job[k].reserved /\ actor'[w].pc = "finish"
    BY <1>3, <2>1, <2>4 DEF Becomes, Turns, JobOf
  <2>6. Gained(k)' = Gained(k) /\ Gained(k) = added
    BY <1>3, <2>1, <2>4, <2>5 DEF Gained
  <2> HIDE DEF added
  <2>7. JobCandid(k)' /\ WorkerCandid(w)'
    BY <2>1, <2>4, <2>5, <2>6 DEF JobCandid, WorkerCandid
  <2>8. Gained(k)' - Gained(k) = google'[DomainOf[k]] - google[DomainOf[k]]
    BY <1>3, <2>1, <2>6, GainTypes
  <2> QED BY <2>3, <2>7, <2>8, CandidFrame
<1> QED BY <1>4, <1>5, <1>6, <1>7 DEF Work

LEMMA CandidBySettlement ==
  ASSUME TypeOK, TypeOK', CoreInv, ExclInv, AccountsInv, SalesInv, CandidInv,
         NEW w \in Workers, MarkSettled(w)
  PROVE  CandidInv'
<1>1. WorkerTurn(w) /\ AtWork(w) /\ ~AtWork(w)' /\ google' = google
  BY SettleIsTurn
<1> PICK k \in Jobs : k = actor[w].job
  BY <1>1 DEF WorkerTurn
<1>2. /\ actor[w].pc = "settle" /\ ~job[k].settled
      /\ job'[k].settled /\ job'[k].added = actor[w].charge
      /\ job'[k].reserved = job[k].reserved
      /\ job'[k].recorded = job[k].recorded /\ job'[k].before = job[k].before
  BY SettleDoes
<1>3. /\ Open(k) /\ JobSales(k) /\ actor[w].charge = Gained(k) /\ Gained(k) \in Int
      /\ google[DomainOf[k]] \in Nat /\ job[k].before \in Nat /\ job[k].reserved \in Nat
      /\ InitialSeats[DomainOf[k]] \in Nat
  BY <1>1, <1>2, WorkIsOpen, RecordTypes, GainTypes, ConstantsAssumption
     DEF TypeOK, SalesInv, CandidInv, WorkerCandid
<1>4. Gained(k)' = Gained(k)
  BY <1>2, <1>3 DEF Gained
<1>5. JobCandid(k)'
  <2>1. Gained(k) = IF job[k].recorded THEN google[DomainOf[k]] - job[k].before ELSE 0
    BY <1>2 DEF Gained
  <2>2. Gained(k) <= job[k].reserved
    BY <1>3, <2>1 DEF JobSales
  <2>3. Sole(k) => Gained(k) = google[DomainOf[k]] - InitialSeats[DomainOf[k]]
    BY <1>3, <2>1 DEF JobSales
  <2> QED BY <1>1, <1>2, <1>3, <2>2, <2>3 DEF JobCandid, Open
<1>6. WorkerCandid(w)'
  BY <1>1 DEF WorkerCandid, AtWork, Provisioning
<1>7. Gained(k)' - Gained(k) = google'[DomainOf[k]] - google[DomainOf[k]]
  BY <1>1, <1>3, <1>4
<1> QED BY <1>1, <1>5, <1>6, <1>7, CandidFrame

LEMMA CandidStep ==
  ASSUME TypeOK, TypeOK', CoreInv, ExclInv, AccountsInv, SalesInv, BegunInv, CandidInv, Candid,
         [Next]_vars
  PROVE  CandidInv'
<1>1. CASE Still
  <2>1. \A v \in Workers : AtWork(v)' => /\ actor'[v] = actor[v] /\ AtWork(v)
                                         /\ SameDoc(actor[v].job)
    BY <1>1, WorkStaysQuiet
  <2> QED BY <1>1, <2>1, CandidKept DEF Still
<1>2. ASSUME NEW j \in Jobs, Reserve(j) \/ AssignPlan(j) \/ UndoReservation(j) PROVE CandidInv'
  <2>1. UNCHANGED <<job, google, actor>>
    BY <1>2 DEF Reserve, AssignPlan, UndoReservation
  <2> QED BY <2>1, CandidKept DEF SameDoc, AtWork
<1>3. ASSUME NEW j \in Jobs, CreateJob(j) PROVE CandidInv'
  <2>1. Fresh(j) /\ \A i \in Jobs \ {j} : SameDoc(i)
    BY <1>3, DocumentIsNew DEF Fresh, NoDoc
  <2> QED BY <1>3, <2>1, DocumentIsNew, CandidKept DEF AtWork
<1>4. ASSUME NEW w \in Workers, Refund(w) PROVE CandidInv'
  <2>1. job' = job /\ google' = google
    BY <1>4 DEF Refund
  <2>2. \A j : SameDoc(j)
    BY <2>1 DEF SameDoc
  <2> QED BY <1>4, <2>1, <2>2, WorkStaysQuiet, CandidKept
<1> QED BY <1>1, <1>2, <1>3, <1>4, BookSteps, CandidByWork, CandidBySettlement

LEMMA CandidInvariant ==
  ASSUME Calm, Candid
  PROVE  Spec => []CandidInv
<1>1. Init => CandidInv
  <2> SUFFICES ASSUME Init PROVE CandidInv
    OBVIOUS
  <2>1. /\ google = InitialSeats /\ \A j \in Jobs : job[j] = NoDoc
        /\ \A d \in Domains : InitialSeats[d] \in Nat
        /\ IsFiniteSet(Jobs) /\ IsFiniteSet(Domains)
    BY ConstantsAssumption DEF Init
  <2>2. \A j \in Jobs : JobCandid(j) /\ Gained(j) = 0
    BY <2>1 DEF JobCandid, Gained, Open, Exists, NoDoc
  <2>3. \A w \in Workers : WorkerCandid(w)
    BY StepNames DEF Init, Idle, WorkerCandid
  <2>4. (\A d \in Domains : Sold[d] = 0) /\ (\A j \in Jobs : Gains[j] = 0)
    BY <2>1, <2>2 DEF Sold, Gains
  <2>5. SumFunctionOnSet(Sold, Domains) = 0 /\ SumFunctionOnSet(Gains, Jobs) = 0
    BY <2>1, <2>4, SumOfZeros
  <2> QED BY <2>2, <2>3, <2>5 DEF CandidInv
<1>2. /\ TypeOK /\ TypeOK' /\ CoreInv /\ ExclInv /\ AccountsInv /\ SalesInv /\ BegunInv
      /\ CandidInv /\ [Next]_vars
      => CandidInv'
  BY CandidStep
<1>3. Spec => []ExclInv
  BY ExclInvariant
<1>4. Spec => []AccountsInv
  BY AccountsInvariant
<1>5. Spec => []SalesInv
  BY SalesInvariant
<1>6. Spec => []BegunInv
  BY BegunInvariant
<1> QED BY <1>1, <1>2, <1>3, <1>4, <1>5, <1>6, TypeCorrect, CoreInvariant, PTL DEF Spec

(* SettledAtGooglesFigure: where no attempt fails between a sale and the   *)
(* note of it, every settled job, failed ones included, is charged what    *)
(* its domain gained.                                                      *)
THEOREM SettledJobsAreCandid ==
  ASSUME "late" \notin Faults, "stall" \notin Faults, "dispatch" \notin Faults,
         "halfDone" \notin Faults, MaxCrashes = 0 \/ "error" \notin Faults
  PROVE  Spec => []SettledAtGooglesFigure
<1>1. TypeOK /\ SalesInv /\ CandidInv => SettledAtGooglesFigure
  <2> SUFFICES ASSUME TypeOK, SalesInv, CandidInv, NEW j \in Jobs, job[j].settled,
                      \A k \in Jobs \ {j} : DomainOf[k] # DomainOf[j]
               PROVE  job[j].added = SeatsSold(DomainOf[j])
    BY DEF SettledAtGooglesFigure
  <2>1. job[j].added = google[DomainOf[j]] - InitialSeats[DomainOf[j]]
    BY DEF CandidInv, JobCandid, Sole
  <2>2. /\ google[DomainOf[j]] \in Nat /\ InitialSeats[DomainOf[j]] \in Nat
        /\ InitialSeats[DomainOf[j]] <= google[DomainOf[j]]
    BY ConstantsAssumption DEF TypeOK, SalesInv
  <2> QED BY <2>1, <2>2 DEF SeatsSold, Minus
<1>2. Calm /\ Candid
  BY DEF Calm, Candid
<1>3. Spec => []SalesInv
  BY <1>2, SalesInvariant
<1>4. Spec => []CandidInv
  BY <1>2, CandidInvariant
<1> QED BY <1>1, <1>3, <1>4, TypeCorrect, PTL

LEMMA GainsAreHeld ==
  ASSUME TypeOK, AccountsInv, SalesInv, CandidInv
  PROVE  \A j \in Jobs : Gained(j) <= HeldBy(j)
<1> SUFFICES ASSUME NEW j \in Jobs PROVE Gained(j) <= HeldBy(j)
  OBVIOUS
<1>1. /\ job[j].before \in Nat /\ job[j].added \in Nat /\ job[j].reserved \in Nat
      /\ api[j].seats \in Nat /\ google[DomainOf[j]] \in Nat
  BY RecordTypes, ConstantsAssumption DEF TypeOK
<1>2. job[j].settled \/ job[j].recorded => Exists(j) /\ job[j].reserved = api[j].seats
  BY DEF AccountsInv, Account, NoDoc
<1>3. CASE job[j].settled
  <2>1. job[j].added <= job[j].reserved
    BY <1>3 DEF CandidInv, JobCandid
  <2> QED BY <1>1, <1>2, <1>3, <2>1 DEF Gained, HeldBy, Smaller
<1>4. CASE ~job[j].settled /\ job[j].recorded
  <2>1. google[DomainOf[j]] - job[j].before <= job[j].reserved
    BY <1>1, <1>2, <1>4 DEF SalesInv, JobSales, Open
  <2> QED BY <1>2, <1>4, <2>1 DEF Gained, HeldBy
<1>5. CASE ~job[j].settled /\ ~job[j].recorded
  BY <1>1, <1>5 DEF Gained, HeldBy
<1> QED BY <1>3, <1>4, <1>5

(* GoogleWithinQuota: then the partner's counter covers whatever Google    *)
(* has added for him, so that the cap bounds what is bought.               *)
THEOREM SalesWithinQuota ==
  ASSUME "late" \notin Faults, "stall" \notin Faults, "dispatch" \notin Faults,
         "halfDone" \notin Faults, MaxCrashes = 0 \/ "error" \notin Faults
  PROVE  Spec => []GoogleWithinQuota
<1>1. TypeOK /\ AccountsInv /\ SalesInv /\ CandidInv => GoogleWithinQuota
  <2> SUFFICES ASSUME TypeOK, AccountsInv, SalesInv, CandidInv PROVE GoogleWithinQuota
    OBVIOUS
  <2> DEFINE sales == [d \in Domains |-> SeatsSold(d)]
  <2>1. IsFiniteSet(Jobs) /\ IsFiniteSet(Domains)
    BY ConstantsAssumption
  <2>2. \A d \in Domains : Sold[d] \in Int /\ sales[d] = Sold[d]
    <3>1. \A d \in Domains : /\ google[d] \in Nat /\ InitialSeats[d] \in Nat
                             /\ InitialSeats[d] <= google[d]
      BY ConstantsAssumption DEF TypeOK, SalesInv
    <3> QED BY <3>1 DEF Sold, SeatsSold, Minus
  <2>3. \A j \in Jobs : Gains[j] \in Int /\ Held[j] \in Int /\ Gains[j] <= Held[j]
    BY GainTypes, HeldTypes, GainsAreHeld DEF Gains, Held
  <2>4. SumFunctionOnSet(sales, Domains) = SumFunctionOnSet(Sold, Domains)
    <3> HIDE DEF sales
    <3> QED BY <2>1, <2>2, SumAgrees
  <2>5. SumFunctionOnSet(Gains, Jobs) <= SumFunctionOnSet(Held, Jobs)
    BY <2>1, <2>3, SumIsMonotone
  <2>6. SumFunctionOnSet(sales, Domains) <= used
    BY <2>4, <2>5 DEF CandidInv, AccountsInv
  <2> QED BY <2>6 DEF GoogleWithinQuota
<1>2. Calm /\ Candid
  BY DEF Calm, Candid
<1>3. Spec => []AccountsInv
  BY <1>2, AccountsInvariant
<1>4. Spec => []SalesInv
  BY <1>2, SalesInvariant
<1>5. Spec => []CandidInv
  BY <1>2, CandidInvariant
<1> QED BY <1>1, <1>3, <1>4, <1>5, TypeCorrect, PTL

-----------------------------------------------------------------------------
(* A call that gave up holds nothing; one that went through has its        *)
(* document; one that died holds nothing if its books are closed.          *)
PlacedInv ==
  \A j \in Jobs :
    /\ api[j].pc \in {"unlock", "refused"} => api[j].seats = 0
    /\ api[j].pc \in {"created", "accepted"} => Exists(j)
    /\ api[j].pc = "dead" /\ closings[j] > 0 /\ ~Exists(j) => api[j].seats = 0

LEMMA PlacedByAccept ==
  ASSUME Calm, TypeOK, CoreInv, BooksInv, AccountsInv, PlacedInv, NEW i \in Jobs, Accept(i)
  PROVE  PlacedInv'
<1>1. actor' = actor /\ \A j \in Jobs \ {i} : api'[j] = api[j]
  BY AcceptStep
<1>2. CASE CreateJob(i)
  BY <1>1, <1>2, LoudSteps DEF PlacedInv, Exists
<1>3. CASE UndoReservation(i)
  BY <1>1, <1>3 DEF UndoReservation, TypeOK, PlacedInv, Exists
<1>4. CASE Reserve(i)
  BY <1>1, <1>4 DEF Reserve, TypeOK, PlacedInv, Exists
<1>5. CASE AssignPlan(i)
  BY <1>1, <1>5 DEF AssignPlan, TypeOK, PlacedInv, Exists
<1>6. ASSUME UNCHANGED <<job, closings>>, NEW p \in ApiSteps, ApiTo(i, p),
             p \in {"unlock", "refused"} => api[i].seats = 0,
             p \in {"created", "accepted"} => Exists(i),
             p = "dead" /\ closings[i] > 0 => api[i].seats = 0
      PROVE  PlacedInv'
  <2>1. api'[i].pc = p /\ api'[i].seats = api[i].seats
    BY <1>6 DEF ApiTo, TypeOK, ApiRecord
  <2> QED BY <1>1, <1>6, <2>1 DEF PlacedInv, Exists
<1>7. CASE AcquireLock(i) \/ DomainBusy(i) \/ OverQuota(i)
  BY <1>6, <1>7 DEF AcquireLock, DomainBusy, OverQuota, AccountsInv, Account, ApiSteps
<1>8. CASE Dispatch(i) \/ UnlockRefused(i) \/ AcceptRaises(i)
  BY <1>6, <1>8 DEF Dispatch, UnlockRefused, AcceptRaises, PlacedInv, ApiSteps
<1>9. CASE AcceptEscapes(i)
  <2>1. closings[i] > 0 => api[i].seats = 0
    BY <1>9 DEF AcceptEscapes, AccountsInv, Account, BooksInv, NewSteps, PlacedInv
  <2> QED BY <1>6, <1>9, <2>1 DEF AcceptEscapes, ApiSteps
<1> QED BY <1>2, <1>3, <1>4, <1>5, <1>7, <1>8, <1>9 DEF Accept, Calm, DispatchRaises

LEMMA PlacedByDeath ==
  ASSUME TypeOK, BooksInv, AccountsInv, PlacedInv, Crash
  PROVE  PlacedInv'
<1>1. UNCHANGED <<job, closings>>
  BY DEF Crash, CrashApi, CrashActor, CrashServer
<1>2. \A j \in Jobs : api[j].pc \in InAccept /\ closings[j] > 0 /\ ~Exists(j)
                        => api[j].seats = 0
  BY DEF InAccept, AccountsInv, Account, BooksInv, NewSteps, PlacedInv
<1>3. \A j \in Jobs : \/ api'[j] = api[j]
                      \/ /\ api[j].pc \in InAccept
                         /\ api'[j].pc = "dead" /\ api'[j].seats = api[j].seats
  BY DEF Crash, CrashApi, CrashActor, CrashServer, ApiTo, TypeOK, ApiRecord
<1> QED BY <1>1, <1>2, <1>3 DEF PlacedInv, Exists

LEMMA PlacedInvariant ==
  ASSUME Calm
  PROVE  Spec => []PlacedInv
<1>1. Init => PlacedInv
  BY DEF Init, PlacedInv
<1>2. TypeOK /\ CoreInv /\ BooksInv /\ AccountsInv /\ PlacedInv /\ [Next]_vars => PlacedInv'
  <2> SUFFICES ASSUME TypeOK, CoreInv, BooksInv, AccountsInv, PlacedInv, [Next]_vars
               PROVE  PlacedInv'
    OBVIOUS
  <2>1. CASE Crash
    BY <2>1, PlacedByDeath
  <2>2. CASE \E j \in Jobs : Accept(j)
    BY <2>2, PlacedByAccept
  <2>3. CASE ~Crash /\ ~\E j \in Jobs : Accept(j)
    <3>1. api' = api
      BY <2>3 DEF Next, Deliver, Work, Beat, Claim, ClaimRefused, EnsureCustomer, ListSeats,
         RecordBase, CreateSubscription, ScaleSeats, NoteAdded, Complete, StepRaises, MarkFailed,
         ReadCharge, Snapshot, FailStale, Settle, MarkSettled, AlreadySettled, Refund,
         RefundRaises, Unlock, Time, Lapse, GoSilent, LockExpires, vars
    <3>2. CASE Quiet
      BY <3>1, <3>2 DEF Quiet, SameBooks, PlacedInv
    <3>3. ASSUME NEW a \in Actors, MarkSettled(a) PROVE PlacedInv'
      BY <3>3, LoudSteps DEF PlacedInv, Exists
    <3>4. ASSUME NEW a \in Actors, Refund(a) PROVE PlacedInv'
      <4>1. /\ actor[a].job \in Jobs /\ Exists(actor[a].job)
            /\ closings' = [closings EXCEPT ![actor[a].job] = @ + 1] /\ UNCHANGED <<api, job>>
        BY <3>4, LoudSteps DEF CoreInv
      <4> QED BY <4>1 DEF TypeOK, PlacedInv, Exists
    <3>5. ASSUME NEW a \in Actors, RefundRaises(a) PROVE PlacedInv'
      BY <3>5, LoudSteps DEF PlacedInv, Exists
    <3> QED BY <2>3, <3>2, <3>3, <3>4, <3>5, StepKinds DEF Accept
  <2> QED BY <2>1, <2>2, <2>3
<1>3. Spec => []BooksInv
  BY BooksInvariant DEF Calm
<1>4. Spec => []AccountsInv
  BY AccountsInvariant
<1> QED BY <1>1, <1>2, <1>3, <1>4, TypeCorrect, CoreInvariant, PTL DEF Spec

(* What each request holds when nothing is under way.                      *)
LEMMA HeldAtRest ==
  ASSUME TypeOK, FoundInv, BooksInv, AccountsInv, SalesInv, CandidInv, PlacedInv, AtRest,
         NEW j \in Jobs, Sole(j)
  PROVE  HeldBy(j) = IF j \in Forsaken THEN api[j].seats ELSE SeatsSold(DomainOf[j])
<1>1. /\ google[DomainOf[j]] \in Nat /\ InitialSeats[DomainOf[j]] \in Nat
      /\ InitialSeats[DomainOf[j]] <= google[DomainOf[j]]
  BY ConstantsAssumption DEF TypeOK, SalesInv
<1>2. /\ job[j].added \in Nat /\ job[j].reserved \in Nat /\ api[j].seats \in Nat
      /\ closings[j] \in Nat
  BY DEF TypeOK, JobRecord, ApiRecord
<1>3. ~\E a \in Actors : actor[a].job = j /\ actor[a].pc = "refund"
  BY DEF AtRest
<1>4. CASE j \in Forsaken
  BY <1>4 DEF Forsaken, HeldBy
<1>5. CASE j \notin Forsaken /\ job[j].settled
  <2>1. api[j].seats > 0
    BY <1>5 DEF FoundInv, AccountsInv, Account
  <2>2. closings[j] > 0
    BY <1>2, <1>3, <1>5, <2>1 DEF Forsaken
  <2>3. /\ job[j].added <= job[j].reserved
        /\ job[j].added = google[DomainOf[j]] - InitialSeats[DomainOf[j]]
    BY <1>5 DEF CandidInv, JobCandid
  <2> QED BY <1>1, <1>2, <1>5, <2>2, <2>3 DEF HeldBy, Smaller, SeatsSold, Minus
<1>6. CASE j \notin Forsaken /\ ~job[j].settled
  <2>1. ~Exists(j) /\ api[j].pc \notin InAccept
    BY <1>6 DEF AtRest
  <2>2. api[j].pc \in ApiSteps
    BY DEF TypeOK, ApiRecord
  <2>3. api[j].seats = 0
    BY <1>2, <1>6, <2>1, <2>2
       DEF Forsaken, InAccept, ApiSteps, PlacedInv, AccountsInv, Account
  <2>4. google[DomainOf[j]] = InitialSeats[DomainOf[j]]
    BY <2>1 DEF AccountsInv, Account, NoDoc, SalesInv, JobSales
  <2> QED BY <1>1, <1>6, <2>3, <2>4 DEF HeldBy, SeatsSold, Minus
<1> QED BY <1>4, <1>5, <1>6

(* BooksAtRest: where each domain has one request, and no attempt fails    *)
(* between a sale and the note of it, the partner's counter is left with   *)
(* what Google gained and with what deaths and refunds that raised have    *)
(* left behind, to the seat.                                               *)
THEOREM BooksBalanceAtRest ==
  ASSUME "late" \notin Faults, "stall" \notin Faults, "dispatch" \notin Faults,
         "halfDone" \notin Faults, MaxCrashes = 0 \/ "error" \notin Faults,
         \A j \in Jobs : \A k \in Jobs \ {j} : DomainOf[k] # DomainOf[j]
  PROVE  Spec => []BooksAtRest
<1>1. /\ TypeOK /\ FoundInv /\ BooksInv /\ AccountsInv /\ SalesInv /\ CandidInv
      /\ PlacedInv
      => BooksAtRest
  <2> SUFFICES ASSUME TypeOK, FoundInv, BooksInv, AccountsInv, SalesInv, CandidInv, PlacedInv,
                      AtRest
               PROVE  used = SumFunctionOnSet(
                        [j \in Jobs |-> IF j \in Forsaken THEN api[j].seats
                                        ELSE SeatsSold(DomainOf[j])], Jobs)
    BY DEF BooksAtRest
  <2> DEFINE left == [j \in Jobs |-> IF j \in Forsaken THEN api[j].seats
                                     ELSE SeatsSold(DomainOf[j])]
  <2>1. IsFiniteSet(Jobs)
    BY ConstantsAssumption
  <2>2. \A j \in Jobs : Held[j] \in Int /\ left[j] = Held[j]
    BY HeldTypes, HeldAtRest DEF Held, Sole
  <2>3. SumFunctionOnSet(left, Jobs) = SumFunctionOnSet(Held, Jobs)
    <3> HIDE DEF left
    <3> QED BY <2>1, <2>2, SumAgrees
  <2> QED BY <2>3 DEF AccountsInv
<1>2. Calm /\ Candid
  BY DEF Calm, Candid
<1>3. Spec => []BooksInv
  BY BooksInvariant
<1>4. Spec => []AccountsInv
  BY <1>2, AccountsInvariant
<1>5. Spec => []SalesInv
  BY <1>2, SalesInvariant
<1>6. Spec => []CandidInv
  BY <1>2, CandidInvariant
<1>7. Spec => []PlacedInv
  BY <1>2, PlacedInvariant
<1> QED BY <1>1, <1>3, <1>4, <1>5, <1>6, <1>7, TypeCorrect, FoundInvariant, PTL

(* SeatsComeBack: with process deaths for the only fault, what is missing  *)
(* from the partner's counter when all work is done is one reservation for *)
(* each death at most.                                                     *)
THEOREM DeathsLoseOneEach ==
  ASSUME Durable, Faults = {},
         \A j \in Jobs : \A k \in Jobs \ {j} : DomainOf[k] # DomainOf[j]
  PROVE  Spec => []SeatsComeBack
<1>1. Spec => []OneLossPerDeath
  BY DeathsCostOneEach
<1>2. Spec => []BooksAtRest
  BY BooksBalanceAtRest
<1>3. OneLossPerDeath /\ BooksAtRest => SeatsComeBack
  BY DEF SeatsComeBack
<1> QED BY <1>1, <1>2, <1>3, PTL
=============================================================================
