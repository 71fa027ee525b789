---------------------------- MODULE DomainProofs ----------------------------
(***************************************************************************)
(* Domain actions, for every set of requests, domains and subscriptions:   *)
(* their types always, and, as long as no action outlives its lock, mutual *)
(* exclusion, the finality of a transfer, the books of the partner's       *)
(* counter, and our documents following Google.                            *)
(***************************************************************************)
EXTENDS DomainProperties, Sums, TLAPS

(* As much of the types as the arguments below need; the numbers do not    *)
(* matter to them.                                                         *)
LocalFields == {"ids", "current", "at", "tries", "status", "answer", "lost", "left"}
GoogleFields == {"held", "seats", "reasons"}
HasFields(g, fields) == g = [f \in fields |-> g[f]]
LocalShape(l) == HasFields(l, LocalFields) /\ l.answer \in Answers
GoogleShape(g) == HasFields(g, GoogleFields)

Shape ==
  /\ call \in [Requests -> CallRecord]
  /\ pc \in [Requests -> Steps]
  /\ local = [r \in Requests |-> local[r]]
  /\ \A r \in Requests : LocalShape(local[r])
  /\ lock \in [Domains -> [token: Requests \cup {NoReq}, live: BOOLEAN]]
  /\ google = [s \in Subs |-> google[s]]
  /\ \A s \in Subs : GoogleShape(google[s])
  /\ company = [d \in Domains |-> company[d]]

(* Whoever is in the locked region owns a live lock.                       *)
Owners ==
  \A r \in Requests :
    Running(r) => lock[DomainOf(r)].token = r /\ lock[DomainOf(r)].live

-----------------------------------------------------------------------------
(* A step of r inside the locked region, or out of it: the lock stays.     *)
Moves(r) ==
  /\ pc[r] \in Inside
  /\ UNCHANGED <<call, lock>>
  /\ \E step \in Inside \cup {"unlock"} : pc' = [pc EXCEPT ![r] = step]

LEMMA StepMoves ==
  ASSUME NEW r \in Requests, Shape, Step(r)
  PROVE  Acquire(r) \/ Busy(r) \/ Unlock(r) \/ Moves(r)
<1> USE DEF Shape, Moves, Inside, Goto, Leave
<1>1. CASE OwnedCompany(r)
  BY <1>1 DEF OwnedCompany
<1>2. CASE ListOne(r)
  BY <1>2 DEF ListOne, AfterList
<1>3. CASE ListAll(r)
  BY <1>3 DEF ListAll
<1>4. CASE ListFails(r)
  BY <1>4 DEF ListFails
<1>5. CASE Reserve(r)
  BY <1>5 DEF Reserve
<1>6. CASE CallWorks(r)
  BY <1>6 DEF CallWorks, AfterCall
<1>7. CASE CallRejected(r)
  BY <1>7 DEF CallRejected, GiveUp
<1>8. CASE CallFails(r)
  BY <1>8 DEF CallFails, GiveUp, Retry
<1>9. CASE CallLost(r)
  BY <1>9 DEF CallLost, GiveUp, Retry
<1>10. CASE Undo(r) \/ Account(r) \/ CounterRaises(r)
  BY <1>10 DEF Undo, Account, CounterRaises
<1>11. CASE UpdateCompany(r) \/ UpdateRecord(r) \/ Audit(r)
  BY <1>11 DEF UpdateCompany, UpdateRecord, Audit, Saved, Refused, Raised
<1> QED BY <1>1, <1>2, <1>3, <1>4, <1>5, <1>6, <1>7, <1>8, <1>9, <1>10, <1>11 DEF Step

LEMMA ShapeInit == Init => Shape
<1> SUFFICES ASSUME Init PROVE Shape
  OBVIOUS
<1>1. call \in [Requests -> CallRecord]
  BY ConstantsAssumption DEF Init
<1>2. pc \in [Requests -> Steps]
  BY DEF Init, Steps
<1>3. lock \in [Domains -> [token: Requests \cup {NoReq}, live: BOOLEAN]]
  BY DEF Init
<1>4. /\ local = [r \in Requests |-> local[r]]
      /\ \A r \in Requests : LocalShape(local[r])
  BY DEF Init, Fresh, Answers, LocalShape, HasFields, LocalFields
<1>5. /\ google = [s \in Subs |-> google[s]]
      /\ \A s \in Subs : GoogleShape(google[s])
  BY DEF Init, GoogleShape, HasFields, GoogleFields
<1>6. company = [d \in Domains |-> company[d]]
  BY DEF Init
<1> QED BY <1>1, <1>2, <1>3, <1>4, <1>5, <1>6 DEF Shape

(* What a call makes of the subscriptions.                                 *)
LEMMA CalledShape ==
  ASSUME Shape, NEW r \in Requests, NEW ids, google' = Called(r, ids)
  PROVE  /\ google' = [s \in Subs |-> google'[s]]
         /\ \A s \in Subs : GoogleShape(google'[s])
         /\ \A s \in Subs : google'[s].held => google[s].held
         /\ \A s \in Subs \ ids : google'[s] = google[s]
         /\ Op(r) = "delete" => \A s \in Subs \cap ids : ~google'[s].held
<1>1. google' = [s \in Subs |-> google'[s]]
  BY DEF Called
<1>2. ASSUME NEW s \in Subs
      PROVE  /\ GoogleShape(google'[s])
             /\ google'[s].held => google[s].held
             /\ s \notin ids => google'[s] = google[s]
             /\ Op(r) = "delete" /\ s \in ids => ~google'[s].held
  <2>1. google'[s] \in {google[s], Resized(s, NextSeats(r)), Suspended(s), Activated(s),
                        Transferred(s)}
    BY DEF Called
  <2>6. GoogleShape(google[s])
    BY DEF Shape
  <2>2. \A n : GoogleShape(Resized(s, n)) /\ Resized(s, n).held = google[s].held
    BY <2>6 DEF Resized, GoogleShape, HasFields, GoogleFields
  <2>3. GoogleShape(Suspended(s)) /\ Suspended(s).held = google[s].held
    BY <2>6 DEF Suspended, GoogleShape, HasFields, GoogleFields
  <2>4. GoogleShape(Activated(s)) /\ Activated(s).held = google[s].held
    BY <2>6 DEF Activated, GoogleShape, HasFields, GoogleFields
  <2>5. GoogleShape(Transferred(s)) /\ ~Transferred(s).held
    BY <2>6 DEF Transferred, GoogleShape, HasFields, GoogleFields
  <2>7. /\ s \notin ids => google'[s] = google[s]
        /\ Op(r) = "delete" /\ s \in ids => google'[s] = Transferred(s)
    BY DEF Called
  <2> QED BY <2>1, <2>2, <2>3, <2>4, <2>5, <2>6, <2>7
<1> QED BY <1>1, <1>2

(* Google's side changes in calls, and loses subscriptions only.           *)
LEMMA StepGoogle ==
  ASSUME Shape, NEW r \in Requests, Step(r)
  PROVE  \/ google' = google
         \/ /\ pc[r] = "call"
            /\ \E ids \in SUBSET local[r].ids : google' = Called(r, ids)
<1>1. CASE CallWorks(r) \/ CallRejected(r)
  BY <1>1 DEF CallWorks, CallRejected
<1>2. CASE CallLost(r)
  BY <1>2 DEF CallLost
<1>3. CASE UNCHANGED google
  BY <1>3
<1> QED
  BY <1>1, <1>2, <1>3 DEF Step, Acquire, Busy, OwnedCompany, ListOne, ListAll, ListFails, Reserve,
    CallFails, Undo, Account, CounterRaises, UpdateCompany, UpdateRecord, Audit, Unlock

(* Only the locals of the request change, and they keep their shape.       *)
OnlyLocalOf(r) ==
  /\ local' = [q \in Requests |-> local'[q]]
  /\ LocalShape(local'[r])
  /\ \A q \in Requests \ {r} : local'[q] = local[q]

LEMMA Assigned ==
  ASSUME Shape, NEW r \in Requests, NEW l, LocalShape(l), local' = [local EXCEPT ![r] = l]
  PROVE  OnlyLocalOf(r)
  BY DEF Shape, OnlyLocalOf

(* Assigning to fields keeps the shape.                                    *)
LEMMA Fields ==
  ASSUME NEW l, LocalShape(l), NEW u, NEW v, NEW w, NEW x
  PROVE  /\ LocalShape([l EXCEPT !.ids = u, !.current = v, !.at = w, !.status = x])
         /\ LocalShape([l EXCEPT !.ids = u, !.current = v, !.status = x])
         /\ LocalShape([l EXCEPT !.tries = u, !.at = v, !.lost = w])
         /\ LocalShape([l EXCEPT !.answer = "error", !.lost = u, !.left = v])
         /\ LocalShape([l EXCEPT !.answer = "error", !.lost = u])
         /\ LocalShape([l EXCEPT !.at = u]) /\ LocalShape([l EXCEPT !.status = u])
         /\ v \in Answers => LocalShape([l EXCEPT !.answer = v])
<1> USE DEF LocalShape, HasFields, LocalFields
<1>1. LocalShape([l EXCEPT !.ids = u, !.current = v, !.at = w, !.status = x])
  OBVIOUS
<1>2. LocalShape([l EXCEPT !.ids = u, !.current = v, !.status = x])
  OBVIOUS
<1>3. LocalShape([l EXCEPT !.tries = u, !.at = v, !.lost = w])
  OBVIOUS
<1>4. LocalShape([l EXCEPT !.answer = "error", !.lost = u, !.left = v])
  BY DEF Answers
<1>5. LocalShape([l EXCEPT !.answer = "error", !.lost = u])
  BY DEF Answers
<1>6. LocalShape([l EXCEPT !.at = u]) /\ LocalShape([l EXCEPT !.status = u])
  OBVIOUS
<1>7. v \in Answers => LocalShape([l EXCEPT !.answer = v])
  OBVIOUS
<1> HIDE DEF LocalShape
<1> QED BY <1>1, <1>2, <1>3, <1>4, <1>5, <1>6, <1>7

LEMMA StepLocal ==
  ASSUME Shape, NEW r \in Requests, Step(r)
  PROVE  OnlyLocalOf(r)
<1> DEFINE l == local[r]
<1>0. LocalShape(l)
  BY DEF Shape
<1>1. CASE UNCHANGED local
  BY <1>1, <1>0 DEF Shape, OnlyLocalOf
<1>2. ASSUME NEW answer \in Answers, Leave(r, answer)
      PROVE  OnlyLocalOf(r)
  <2>1. LocalShape([l EXCEPT !.answer = answer])
    BY <1>0, Fields
  <2>2. local' = [local EXCEPT ![r] = [l EXCEPT !.answer = answer]]
    BY <1>2 DEF Leave
  <2> QED BY <2>1, <2>2, Assigned
<1>3. CASE ListOne(r)
  <2>1. CASE \E answer \in Answers : Leave(r, answer)
    BY <2>1, <1>2
  <2>2. CASE \E s \in Subs :
               local' = [local EXCEPT ![r] =
                 [l EXCEPT !.ids = {s}, !.current = google[s].seats, !.at = google[s].seats,
                           !.status = StatusOf(google[s].reasons)]]
    <3>1. PICK s \in Subs :
               local' = [local EXCEPT ![r] =
                 [l EXCEPT !.ids = {s}, !.current = google[s].seats, !.at = google[s].seats,
                           !.status = StatusOf(google[s].reasons)]]
      BY <2>2
    <3>2. LocalShape([l EXCEPT !.ids = {s}, !.current = google[s].seats, !.at = google[s].seats,
                               !.status = StatusOf(google[s].reasons)])
      BY <1>0, Fields, Zenon
    <3> QED BY <3>1, <3>2, Assigned, Zenon
  <2> QED BY <1>3, <2>1, <2>2 DEF ListOne, Answers, SubscriptionFor, Held
<1>4. CASE ListAll(r)
  <2>1. CASE \E answer \in Answers : Leave(r, answer)
    BY <2>1, <1>2
  <2>2. CASE local' = [local EXCEPT ![r] =
               [l EXCEPT !.ids = Held(DomainOf(r)), !.current = SeatsOf(Held(DomainOf(r))),
                         !.status = "TRANSFERRED"]]
    <3>1. LocalShape([l EXCEPT !.ids = Held(DomainOf(r)), !.current = SeatsOf(Held(DomainOf(r))),
                               !.status = "TRANSFERRED"])
      BY <1>0, Fields, Zenon
    <3> QED BY <2>2, <3>1, Assigned, Zenon
  <2> QED BY <1>4, <2>1, <2>2 DEF ListAll, Answers
<1>5. CASE CallWorks(r)
  <2>1. CASE local' = [local EXCEPT ![r].at = NextSeats(r)]
    BY <1>0, <2>1, Fields, Assigned, Zenon
  <2>2. ASSUME NEW st, local' = [local EXCEPT ![r].status = st]
        PROVE  OnlyLocalOf(r)
    BY <1>0, <2>2, Fields, Assigned, Zenon
  <2> QED BY <1>5, <2>1, <2>2 DEF CallWorks
<1>6. ASSUME NEW lost, Retry(r, lost)
      PROVE  OnlyLocalOf(r)
  <2> DEFINE tries == l.tries + 1
             lostSoFar == l.lost \/ lost
             m == [l EXCEPT !.tries = tries, !.at = l.current, !.lost = lostSoFar]
  <2>1. local' = [local EXCEPT ![r] = m]
    BY <1>6, Zenon DEF Retry
  <2> HIDE DEF tries, lostSoFar
  <2>2. LocalShape(m)
    BY <1>0, Fields
  <2> HIDE DEF m
  <2> QED BY <2>1, <2>2, Assigned
<1>7. ASSUME NEW lost, GiveUp(r, lost)
      PROVE  OnlyLocalOf(r)
  <2> DEFINE left == IF Sells(r) THEN Bought(r, google') ELSE 0
             lostSoFar == l.lost \/ lost
             m == [l EXCEPT !.answer = "error", !.lost = lostSoFar, !.left = left]
  <2>1. local' = [local EXCEPT ![r] = m]
    BY <1>7, Zenon DEF GiveUp
  <2> HIDE DEF left, lostSoFar
  <2>2. LocalShape(m)
    BY <1>0, Fields
  <2> HIDE DEF m
  <2> QED BY <2>1, <2>2, Assigned
<1>8. CASE CounterRaises(r)
  BY <1>0, <1>8, Fields, Assigned, Zenon DEF CounterRaises
<1>9. CASE Unlock(r)
  <2>1. LocalShape([Fresh EXCEPT !.lost = local[r].lost, !.left = local[r].left])
    BY DEF LocalShape, HasFields, LocalFields, Fresh, Answers
  <2> QED BY <1>9, <2>1, Assigned, Zenon DEF Unlock
<1> QED
  BY <1>1, <1>2, <1>3, <1>4, <1>5, <1>6, <1>7, <1>8, <1>9 DEF Step, Acquire, Busy, OwnedCompany,
    Answers, ListFails, Reserve, CallRejected, CallFails, CallLost, Undo, Account, UpdateCompany,
    UpdateRecord, Audit, Saved, Refused, Raised

LEMMA ShapeStep ==
  ASSUME Shape, [Next]_vars
  PROVE  Shape'
<1>1. CASE UNCHANGED vars
  BY <1>1 DEF vars, Shape
<1>2. ASSUME NEW r \in Requests, Step(r)
      PROVE  Shape'
  <2>1. /\ call' = call
        /\ pc' \in [Requests -> Steps]
        /\ lock' \in [Domains -> [token: Requests \cup {NoReq}, live: BOOLEAN]]
    <3>1. CASE Moves(r)
      BY <3>1 DEF Shape, Moves, Steps, Inside
    <3>2. CASE Acquire(r) \/ Busy(r)
      <4>1. /\ call' = call
            /\ pc' \in {[pc EXCEPT ![r] = "owned"], [pc EXCEPT ![r] = "refused"]}
            /\ lock' \in {lock, [lock EXCEPT ![DomainOf(r)] = [token |-> r, live |-> TRUE]]}
        BY <3>2 DEF Acquire, Busy, Goto
      <4>2. "owned" \in Steps /\ "refused" \in Steps
        BY DEF Steps, Inside, Answers
      <4>3. pc' \in [Requests -> Steps]
        BY <4>1, <4>2 DEF Shape
      <4>4. [token |-> r, live |-> TRUE] \in [token: Requests \cup {NoReq}, live: BOOLEAN]
        OBVIOUS
      <4> QED BY <4>1, <4>3, <4>4 DEF Shape
    <3>3. CASE Unlock(r)
      <4>1. local[r].answer \in Answers
        BY DEF Shape, LocalShape
      <4>2. pc' = [pc EXCEPT ![r] = local[r].answer] /\ call' = call
        BY <3>3 DEF Unlock, Goto
      <4>3. lock' \in {lock, [lock EXCEPT ![DomainOf(r)] = [token |-> NoReq, live |-> FALSE]]}
        BY <3>3 DEF Unlock
      <4>4. pc' \in [Requests -> Steps]
        BY <4>1, <4>2 DEF Shape, Steps
      <4>5. [token |-> NoReq, live |-> FALSE] \in [token: Requests \cup {NoReq}, live: BOOLEAN]
        OBVIOUS
      <4> QED BY <4>2, <4>3, <4>4, <4>5 DEF Shape
    <3> QED BY <1>2, <3>1, <3>2, <3>3, StepMoves
  <2>2. OnlyLocalOf(r)
    BY <1>2, StepLocal
  <2>3. /\ google' = [s \in Subs |-> google'[s]]
        /\ \A s \in Subs : GoogleShape(google'[s])
    <3>1. CASE google' = google
      BY <3>1 DEF Shape
    <3>2. CASE \E ids \in SUBSET local[r].ids : google' = Called(r, ids)
      BY <3>2, CalledShape
    <3> QED BY <1>2, <3>1, <3>2, StepGoogle
  <2>4. company' = [d \in Domains |-> company'[d]]
    <3>1. CASE UNCHANGED company
      BY <3>1 DEF Shape
    <3>2. CASE UpdateCompany(r)
      BY <3>2 DEF UpdateCompany, Shape
    <3> QED
      BY <1>2, <3>1, <3>2
         DEF Step, Acquire, Busy, OwnedCompany, ListOne, ListAll, ListFails, Reserve, CallWorks,
             CallRejected, CallFails, CallLost, Undo, Account, CounterRaises, UpdateRecord, Audit,
             Unlock
  <2> QED BY <2>1, <2>2, <2>3, <2>4 DEF Shape, OnlyLocalOf
<1>3. ASSUME NEW r \in Requests, Crash(r)
      PROVE  Shape'
  BY <1>3 DEF Shape, Crash, Goto, Steps
<1>4. ASSUME NEW d \in Domains, LockExpires(d)
      PROVE  Shape'
  BY <1>4 DEF Shape, LockExpires
<1>5. ASSUME NEW s \in Subs, GoogleActs(s)
      PROVE  Shape'
  <2>1. PICK reasons : google' = [google EXCEPT ![s].reasons = reasons]
    BY <1>5 DEF GoogleActs
  <2>2. UNCHANGED <<call, pc, local, lock, company>>
    BY <1>5 DEF GoogleActs
  <2>3. GoogleShape([google[s] EXCEPT !.reasons = reasons])
    BY DEF Shape, GoogleShape, HasFields, GoogleFields
  <2> QED BY <2>1, <2>2, <2>3 DEF Shape
<1> QED BY <1>1, <1>2, <1>3, <1>4, <1>5 DEF Next

-----------------------------------------------------------------------------
(* Without a late action, a lock belongs to whoever is inside.             *)
LEMMA OwnersStep ==
  ASSUME Shape, Owners, [Next]_vars, "late" \notin Faults
  PROVE  Owners'
<1> USE DEF Running, DomainOf
<1>1. CASE UNCHANGED vars
  BY <1>1 DEF vars, Owners
<1>2. ASSUME NEW r \in Requests, Step(r)
      PROVE  Owners'
  <2>1. CASE Moves(r)
    BY <2>1 DEF Moves, Owners, Shape
  <2>2. CASE Acquire(r)
    <3>1. /\ ~lock[DomainOf(r)].live
          /\ call' = call
          /\ lock' = [lock EXCEPT ![DomainOf(r)] = [token |-> r, live |-> TRUE]]
          /\ pc' = [pc EXCEPT ![r] = "owned"]
      BY <2>2 DEF Acquire, Goto
    <3>2. \A q \in Requests : Running(q) => DomainOf(q) # DomainOf(r)
      BY <3>1 DEF Owners
    <3> QED BY <3>1, <3>2 DEF Owners, Shape, CallRecord
  <2>3. CASE Busy(r)
    BY <2>3 DEF Busy, Goto, Owners, Shape, Inside
  <2>4. CASE Unlock(r)
    <3>1. /\ pc[r] = "unlock"
          /\ call' = call
          /\ lock' \in {lock, [lock EXCEPT ![DomainOf(r)] = [token |-> NoReq, live |-> FALSE]]}
          /\ pc' = [pc EXCEPT ![r] = local[r].answer]
      BY <2>4 DEF Unlock, Goto
    <3>2. local[r].answer \notin Inside \cup {"unlock"}
      BY DEF Shape, LocalShape, Answers, Inside
    <3>3. lock[DomainOf(r)].token = r
      BY <3>1 DEF Owners
    <3>4. \A q \in Requests : Running(q) /\ DomainOf(q) = DomainOf(r) => q = r
      BY <3>3 DEF Owners
    <3> SUFFICES ASSUME NEW q \in Requests, Running(q)'
                 PROVE  lock'[DomainOf(q)].token = q /\ lock'[DomainOf(q)].live
      BY <3>1 DEF Owners
    <3>5. q # r /\ Running(q)
      BY <3>1, <3>2 DEF Shape
    <3>6. DomainOf(q) # DomainOf(r)
      BY <3>4, <3>5
    <3>7. lock'[DomainOf(q)] = lock[DomainOf(q)]
      BY <3>1, <3>6 DEF Shape, CallRecord
    <3> QED BY <3>5, <3>7 DEF Owners
  <2> QED BY <1>2, <2>1, <2>2, <2>3, <2>4, StepMoves
<1>3. ASSUME NEW r \in Requests, Crash(r)
      PROVE  Owners'
  BY <1>3 DEF Owners, Crash, Goto, Shape, Inside
<1>4. ASSUME NEW d \in Domains, LockExpires(d)
      PROVE  Owners'
  <2>1. /\ ~Running(lock[d].token)
        /\ UNCHANGED <<call, pc>>
        /\ lock' = [lock EXCEPT ![d].live = FALSE]
    BY <1>4 DEF LockExpires
  <2>2. \A q \in Requests : Running(q) => DomainOf(q) # d
    BY <2>1 DEF Owners
  <2> QED BY <2>1, <2>2 DEF Owners, Shape
<1>5. ASSUME NEW s \in Subs, GoogleActs(s)
      PROVE  Owners'
  BY <1>5 DEF GoogleActs, Owners
<1> QED BY <1>1, <1>2, <1>3, <1>4, <1>5 DEF Next

LEMMA OwnersAlone ==
  ASSUME Owners, NEW q \in Requests, NEW r \in Requests,
         Running(q), Running(r), DomainOf(q) = DomainOf(r)
  PROVE  q = r
  BY DEF Owners

(* OneActionPerDomain: of the requests for one domain only one is between  *)
(* its lock and its release, if every action ends within its three minutes *)
(* (_domain_lock).                                                         *)
THEOREM DomainLockExcludes ==
  ASSUME "late" \notin Faults
  PROVE  Spec => []OneActionPerDomain
<1>1. Init => Shape /\ Owners
  <2>1. Init => Owners
    BY DEF Init, Owners, Running, Inside
  <2> QED BY <2>1, ShapeInit
<1>2. Shape /\ Owners /\ [Next]_vars => (Shape /\ Owners)'
  BY ShapeStep, OwnersStep
<1>3. Owners => OneActionPerDomain
  BY OwnersAlone DEF OneActionPerDomain, Running
<1> QED BY <1>1, <1>2, <1>3, PTL DEF Spec

-----------------------------------------------------------------------------
(* A transfer.  What was listed is the domain's; a transfer lists all that *)
(* is held; once its call is over nothing is; only then, and by nobody     *)
(* else, the company is marked, while no other action has looked at it.    *)
Before == {"list", "reserve", "call", "account", "company"}

ForRequest(r) ==
  /\ local[r].ids \subseteq Subs
  /\ company[DomainOf(r)] = "TRANSFERRED" => pc[r] \notin Before
  /\ pc[r] \in {"reserve", "call"} => \A s \in local[r].ids : Customer[s] = DomainOf(r)
  /\ Op(r) = "delete" => pc[r] # "reserve"
  /\ Op(r) = "delete" /\ pc[r] = "call" => Held(DomainOf(r)) \subseteq local[r].ids
  /\ Op(r) = "delete" /\ pc[r] \in {"account", "company"} => Held(DomainOf(r)) = {}
  /\ Op(r) # "delete" => local[r].status # "TRANSFERRED"

TransferInv ==
  /\ \A d \in Domains : company[d] = "TRANSFERRED" => Held(d) = {}
  /\ \A r \in Requests : ForRequest(r)

(* Position and locals of the request that makes a step, in short.         *)
Ends(r) ==
  /\ pc'[r] \notin Before
  /\ local'[r].ids \in {local[r].ids, {}}
  /\ local'[r].status \in {local[r].status, "ACTIVE"}
Looks(r) ==
  /\ pc'[r] = "list" /\ company[DomainOf(r)] # "TRANSFERRED"
  /\ UNCHANGED <<local, company>>
ListsOne(r) ==
  /\ Op(r) # "delete"
  /\ pc[r] = "list" /\ pc'[r] \in {"reserve", "call", "company"}
  /\ \E s \in Held(DomainOf(r)) : local'[r].ids = {s}
  /\ local'[r].status \in {"ACTIVE", "SUSPENDED"}
  /\ UNCHANGED <<google, company>>
ListsAll(r) ==
  /\ Op(r) = "delete"
  /\ pc[r] = "list" /\ pc'[r] = "call"
  /\ local'[r].ids = Held(DomainOf(r))
  /\ UNCHANGED <<google, company>>
Asks(r) ==
  /\ pc[r] \in {"reserve", "call"} /\ pc'[r] = "call"
  /\ local'[r].ids = local[r].ids
  /\ local'[r].status = local[r].status
  /\ UNCHANGED company
Answered(r) ==
  /\ pc[r] = "call" /\ pc'[r] \in {"account", "company"}
  /\ local'[r].ids = local[r].ids
  /\ local'[r].status \in {local[r].status, "ACTIVE", "SUSPENDED"}
  /\ Op(r) = "delete" => google' = Called(r, local[r].ids)
  /\ UNCHANGED company
Accounts(r) ==
  /\ pc[r] = "account" /\ pc'[r] = "company"
  /\ UNCHANGED <<local, google, company>>

LEMMA StatusOfIsLocal == \A reasons : StatusOf(reasons) \in {"ACTIVE", "SUSPENDED"}
  BY DEF StatusOf

LEMMA StepSummary ==
  ASSUME Shape, NEW r \in Requests, Step(r)
  PROVE  \/ Ends(r) \/ Looks(r) \/ ListsOne(r) \/ ListsAll(r)
         \/ Asks(r) \/ Answered(r) \/ Accounts(r)
<1> DEFINE l == local[r]
<1>0. LocalShape(l) /\ r \in DOMAIN pc /\ r \in DOMAIN local
  BY DEF Shape
<1>1. ASSUME NEW answer, Leave(r, answer)
      PROVE  Ends(r)
  BY <1>0, <1>1 DEF Leave, Goto, Ends, Before, LocalShape, HasFields, LocalFields
<1>2. CASE Acquire(r) \/ Busy(r) \/ Undo(r) \/ Audit(r)
  BY <1>0, <1>2 DEF Acquire, Busy, Undo, Audit, Goto, Ends, Before
<1>14. CASE UpdateCompany(r) \/ UpdateRecord(r)
  <2>1. CASE Leave(r, "error")
    BY <1>1, <2>1
  <2>2. CASE UNCHANGED local /\ (Goto(r, "record") \/ Goto(r, "audit"))
    BY <1>0, <2>2 DEF Goto, Ends, Before
  <2> QED BY <1>14, <2>1, <2>2 DEF UpdateCompany, UpdateRecord, Saved, Refused, Raised
<1>3. CASE OwnedCompany(r)
  BY <1>0, <1>1, <1>3 DEF OwnedCompany, Goto, Looks
<1>4. CASE ListFails(r) \/ Reserve(r)
  BY <1>0, <1>1, <1>4 DEF ListFails, Reserve, Goto, Asks
<1>5. CASE Account(r)
  BY <1>0, <1>5 DEF Account, Goto, Ends, Before, Accounts
<1>6. CASE CounterRaises(r)
  BY <1>0, <1>6 DEF CounterRaises, Goto, Ends, Before, LocalShape, HasFields, LocalFields
<1>7. CASE Unlock(r)
  BY <1>0, <1>7 DEF Unlock, Goto, Ends, Before, Fresh, LocalShape, Answers
<1>8. CASE ListOne(r)
  <2>1. CASE \E answer : Leave(r, answer)
    BY <1>1, <2>1
  <2>2. ASSUME NEW s \in Held(DomainOf(r)), Goto(r, AfterList(r, s)),
               local' = [local EXCEPT ![r] =
                 [l EXCEPT !.ids = {s}, !.current = google[s].seats, !.at = google[s].seats,
                           !.status = StatusOf(google[s].reasons)]]
        PROVE  ListsOne(r)
    <3>1. pc'[r] \in {"reserve", "call", "company"}
      BY <1>0, <2>2 DEF Goto, AfterList
    <3>2. local'[r].ids = {s} /\ local'[r].status = StatusOf(google[s].reasons)
      BY <1>0, <2>2 DEF LocalShape, HasFields, LocalFields
    <3> QED BY <1>8, <3>1, <3>2, StatusOfIsLocal DEF ListOne, ListsOne
  <2> QED BY <1>8, <2>1, <2>2 DEF ListOne, SubscriptionFor
<1>9. CASE ListAll(r)
  <2>1. CASE \E answer : Leave(r, answer)
    BY <1>1, <2>1
  <2>2. CASE /\ Goto(r, "call")
             /\ local' = [local EXCEPT ![r] =
                  [l EXCEPT !.ids = Held(DomainOf(r)), !.current = SeatsOf(Held(DomainOf(r))),
                            !.status = "TRANSFERRED"]]
    <3>1. local'[r].ids = Held(DomainOf(r))
      BY <1>0, <2>2 DEF LocalShape, HasFields, LocalFields
    <3> QED BY <1>0, <1>9, <2>2, <3>1 DEF ListAll, ListsAll, Goto
  <2> QED BY <1>9, <2>1, <2>2 DEF ListAll
<1>10. CASE CallWorks(r)
  <2>1. CASE UNCHANGED pc /\ local' = [local EXCEPT ![r].at = NextSeats(r)]
    BY <1>0, <1>10, <2>1 DEF CallWorks, Asks, LocalShape, HasFields, LocalFields
  <2>2. ASSUME NEW st \in {l.status, "ACTIVE", "SUSPENDED"}, Goto(r, AfterCall(r)),
               local' = [local EXCEPT ![r].status = st],
               Op(r) \notin {"suspend", "activate"} => st = l.status
        PROVE  Ends(r) \/ Answered(r)
    <3>1. local'[r].ids = l.ids /\ local'[r].status = st
      BY <1>0, <2>2 DEF LocalShape, HasFields, LocalFields
    <3>2. CASE AfterCall(r) = "record"
      BY <1>0, <2>2, <3>1, <3>2 DEF Ends, Goto, Before, AfterCall
    <3>3. CASE AfterCall(r) \in {"account", "company"}
      BY <1>0, <1>10, <2>2, <3>1, <3>3 DEF CallWorks, Answered, Goto
    <3> QED BY <3>2, <3>3 DEF AfterCall
  <2> QED BY <1>10, <2>1, <2>2, StatusOfIsLocal DEF CallWorks
<1>11. ASSUME NEW lost, Retry(r, lost), pc[r] = "call", UNCHANGED company
       PROVE  Asks(r)
  <2> DEFINE tries == l.tries + 1
             lostSoFar == l.lost \/ lost
  <2>1. local' = [local EXCEPT ![r] =
                    [l EXCEPT !.tries = tries, !.at = l.current, !.lost = lostSoFar]]
    BY <1>11, Zenon DEF Retry
  <2> HIDE DEF tries, lostSoFar
  <2>2. local'[r].ids = l.ids /\ local'[r].status = l.status
    BY <1>0, <2>1 DEF LocalShape, HasFields, LocalFields
  <2> QED BY <1>11, <2>2 DEF Asks, Retry
<1>12. ASSUME NEW lost, GiveUp(r, lost)
       PROVE  Ends(r)
  <2> DEFINE left == IF Sells(r) THEN Bought(r, google') ELSE 0
             lostSoFar == l.lost \/ lost
  <2>1. local' = [local EXCEPT ![r] =
                    [l EXCEPT !.answer = "error", !.lost = lostSoFar, !.left = left]]
    BY <1>12, Zenon DEF GiveUp
  <2> HIDE DEF left, lostSoFar
  <2>2. local'[r].ids = l.ids /\ local'[r].status = l.status
    BY <1>0, <2>1 DEF LocalShape, HasFields, LocalFields
  <2>3. pc'[r] \in {"undo", "audit", "unlock"}
    BY <1>0, <1>12 DEF GiveUp, Goto
  <2> QED BY <2>2, <2>3 DEF Ends, Before
<1>13. CASE CallRejected(r) \/ CallFails(r) \/ CallLost(r)
  BY <1>11, <1>12, <1>13 DEF CallRejected, CallFails, CallLost
<1> QED
  BY <1>2, <1>3, <1>4, <1>5, <1>6, <1>7, <1>8, <1>9, <1>10, <1>13,
     <1>14 DEF Step

(* Whoever does it, subscriptions are lost and never won.                  *)
LEMMA HeldShrinks ==
  ASSUME Shape, [Next]_vars
  PROVE  \A s \in Subs : google'[s].held => google[s].held
<1>1. CASE UNCHANGED google
  BY <1>1
<1>2. ASSUME NEW r \in Requests, Step(r)
      PROVE  \A s \in Subs : google'[s].held => google[s].held
  BY <1>1, <1>2, StepGoogle, CalledShape
<1>3. ASSUME NEW s \in Subs, GoogleActs(s)
      PROVE  \A t \in Subs : google'[t].held => google[t].held
  <2>1. PICK reasons : google' = [google EXCEPT ![s].reasons = reasons]
    BY <1>3 DEF GoogleActs
  <2>2. [google[s] EXCEPT !.reasons = reasons].held = google[s].held
    BY DEF Shape, GoogleShape, HasFields, GoogleFields
  <2>3. \A t \in Subs : google'[t].held = google[t].held
    BY <2>1, <2>2 DEF Shape
  <2> QED BY <2>3
<1> QED BY <1>1, <1>2, <1>3 DEF Next, vars, Crash, LockExpires

(* The company is marked by an action that stands before its record.       *)
LEMMA CompanyMarked ==
  ASSUME Shape, NEW r \in Requests, Step(r), company' # company
  PROVE  /\ pc[r] = "company" /\ pc'[r] \in {"record", "unlock"}
         /\ company' = [company EXCEPT ![DomainOf(r)] = local[r].status]
         /\ local'[r].status = local[r].status
         /\ UNCHANGED google
<1>1. UpdateCompany(r)
  BY DEF Step, Acquire, Busy, OwnedCompany, ListOne, ListAll, ListFails, Reserve, CallWorks,
    CallRejected, CallFails, CallLost, Undo, Account, CounterRaises, UpdateRecord, Audit, Unlock
<1>2. LocalShape(local[r]) /\ r \in DOMAIN pc /\ r \in DOMAIN local
  BY DEF Shape
<1>3. Leave(r, "error") => pc'[r] = "unlock" /\ local'[r].status = local[r].status
  BY <1>2 DEF Leave, Goto, LocalShape, HasFields, LocalFields
<1> QED BY <1>1, <1>2, <1>3 DEF UpdateCompany, Saved, Refused, Raised, Goto

LEMMA OwnStep ==
  ASSUME Shape, Shape', TransferInv, NEW r \in Requests, Step(r)
  PROVE  ForRequest(r)'
<1> DEFINE d == DomainOf(r)
<1>0. /\ ForRequest(r)
      /\ call' = call
      /\ Held(d)' \subseteq Held(d)
      /\ d \in Domains
  <2>1. call' = call
    BY StepMoves DEF Moves, Acquire, Busy, Unlock
  <2>2. [Next]_vars
    BY DEF Next
  <2> QED BY <2>1, <2>2, HeldShrinks DEF TransferInv, Shape, DomainOf, CallRecord, Held
<1>1. CASE Ends(r)
  BY <1>0, <1>1 DEF Ends, ForRequest, Before, Op
<1>2. CASE Looks(r)
  BY <1>0, <1>2 DEF Looks, ForRequest, Op, DomainOf
<1>3. CASE ListsOne(r)
  BY <1>0, <1>3 DEF ListsOne, ForRequest, Op, DomainOf, Before, Held
<1>4. CASE ListsAll(r)
  BY <1>0, <1>4 DEF ListsAll, ForRequest, Op, DomainOf, Before, Held
<1>5. CASE Asks(r)
  BY <1>0, <1>5 DEF Asks, ForRequest, Op, DomainOf, Before
<1>6. CASE Answered(r)
  <2>1. Op(r) = "delete" => Held(d)' = {}
    <3> SUFFICES ASSUME Op(r) = "delete", NEW s \in Held(d)'
                 PROVE  FALSE
      OBVIOUS
    <3>1. s \in Held(d) /\ s \in local[r].ids /\ s \in Subs
      BY <1>0, <1>6 DEF Answered, ForRequest, Held
    <3>2. ~google'[s].held
      BY <1>6, <3>1, CalledShape DEF Answered
    <3> QED BY <3>2 DEF Held
  <2> QED BY <1>0, <1>6, <2>1 DEF Answered, ForRequest, Op, DomainOf, Before
<1>7. CASE Accounts(r)
  BY <1>0, <1>7 DEF Accounts, ForRequest, Op, DomainOf, Before
<1> QED BY <1>1, <1>2, <1>3, <1>4, <1>5, <1>6, <1>7, StepSummary

(* What a step leaves to the requests that do not make it.                 *)
LEMMA Undisturbed ==
  ASSUME NEW q \in Requests, ForRequest(q), call' = call,
         pc'[q] = pc[q] \/ pc'[q] \notin Before, local'[q] = local[q],
         \A s \in Subs : google'[s].held => google[s].held,
         \/ company'[DomainOf(q)] = company[DomainOf(q)]
         \/ pc[q] \notin Before
  PROVE  ForRequest(q)'
  BY DEF ForRequest, Op, DomainOf, Before, Held

LEMMA TransferStep ==
  ASSUME Shape, Shape', Owners, TransferInv, [Next]_vars
  PROVE  TransferInv'
<1>1. CASE UNCHANGED vars
  BY <1>1 DEF vars, TransferInv, ForRequest, Held, Op, DomainOf
<1>2. \A s \in Subs : google'[s].held => google[s].held
  BY HeldShrinks
<1>3. ASSUME NEW r \in Requests, Step(r)
      PROVE  TransferInv'
  <2>1. call' = call
    BY <1>3, StepMoves DEF Moves, Acquire, Busy, Unlock
  <2>2. ASSUME NEW d \in Domains, company'[d] = "TRANSFERRED"
        PROVE  Held(d)' = {}
    <3>1. CASE company'[d] = company[d]
      BY <2>2, <3>1, <1>2 DEF TransferInv, Held
    <3>2. CASE company'[d] # company[d]
      <4>1. /\ pc[r] = "company" /\ d = DomainOf(r)
            /\ local[r].status = "TRANSFERRED"
        BY <1>3, <2>2, <3>2, CompanyMarked DEF Shape
      <4> QED BY <1>2, <4>1 DEF TransferInv, ForRequest, Held
    <3> QED BY <3>1, <3>2
  <2>3. ASSUME NEW q \in Requests
        PROVE  ForRequest(q)'
    <3>1. CASE q = r
      BY <1>3, <3>1, OwnStep
    <3>2. CASE q # r
      <4>1. pc'[q] = pc[q]
        BY <1>3, <3>2, StepMoves DEF Shape, Moves, Acquire, Busy, Unlock, Goto
      <4>2. local'[q] = local[q]
        BY <1>3, <3>2, StepLocal DEF OnlyLocalOf
      <4>3. CASE company'[DomainOf(q)] = company[DomainOf(q)]
        BY <1>2, <2>1, <4>1, <4>2, <4>3, Undisturbed DEF TransferInv
      <4>4. CASE company'[DomainOf(q)] # company[DomainOf(q)]
        <5>1. pc[r] = "company" /\ DomainOf(r) = DomainOf(q)
          BY <1>3, <4>4, CompanyMarked DEF Shape, DomainOf, CallRecord
        <5>2. pc[q] \notin Before
          BY <3>2, <5>1, OwnersAlone DEF Before, Running, Inside
        <5> QED BY <1>2, <2>1, <4>1, <4>2, <5>2, Undisturbed DEF TransferInv
      <4> QED BY <4>3, <4>4
    <3> QED BY <3>1, <3>2
  <2> QED BY <2>2, <2>3 DEF TransferInv
<1>4. ASSUME NEW r \in Requests, Crash(r)
      PROVE  TransferInv'
  <2>1. /\ UNCHANGED <<call, local, company>>
        /\ pc' = [pc EXCEPT ![r] = "dead"]
    BY <1>4 DEF Crash, Goto
  <2>2. \A q \in Requests : ForRequest(q)'
    BY <1>2, <2>1, Undisturbed DEF TransferInv, Shape, Before
  <2> QED BY <1>2, <2>1, <2>2 DEF TransferInv, Held
<1>5. ASSUME UNCHANGED <<call, pc, local, company>>
      PROVE  TransferInv'
  <2>1. \A q \in Requests : ForRequest(q)'
    BY <1>2, <1>5, Undisturbed DEF TransferInv
  <2> QED BY <1>2, <1>5, <2>1 DEF TransferInv, Held
<1> QED BY <1>1, <1>3, <1>4, <1>5 DEF Next, LockExpires, GoogleActs

LEMMA TransferInit == Init => TransferInv
<1> SUFFICES ASSUME Init PROVE TransferInv
  OBVIOUS
<1>1. \A r \in Requests : DomainOf(r) \in Domains
  BY ShapeInit DEF Shape, DomainOf, CallRecord
<1> QED BY <1>1 DEF Init, TransferInv, ForRequest, Before, Fresh

(* After the mark nothing changes a domain at Google, nor the mark.        *)
LEMMA MarkStays ==
  ASSUME Shape, Shape', Owners, TransferInv, [Next]_vars,
         NEW d \in Domains, company[d] = "TRANSFERRED"
  PROVE  /\ company'[d] = "TRANSFERRED"
         /\ \A s \in Subs : Customer[s] = d => google'[s] = google[s]
<1>1. CASE UNCHANGED <<google, company>>
  BY <1>1
<1>2. ASSUME NEW r \in Requests, Step(r)
      PROVE  /\ company'[d] = "TRANSFERRED"
             /\ \A s \in Subs : Customer[s] = d => google'[s] = google[s]
  <2>1. ForRequest(r) /\ (d = DomainOf(r) => pc[r] \notin Before)
    BY DEF TransferInv, ForRequest
  <2>2. company'[d] = company[d]
    <3>1. CASE company' = company
      BY <3>1
    <3>2. CASE company' # company
      BY <1>2, <2>1, <3>2, CompanyMarked DEF Before, Shape
    <3> QED BY <3>1, <3>2
  <2>3. ASSUME NEW s \in Subs, Customer[s] = d
        PROVE  google'[s] = google[s]
    <3>1. CASE google' = google
      BY <3>1
    <3>2. CASE pc[r] = "call" /\ \E ids \in SUBSET local[r].ids : google' = Called(r, ids)
      <4>1. s \notin local[r].ids
        BY <2>1, <2>3, <3>2 DEF ForRequest, Before
      <4> QED BY <3>2, <4>1, CalledShape
    <3> QED BY <1>2, <3>1, <3>2, StepGoogle
  <2> QED BY <2>2, <2>3
<1>3. ASSUME NEW t \in Subs, GoogleActs(t)
      PROVE  /\ company'[d] = "TRANSFERRED"
             /\ \A s \in Subs : Customer[s] = d => google'[s] = google[s]
  <2>1. t \notin Held(d) /\ google[t].held
    BY <1>3 DEF TransferInv, GoogleActs
  <2>2. Customer[t] # d
    BY <2>1 DEF Held
  <2>3. PICK reasons : google' = [google EXCEPT ![t].reasons = reasons]
    BY <1>3 DEF GoogleActs
  <2>4. \A s \in Subs \ {t} : google'[s] = google[s]
    BY <2>3 DEF Shape
  <2> QED BY <1>3, <2>2, <2>4 DEF GoogleActs
<1> QED BY <1>1, <1>2, <1>3 DEF Next, vars, Crash, LockExpires

(* TransferIsFinal: once _delete has marked a company as transferred, no   *)
(* later or slower action writes another status over it, and neither an    *)
(* action nor Google itself touches its subscriptions, if every action     *)
(* ends within the three minutes of its lock.                              *)
THEOREM TransferCannotBeUndone ==
  ASSUME "late" \notin Faults
  PROVE  Spec => TransferIsFinal
<1> DEFINE I == Shape /\ Owners /\ TransferInv
           Final == \A d \in Domains : company[d] = "TRANSFERRED" =>
                      /\ company'[d] = "TRANSFERRED"
                      /\ \A s \in Subs : Customer[s] = d => google'[s] = google[s]
<1>1. Init => I
  <2>1. Init => Owners
    BY DEF Init, Owners, Running, Inside
  <2> QED BY <2>1, ShapeInit, TransferInit
<1>2. I /\ [Next]_vars => I'
  BY ShapeStep, OwnersStep, TransferStep
<1>3. I /\ [Next]_vars => Final
  BY ShapeStep, MarkStays
<1>4. Spec => [][Final]_vars
  BY <1>1, <1>2, <1>3, PTL DEF Spec
<1> QED BY <1>4 DEF TransferIsFinal

-----------------------------------------------------------------------------
(* Types.  A reservation is for more seats than there are, so that the     *)
(* counter stays a number.                                                 *)
LocalType == [ids: SUBSET Subs, current: Nat, at: Nat, tries: 0 .. Attempts,
              status: Statuses, answer: Answers, lost: BOOLEAN, left: Nat]
GoogleType == [held: BOOLEAN, seats: Nat, reasons: SUBSET {"RESELLER", "GOOGLE"}]

TypeInv == TypeOK /\ \A r \in Requests : pc[r] = "reserve" => Delta(r) > 0

LEMMA SeatSum ==
  ASSUME NEW g \in [Subs -> GoogleType], NEW ids \in SUBSET Subs
  PROVE  SumFunctionOnSet([s \in ids |-> g[s].seats], ids) \in Nat
<1>1. IsFiniteSet(ids)
  BY ConstantsAssumption, FS_Subset
<1> DEFINE f == [s \in ids |-> g[s].seats]
<1>2. \A s \in ids : f[s] \in Nat
  BY DEF GoogleType
<1> HIDE DEF f
<1>3. SumFunctionOnSet(f, ids) \in Nat
  BY <1>1, <1>2, SumIsNatural
<1> QED BY <1>3 DEF f

LEMMA RequestTypes ==
  ASSUME TypeOK, NEW r \in Requests
  PROVE  /\ Op(r) \in Ops /\ DomainOf(r) \in Domains /\ Target(r) \in Nat
         /\ Delta(r) \in Int /\ NextSeats(r) \in Nat /\ Released(r) \in Int
         /\ local[r] \in LocalType
<1>1. call[r] \in CallRecord /\ local[r] \in LocalType
  BY DEF TypeOK, LocalType
<1>2. Batch \in Nat
  BY ConstantsAssumption
<1> QED
  BY <1>1, <1>2 DEF CallRecord, LocalType, Op, DomainOf, Target, Delta, NextSeats, Released

LEMMA CalledType ==
  ASSUME TypeOK, NEW r \in Requests, NEW ids, google' = Called(r, ids)
  PROVE  google' \in [Subs -> GoogleType]
<1> SUFFICES ASSUME NEW s \in Subs
             PROVE  google'[s] \in GoogleType
  BY DEF Called
<1>1. google[s] \in GoogleType /\ NextSeats(r) \in Nat
  BY RequestTypes DEF TypeOK, GoogleType
<1>2. google'[s] \in {google[s], Resized(s, NextSeats(r)), Suspended(s), Activated(s),
                      Transferred(s)}
  BY DEF Called
<1>3. Resized(s, NextSeats(r)) \in GoogleType
  BY <1>1 DEF Resized, GoogleType
<1>4. Suspended(s) \in GoogleType
  BY <1>1 DEF Suspended, GoogleType
<1>5. Activated(s) \in GoogleType
  BY <1>1 DEF Activated, GoogleType
<1>6. Transferred(s) \in GoogleType
  BY <1>1 DEF Transferred, GoogleType
<1> QED BY <1>1, <1>2, <1>3, <1>4, <1>5, <1>6

LEMMA GoogleTypeStep ==
  ASSUME Shape, TypeOK, [Next]_vars
  PROVE  google' \in [Subs -> GoogleType]
<1>1. CASE google' = google
  BY <1>1 DEF TypeOK, GoogleType
<1>2. ASSUME NEW r \in Requests, Step(r)
      PROVE  google' \in [Subs -> GoogleType]
  BY <1>1, <1>2, StepGoogle, CalledType
<1>3. ASSUME NEW s \in Subs, GoogleActs(s)
      PROVE  google' \in [Subs -> GoogleType]
  <2>1. google[s] \in GoogleType /\ google \in [Subs -> GoogleType]
    BY DEF TypeOK, GoogleType
  <2>2. PICK reasons : /\ reasons \in {google[s].reasons \cup {"GOOGLE"},
                                       google[s].reasons \ {"GOOGLE"}}
                       /\ google' = [google EXCEPT ![s].reasons = reasons]
    BY <1>3 DEF GoogleActs
  <2>3. reasons \in SUBSET {"RESELLER", "GOOGLE"}
    BY <2>1, <2>2 DEF GoogleType
  <2>4. [google[s] EXCEPT !.reasons = reasons] \in GoogleType
    BY <2>1, <2>3 DEF GoogleType
  <2> QED BY <2>1, <2>2, <2>4
<1> QED BY <1>1, <1>2, <1>3 DEF Next, vars, Crash, LockExpires

LEMMA LocalTypeStep ==
  ASSUME TypeOK, google' \in [Subs -> GoogleType], NEW r \in Requests, Step(r)
  PROVE  local' \in [Requests -> LocalType]
<1> DEFINE l == local[r]
<1>0. /\ local \in [Requests -> LocalType]
      /\ l \in LocalType
      /\ google \in [Subs -> GoogleType]
  BY DEF TypeOK, LocalType, GoogleType
<1>1. ASSUME NEW m \in LocalType, local' = [local EXCEPT ![r] = m]
      PROVE  local' \in [Requests -> LocalType]
  BY <1>0, <1>1
<1>2. ASSUME NEW answer \in Answers, Leave(r, answer)
      PROVE  local' \in [Requests -> LocalType]
  <2>1. [l EXCEPT !.answer = answer] \in LocalType
    BY <1>0 DEF LocalType
  <2> QED BY <1>1, <1>2, <2>1 DEF Leave
<1>3. \A reasons : StatusOf(reasons) \in Statuses
  BY DEF StatusOf, Statuses
<1>4. CASE ListOne(r)
  <2>1. CASE \E answer \in Answers : Leave(r, answer)
    BY <2>1, <1>2
  <2>2. ASSUME NEW s \in Subs,
               local' = [local EXCEPT ![r] =
                 [l EXCEPT !.ids = {s}, !.current = google[s].seats, !.at = google[s].seats,
                           !.status = StatusOf(google[s].reasons)]]
        PROVE  local' \in [Requests -> LocalType]
    <3>1. google[s].seats \in Nat
      BY <1>0 DEF GoogleType
    <3>2. [l EXCEPT !.ids = {s}, !.current = google[s].seats, !.at = google[s].seats,
                    !.status = StatusOf(google[s].reasons)] \in LocalType
      BY <1>0, <1>3, <3>1 DEF LocalType
    <3> QED BY <1>1, <2>2, <3>2
  <2> QED BY <1>4, <2>1, <2>2 DEF ListOne, Answers, SubscriptionFor, Held
<1>5. CASE ListAll(r)
  <2>1. CASE \E answer \in Answers : Leave(r, answer)
    BY <2>1, <1>2
  <2> DEFINE held == Held(DomainOf(r))
             seats == SeatsOf(held)
  <2>2. CASE local' = [local EXCEPT ![r] =
               [l EXCEPT !.ids = held, !.current = seats, !.status = "TRANSFERRED"]]
    <3>1. held \in SUBSET Subs
      BY DEF Held
    <3>2. seats \in Nat
      <4> HIDE DEF held
      <4> QED BY <1>0, <3>1, SeatSum DEF SeatsOf
    <3> HIDE DEF held, seats
    <3>3. [l EXCEPT !.ids = held, !.current = seats, !.status = "TRANSFERRED"] \in LocalType
      BY <1>0, <3>1, <3>2 DEF LocalType, Statuses
    <3> QED BY <1>1, <2>2, <3>3
  <2> QED BY <1>5, <2>1, <2>2 DEF ListAll, Answers
<1>6. CASE CallWorks(r)
  <2>1. CASE local' = [local EXCEPT ![r].at = NextSeats(r)]
    <3>1. NextSeats(r) \in Nat
      BY RequestTypes
    <3>2. [l EXCEPT !.at = NextSeats(r)] \in LocalType
      BY <1>0, <3>1 DEF LocalType
    <3> QED BY <1>1, <2>1, <3>2
  <2>2. ASSUME NEW st \in Statuses, local' = [local EXCEPT ![r].status = st]
        PROVE  local' \in [Requests -> LocalType]
    <3>1. [l EXCEPT !.status = st] \in LocalType
      BY <1>0 DEF LocalType
    <3> QED BY <1>1, <2>2, <3>1
  <2>3. l.status \in Statuses
    BY <1>0 DEF LocalType
  <2> QED BY <1>3, <1>6, <2>1, <2>2, <2>3 DEF CallWorks
<1>7. ASSUME NEW lost \in BOOLEAN, Retry(r, lost)
      PROVE  local' \in [Requests -> LocalType]
  <2> DEFINE tries == l.tries + 1
             lostSoFar == l.lost \/ lost
  <2>1. local' = [local EXCEPT ![r] =
                    [l EXCEPT !.tries = tries, !.at = l.current, !.lost = lostSoFar]]
    BY <1>7, Zenon DEF Retry
  <2>2. tries \in 0 .. Attempts
    BY <1>0, <1>7, ConstantsAssumption DEF Retry, LocalType
  <2>3. lostSoFar \in BOOLEAN
    BY <1>0 DEF LocalType
  <2> HIDE DEF tries, lostSoFar
  <2>4. [l EXCEPT !.tries = tries, !.at = l.current, !.lost = lostSoFar] \in LocalType
    BY <1>0, <2>2, <2>3 DEF LocalType
  <2> QED BY <1>1, <2>1, <2>4
<1>8. ASSUME NEW lost \in BOOLEAN, GiveUp(r, lost)
      PROVE  local' \in [Requests -> LocalType]
  <2> DEFINE left == IF Sells(r) THEN Bought(r, google') ELSE 0
             lostSoFar == l.lost \/ lost
  <2>1. local' = [local EXCEPT ![r] =
                    [l EXCEPT !.answer = "error", !.lost = lostSoFar, !.left = left]]
    BY <1>8, Zenon DEF GiveUp
  <2>2. left \in Nat
    <3> DEFINE held == {s \in l.ids : google'[s].held}
    <3>1. held \in SUBSET Subs /\ l.current \in Nat
      BY <1>0 DEF LocalType
    <3>2. Bought(r, google') =
            Minus(SumFunctionOnSet([s \in held |-> google'[s].seats], held), l.current)
      BY DEF Bought
    <3> HIDE DEF held
    <3>3. SumFunctionOnSet([s \in held |-> google'[s].seats], held) \in Nat
      BY <3>1, SeatSum
    <3>4. Bought(r, google') \in Nat
      BY <3>1, <3>2, <3>3 DEF Minus
    <3> QED BY <3>4
  <2>3. lostSoFar \in BOOLEAN
    BY <1>0 DEF LocalType
  <2> HIDE DEF left, lostSoFar
  <2>4. [l EXCEPT !.answer = "error", !.lost = lostSoFar, !.left = left] \in LocalType
    BY <1>0, <2>2, <2>3 DEF LocalType, Answers
  <2> QED BY <1>1, <2>1, <2>4
<1>9. CASE CounterRaises(r)
  <2>1. [l EXCEPT !.answer = "error", !.lost = TRUE] \in LocalType
    BY <1>0 DEF LocalType, Answers
  <2> QED BY <1>1, <1>9, <2>1 DEF CounterRaises
<1>10. CASE Unlock(r)
  <2> DEFINE lost == l.lost
             left == l.left
             m == [Fresh EXCEPT !.lost = lost, !.left = left]
  <2>1. local' = [local EXCEPT ![r] = m]
    BY <1>10, Zenon DEF Unlock
  <2>2. lost \in BOOLEAN /\ left \in Nat /\ 0 \in 0 .. Attempts
    BY <1>0, ConstantsAssumption DEF LocalType
  <2> HIDE DEF lost, left
  <2>3. m \in LocalType
    BY <2>2 DEF LocalType, Answers, Statuses, Fresh
  <2> QED BY <1>1, <2>1, <2>3
<1>11. CASE UNCHANGED local
  BY <1>0, <1>11
<1> QED
  BY <1>2, <1>4, <1>5, <1>6, <1>7, <1>8, <1>9, <1>10, <1>11 DEF Step, Acquire, Busy, OwnedCompany,
    Answers, ListFails, Reserve, CallRejected, CallFails, CallLost, Undo, Account, UpdateCompany,
    UpdateRecord, Audit, Saved, Refused, Raised

LEMMA CounterTypeStep ==
  ASSUME Shape, TypeInv, NEW r \in Requests, Step(r)
  PROVE  used' \in Nat
<1>1. used \in Nat /\ Delta(r) \in Int /\ Released(r) \in Int
  BY RequestTypes DEF TypeInv, TypeOK
<1>2. CASE Reserve(r)
  <2>1. Delta(r) > 0
    BY <1>2 DEF Reserve, TypeInv
  <2> QED BY <1>1, <1>2, <2>1 DEF Reserve
<1>3. CASE Undo(r) \/ Account(r)
  BY <1>1, <1>3 DEF Undo, Account, Minus
<1>4. CASE UNCHANGED used
  BY <1>1, <1>4
<1>5. CASE CounterRaises(r)
  <2>1. pc[r] = "reserve" => Delta(r) > 0
    BY DEF TypeInv
  <2>2. Counter(r) \in Nat
    BY <1>1, <2>1 DEF Counter, Minus
  <2> QED BY <1>1, <1>5, <2>2 DEF CounterRaises
<1> QED
  BY <1>2, <1>3, <1>4, <1>5 DEF Step, Acquire, Busy, OwnedCompany, ListOne, ListAll, ListFails,
    CallWorks, CallRejected, CallFails, CallLost, UpdateCompany, UpdateRecord, Audit, Unlock

(* The documents an action writes at its end, and what they will lack.     *)
Paper == /\ company \in [Domains -> Statuses]
         /\ record \in [Domains -> [seats: Nat, status: Statuses]]
         /\ audit \subseteq [by: Requests, licences: Int]
         /\ missing \subseteq [by: Requests, licences: Int]
         /\ unsaved \subseteq Requests
         /\ mishaps \in 0 .. MaxMishaps

LEMMA PaperTypeStep ==
  ASSUME TypeOK, NEW r \in Requests, Step(r)
  PROVE  Paper'
<1>1. Paper /\ MaxMishaps \in Nat
  BY ConstantsAssumption DEF TypeOK, Paper
<1>2. /\ local[r].status \in Statuses /\ local[r].current \in Nat
      /\ DomainOf(r) \in Domains /\ Target(r) \in Nat /\ Delta(r) \in Int
      /\ Released(r) \in Int /\ -Released(r) \in Int
  BY RequestTypes DEF LocalType
<1>3. Licences(r) \in Int
  BY <1>2 DEF Licences
<1>4. \A n \in Int : [by |-> r, licences |-> n] \in [by: Requests, licences: Int]
  OBVIOUS
<1>5. \A n \in Int : Unreported(r, n) => missing' \subseteq [by: Requests, licences: Int]
  BY <1>1, <1>4 DEF Unreported, Paper
<1>6. Mishap => mishaps' \in 0 .. MaxMishaps
  BY <1>1 DEF Mishap, Paper
<1>7. /\ Refused(r, "record") \/ Refused(r, "audit") \/ Raised(r)
         => /\ missing' \subseteq [by: Requests, licences: Int]
            /\ unsaved' \subseteq Requests
            /\ mishaps' \in 0 .. MaxMishaps
      /\ Saved(r, "record") \/ Saved(r, "audit") => UNCHANGED <<missing, unsaved, mishaps>>
  <2>1. Raised(r) => missing' \subseteq [by: Requests, licences: Int]
    BY <1>3, <1>5 DEF Raised
  <2> QED BY <1>1, <1>6, <2>1 DEF Refused, Raised, Saved, history, Paper
<1>8. CASE /\ UNCHANGED <<company, record, audit, missing, unsaved>>
           /\ UNCHANGED mishaps \/ Mishap
  BY <1>1, <1>6, <1>8 DEF Paper
<1>9. CASE UpdateCompany(r)
  <2>1. /\ UNCHANGED <<record, audit>>
        /\ company' \in [Domains -> Statuses]
    BY <1>1, <1>2, <1>9 DEF UpdateCompany, Paper
  <2> QED BY <1>1, <1>7, <1>9, <2>1 DEF UpdateCompany, Paper
<1>10. CASE UpdateRecord(r)
  <2>1. /\ UNCHANGED <<company, audit>>
        /\ \/ record' = record
           \/ record' = [record EXCEPT ![DomainOf(r)].seats = Target(r)]
           \/ record' = [record EXCEPT ![DomainOf(r)].status = local[r].status]
    BY <1>10 DEF UpdateRecord
  <2>2. record' \in [Domains -> [seats: Nat, status: Statuses]]
    BY <1>1, <1>2, <2>1 DEF Paper
  <2> QED BY <1>1, <1>7, <1>10, <2>1, <2>2 DEF UpdateRecord, Paper
<1>11. CASE Audit(r)
  <2>1. [by |-> r, licences |-> Licences(r)] \in [by: Requests, licences: Int]
    BY <1>3, <1>4
  <2> QED BY <1>1, <1>3, <1>5, <1>6, <1>11, <2>1 DEF Audit, Paper, history
<1>12. CASE CounterRaises(r)
  <2>1. missing' \subseteq [by: Requests, licences: Int]
    BY <1>1, <1>2, <1>5, <1>12 DEF CounterRaises, Paper
  <2> QED BY <1>1, <1>6, <1>12, <2>1 DEF CounterRaises, Paper
<1> QED
  BY <1>8, <1>9, <1>10, <1>11, <1>12 DEF Step, Acquire, Busy, OwnedCompany, ListOne, ListAll,
    ListFails, Reserve, CallWorks, CallRejected, CallFails, CallLost, Undo, Account, Unlock,
    history

(* Who is about to reserve has just seen that it needs more.               *)
LEMMA ReserveStep ==
  ASSUME Shape, TypeInv, NEW r \in Requests, Step(r), pc'[r] = "reserve"
  PROVE  Delta(r)' > 0
<1>1. ListOne(r)
  BY DEF Step, Acquire, Busy, OwnedCompany, ListAll, ListFails, Reserve, CallWorks, AfterCall,
    CallRejected, GiveUp, CallFails, Retry, CallLost, Undo, Account, CounterRaises, UpdateCompany,
    UpdateRecord, Audit, Saved, Refused, Raised, Unlock, Goto, Leave, Shape, LocalShape, Answers
<1>2. /\ pc[r] = "list" /\ call' = call
      /\ pc \in [Requests -> Steps]
  BY <1>1 DEF ListOne, Shape
<1>3. PICK s \in Subs :
        /\ Goto(r, AfterList(r, s))
        /\ local' = [local EXCEPT ![r] =
             [@ EXCEPT !.ids = {s}, !.current = google[s].seats, !.at = google[s].seats,
                       !.status = StatusOf(google[s].reasons)]]
  BY <1>1, <1>2 DEF ListOne, Leave, Goto, SubscriptionFor, Held
<1>4. Target(r) > google[s].seats
  BY <1>2, <1>3 DEF AfterList, Goto
<1>5. local'[r].current = google[s].seats
  BY <1>3 DEF TypeInv, TypeOK
<1>6. google[s].seats \in Nat /\ Target(r) \in Nat
  BY RequestTypes DEF TypeInv, TypeOK
<1> QED BY <1>2, <1>4, <1>5, <1>6 DEF Delta, Target

LEMMA TypeStep ==
  ASSUME Shape, TypeInv, [Next]_vars
  PROVE  TypeInv'
<1>0. Shape' /\ google' \in [Subs -> GoogleType] /\ TypeOK
  BY ShapeStep, GoogleTypeStep DEF TypeInv
<1>1. CASE UNCHANGED vars
  BY <1>1 DEF vars, TypeInv, TypeOK, Delta, Target
<1>2. ASSUME NEW r \in Requests, Step(r)
      PROVE  TypeInv'
  <2>1. TypeOK'
    BY <1>0, <1>2, LocalTypeStep, CounterTypeStep, PaperTypeStep
    DEF TypeOK, Shape, LocalType, GoogleType, Paper
  <2>2. ASSUME NEW q \in Requests, pc'[q] = "reserve"
        PROVE  Delta(q)' > 0
    <3>1. CASE q = r
      BY <1>2, <2>2, <3>1, ReserveStep
    <3>2. CASE q # r
      <4>1. call' = call /\ pc'[q] = pc[q]
        BY <1>2, <3>2, StepMoves DEF Shape, Moves, Acquire, Busy, Unlock, Goto
      <4>2. local'[q] = local[q]
        BY <1>2, <3>2, StepLocal DEF OnlyLocalOf
      <4> QED BY <2>2, <4>1, <4>2 DEF TypeInv, Delta, Target
    <3> QED BY <3>1, <3>2
  <2> QED BY <2>1, <2>2 DEF TypeInv
<1>3. ASSUME NEW r \in Requests, Crash(r)
      PROVE  TypeInv'
  <2>1. /\ UNCHANGED <<call, local, lock, used, google, company, record, audit, missing, unsaved>>
        /\ pc' = [pc EXCEPT ![r] = "dead"]
        /\ mishaps' \in 0 .. MaxMishaps
    BY <1>3, ConstantsAssumption DEF Crash, Goto, Mishap, TypeInv, TypeOK, history
  <2>2. \A q \in Requests : pc'[q] = "reserve" => pc[q] = "reserve"
    BY <2>1 DEF Shape
  <2> QED BY <1>0, <2>1, <2>2 DEF Shape, TypeInv, TypeOK, Delta, Target
<1>4. ASSUME NEW d \in Domains, LockExpires(d)
      PROVE  TypeInv'
  BY <1>0, <1>4 DEF LockExpires, Shape, TypeInv, TypeOK, Delta, Target, history
<1>5. ASSUME NEW s \in Subs, GoogleActs(s)
      PROVE  TypeInv'
  <2>1. /\ UNCHANGED <<call, pc, local, lock, used, company, record, audit, missing, unsaved>>
        /\ mishaps' \in 0 .. MaxMishaps
    BY <1>5, ConstantsAssumption DEF GoogleActs, Mishap, TypeInv, TypeOK, history
  <2> QED BY <1>0, <2>1 DEF GoogleType, TypeInv, TypeOK, Delta, Target
<1> QED BY <1>1, <1>2, <1>3, <1>4, <1>5 DEF Next

LEMMA TypeInit == Init => TypeInv
<1> SUFFICES ASSUME Init PROVE TypeInv
  OBVIOUS
<1>1. Shape
  BY ShapeInit
<1>2. used \in Nat
  BY ConstantsAssumption, SumIsNatural DEF Init
<1>3. /\ local \in [Requests -> LocalType]
      /\ 0 \in 0 .. MaxMishaps
  BY ConstantsAssumption DEF Init, Fresh, LocalType, Statuses, Answers
<1>4. google \in [Subs -> GoogleType]
  BY ConstantsAssumption DEF Init, GoogleType
<1>5. /\ company \in [Domains -> Statuses]
      /\ record \in [Domains -> [seats: Nat, status: Statuses]]
  BY ConstantsAssumption DEF Init, Statuses
<1>6. /\ audit \subseteq [by: Requests, licences: Int]
      /\ missing \subseteq [by: Requests, licences: Int]
      /\ unsaved \subseteq Requests
      /\ mishaps \in 0 .. MaxMishaps
  BY <1>3 DEF Init
<1>7. \A r \in Requests : pc[r] = "start"
  BY DEF Init
<1> QED BY <1>1, <1>2, <1>3, <1>4, <1>5, <1>6, <1>7
        DEF TypeInv, TypeOK, Shape, LocalType, GoogleType

(* TypeOK: no action leaves a document or a local variable in a form that  *)
(* the next one does not expect; the counter of the partner stays a number *)
(* from zero on.                                                           *)
THEOREM TypeCorrect == Spec => []TypeOK
<1>1. Init => Shape /\ TypeInv
  BY ShapeInit, TypeInit
<1>2. Shape /\ TypeInv /\ [Next]_vars => (Shape /\ TypeInv)'
  BY ShapeStep, TypeStep
<1>3. TypeInv => TypeOK
  BY DEF TypeInv
<1> QED BY <1>1, <1>2, <1>3, PTL DEF Spec

-----------------------------------------------------------------------------
(* Sums of seats, of some subscriptions as g has them.                     *)
Seats(g, ids) == SumFunctionOnSet([s \in ids |-> g[s].seats], ids)
HeldIn(g, ids) == {s \in ids : g[s].held}

LEMMA SeatsSplit ==
  ASSUME NEW g \in [Subs -> GoogleType], NEW ids \in SUBSET Subs, NEW part
  PROVE  /\ Seats(g, ids) = Seats(g, ids \cap part) + Seats(g, ids \ part)
         /\ Seats(g, ids) \in Nat
         /\ Seats(g, ids \cap part) \in Nat /\ Seats(g, ids \ part) \in Nat
<1> DEFINE In(h) == SumFunctionOnSet([s \in ids |-> g[s].seats], h)
<1>1. IsFiniteSet(ids) /\ \A s \in ids : g[s].seats \in Int
  BY ConstantsAssumption, FS_Subset DEF GoogleType
<1>2. ASSUME NEW h \in SUBSET ids
      PROVE  Seats(g, h) = In(h)
  <2> DEFINE e == [s \in h |-> g[s].seats]
             f == [s \in ids |-> g[s].seats]
  <2>1. IsFiniteSet(h) /\ \A s \in h : e[s] \in Int /\ f[s] = e[s]
    BY <1>1, FS_Subset
  <2> HIDE DEF e, f
  <2>2. SumFunctionOnSet(f, h) = SumFunctionOnSet(e, h)
    BY <2>1, SumAgrees
  <2> QED BY <2>2 DEF e, f, Seats
<1>3. In(ids) = In(ids \cap part) + In(ids \ part)
  <2> DEFINE f == [s \in ids |-> g[s].seats]
  <2>1. \A s \in ids : f[s] \in Int
    BY <1>1
  <2> HIDE DEF f
  <2>2. SumFunctionOnSet(f, ids) = SumFunctionOnSet(f, ids \cap part)
                                   + SumFunctionOnSet(f, ids \ part)
    BY <1>1, <2>1, SumSplit
  <2> QED BY <2>2 DEF f
<1>4. /\ Seats(g, ids) \in Nat
      /\ Seats(g, ids \cap part) \in Nat /\ Seats(g, ids \ part) \in Nat
  <2>1. ids \cap part \in SUBSET Subs /\ ids \ part \in SUBSET Subs
    OBVIOUS
  <2> QED BY <2>1, SeatSum DEF Seats
<1>5. /\ Seats(g, ids) = In(ids)
      /\ Seats(g, ids \cap part) = In(ids \cap part)
      /\ Seats(g, ids \ part) = In(ids \ part)
  <2> HIDE DEF In
  <2> QED BY <1>2
<1> HIDE DEF In
<1> QED BY <1>3, <1>4, <1>5

LEMMA SeatsAgree ==
  ASSUME NEW g \in [Subs -> GoogleType], NEW h, NEW ids \in SUBSET Subs,
         \A s \in ids : h[s].seats = g[s].seats
  PROVE  Seats(h, ids) = Seats(g, ids)
<1> DEFINE e == [s \in ids |-> g[s].seats]
           f == [s \in ids |-> h[s].seats]
<1>1. IsFiniteSet(ids) /\ \A s \in ids : e[s] \in Int /\ f[s] = e[s]
  BY ConstantsAssumption, FS_Subset DEF GoogleType
<1> HIDE DEF e, f
<1>2. SumFunctionOnSet(f, ids) = SumFunctionOnSet(e, ids)
  BY <1>1, SumAgrees
<1> QED BY <1>2 DEF e, f, Seats

LEMMA SeatsOfOne ==
  ASSUME NEW g \in [Subs -> GoogleType], NEW s \in Subs
  PROVE  Seats(g, {s}) = g[s].seats /\ Seats(g, {}) = 0
<1> DEFINE f == [t \in {s} |-> g[t].seats]
<1>1. f[s] = g[s].seats /\ f[s] \in Int
  BY DEF GoogleType
<1>2. IsFiniteSet({s})
  BY FS_Singleton
<1> HIDE DEF f
<1>3. SumFunctionOnSet(f, {s}) = f[s] + SumFunctionOnSet(f, {s} \ {s})
  BY <1>1, <1>2, SumRemove
<1>4. {s} \ {s} = {}
  OBVIOUS
<1>5. SumFunctionOnSet(f, {s}) = f[s]
  BY <1>1, <1>3, <1>4, SumOfNone
<1> QED BY <1>1, <1>5, SumOfNone DEF f, Seats

(* If subscriptions change, what is held changes by as much as theirs.     *)
LEMMA SeatsShift ==
  ASSUME NEW g \in [Subs -> GoogleType], NEW h \in [Subs -> GoogleType],
         NEW ids \in SUBSET Subs, \A s \in Subs \ ids : h[s] = g[s]
  PROVE  /\ Seats(h, HeldIn(h, Subs)) - Seats(g, HeldIn(g, Subs))
              = Seats(h, HeldIn(h, ids)) - Seats(g, HeldIn(g, ids))
         /\ Seats(h, HeldIn(h, ids)) \in Nat /\ Seats(g, HeldIn(g, ids)) \in Nat
         /\ Seats(h, HeldIn(h, Subs)) \in Nat /\ Seats(g, HeldIn(g, Subs)) \in Nat
         /\ Seats(g, HeldIn(g, ids)) <= Seats(g, HeldIn(g, Subs))
<1> DEFINE G == HeldIn(g, Subs)
           H == HeldIn(h, Subs)
<1>1. /\ G \in SUBSET Subs /\ H \in SUBSET Subs
      /\ G \cap ids = HeldIn(g, ids) /\ H \cap ids = HeldIn(h, ids)
      /\ H \ ids = G \ ids
  BY DEF HeldIn
<1> HIDE DEF G, H
<1>2. /\ Seats(g, G) = Seats(g, G \cap ids) + Seats(g, G \ ids)
      /\ Seats(g, G) \in Nat /\ Seats(g, G \cap ids) \in Nat /\ Seats(g, G \ ids) \in Nat
  <2>1. G \in SUBSET Subs
    BY <1>1
  <2> QED BY <2>1, SeatsSplit
<1>3. /\ Seats(h, H) = Seats(h, H \cap ids) + Seats(h, H \ ids)
      /\ Seats(h, H) \in Nat /\ Seats(h, H \cap ids) \in Nat /\ Seats(h, H \ ids) \in Nat
  <2>1. H \in SUBSET Subs /\ h \in [Subs -> GoogleType]
    BY <1>1
  <2> QED BY <2>1, SeatsSplit
<1>4. Seats(h, G \ ids) = Seats(g, G \ ids)
  <2>1. G \ ids \in SUBSET Subs /\ \A s \in G \ ids : h[s].seats = g[s].seats
    BY <1>1
  <2> QED BY <2>1, SeatsAgree
<1>5. Seats(h, H \ ids) = Seats(g, G \ ids)
  BY <1>1, <1>4
<1> DEFINE a == Seats(g, G)
           b == Seats(g, G \cap ids)
           c == Seats(g, G \ ids)
           d == Seats(h, H)
           e == Seats(h, H \cap ids)
           f == Seats(h, H \ ids)
<1>6. a = b + c /\ d = e + f /\ f = c
  BY <1>2, <1>3, <1>5
<1>7. a \in Nat /\ b \in Nat /\ c \in Nat /\ d \in Nat /\ e \in Nat /\ f \in Nat
  BY <1>2, <1>3
<1>8. /\ Seats(h, HeldIn(h, Subs)) = d /\ Seats(g, HeldIn(g, Subs)) = a
      /\ Seats(h, HeldIn(h, ids)) = e /\ Seats(g, HeldIn(g, ids)) = b
  BY <1>1 DEF G, H
<1> HIDE DEF a, b, c, d, e, f
<1>9. d - a = e - b /\ b <= a
  BY <1>6, <1>7
<1> QED BY <1>7, <1>8, <1>9

-----------------------------------------------------------------------------
(* The books.  An action in the middle of its work accounts for the gap    *)
(* between the counter and Google: an increase has reserved what it is yet *)
(* to buy, and whatever takes seats away gives them back later.            *)
InHand(r) == Seats(google, HeldIn(google, local[r].ids))

Due(r) ==
  IF pc[r] = "call" THEN (IF Sells(r) THEN Target(r) ELSE local[r].current) - InHand(r)
  ELSE IF pc[r] = "undo" THEN Delta(r)
  ELSE IF pc[r] = "account" THEN Released(r) ELSE 0

(* What the counter has moved for an action that no entry tells of yet.    *)
Transit(r) ==
  IF pc[r] \in {"call", "undo"} THEN (IF Sells(r) THEN Delta(r) ELSE 0)
  ELSE IF pc[r] \in {"company", "record", "audit"} THEN Licences(r) ELSE 0

(* Between its calls an action finds at Google what it has put there.  As  *)
(* long as no outcome was lost, what takes seats away has taken none.      *)
Asking(r) ==
  /\ Op(r) = "change" => Delta(r) # 0
  /\ Sells(r) => /\ local[r].current <= local[r].at /\ local[r].at <= Target(r)
                 /\ local[r].current <= InHand(r) /\ InHand(r) <= Target(r)
  /\ ~Sells(r) => InHand(r) <= local[r].current
  /\ ~local[r].lost => /\ \A s \in local[r].ids : google[s].held
                       /\ ~Sells(r) => InHand(r) = local[r].current

Own(d) == {s \in Subs : Customer[s] = d}

Deal(r) ==
  /\ pc[r] \in {"start", "owned", "list", "reserve", "call"} => local[r].left = 0
  /\ pc[r] \in {"start", "owned", "list", "reserve", "call", "account", "company", "record"} =>
       local[r].answer = "ok"
  /\ pc[r] \in {"reserve", "call"} =>
       /\ local[r].ids \subseteq Own(DomainOf(r))
       /\ Op(r) # "delete" => \E s \in Subs : local[r].ids = {s} /\ google[s].held
  /\ pc[r] = "reserve" =>
       Sells(r) /\ InHand(r) = local[r].current /\ local[r].at = local[r].current
  /\ pc[r] = "call" => Asking(r)
  /\ pc[r] = "undo" => Sells(r)
  /\ pc[r] = "account" => Op(r) \in {"change", "delete"} /\ ~Sells(r) /\ Released(r) >= 0

(* An action has one entry, in the log or missing from it, at its end.     *)
AuditInv ==
  /\ IsFiniteSet(audit) /\ IsFiniteSet(missing)
  /\ \A e \in audit \cup missing : pc[e.by] \in {"unlock", "dead"} \cup Answers

LEMMA NewlyMissing ==
  ASSUME NEW r \in Requests, AuditInv, pc[r] \in Inside, NEW n, Unreported(r, n)
  PROVE  missing' # missing /\ [by |-> r, licences |-> n] \notin audit \cup missing
  BY DEF AuditInv, Unreported, Inside, Answers

(* What a step of r does to the books, and to the report.                  *)
Noted(r) ==
  IF pc[r] = "audit" THEN Licences(r)
  ELSE IF missing' = missing THEN 0
  ELSE IF pc[r] \in {"reserve", "undo"} THEN Delta(r)
  ELSE IF pc[r] = "account" THEN -Released(r) ELSE Licences(r)
Moved(r) == Due(r)' - Due(r)

Books(r) ==
  /\ local'[r].left >= local[r].left
  /\ ~local'[r].lost => ~local[r].lost
  /\ (used' + local'[r].left - Sold') - (used + local[r].left - Sold) >= Moved(r)
  /\ used >= Due(r) /\ ~local'[r].lost /\ local'[r].left = 0 =>
       (used' - Sold') - (used - Sold) = Moved(r)

Report(r) ==
  used >= Due(r) /\ local'[r].left = 0 =>
    used' - used = Noted(r) + (Transit(r)' - Transit(r))

LEMMA SoldIsSeats ==
  /\ Sold = Seats(google, HeldIn(google, Subs))
  /\ Sold' = Seats(google', HeldIn(google', Subs))
  BY DEF Sold, SeatsOf, Seats, HeldIn

(* Every figure is a number.                                               *)
Numbers(r) ==
  /\ used \in Nat /\ Sold \in Nat /\ InHand(r) \in Nat
  /\ Target(r) \in Nat /\ local[r].current \in Nat /\ local[r].at \in Nat
  /\ local[r].left \in Nat /\ local[r].ids \in SUBSET Subs
  /\ Delta(r) = Target(r) - local[r].current
  /\ Due(r) \in Int /\ Transit(r) \in Int /\ Licences(r) \in Int

LEMMA NumbersHold == TypeOK => \A r \in Requests : Numbers(r)
<1> SUFFICES ASSUME TypeOK, NEW r \in Requests
             PROVE  Numbers(r)
  OBVIOUS
<1>1. /\ used \in Nat /\ google \in [Subs -> GoogleType]
      /\ local[r] \in LocalType /\ Target(r) \in Nat /\ Delta(r) \in Int /\ Released(r) \in Int
  BY RequestTypes DEF TypeOK, GoogleType
<1>2. /\ local[r].current \in Nat /\ local[r].at \in Nat /\ local[r].left \in Nat
      /\ local[r].ids \in SUBSET Subs
  BY <1>1 DEF LocalType
<1>3. InHand(r) \in Nat /\ Sold \in Nat
  <2>1. HeldIn(google, local[r].ids) \in SUBSET Subs /\ HeldIn(google, Subs) \in SUBSET Subs
    BY <1>2 DEF HeldIn
  <2> QED BY <1>1, <2>1, SeatSum DEF InHand, Seats, Sold, SeatsOf, HeldIn
<1>4. Licences(r) \in Int
  BY <1>1, <1>2 DEF Licences
<1>5. Due(r) \in Int /\ Transit(r) \in Int
  BY <1>1, <1>2, <1>3, <1>4 DEF Due, Transit
<1> QED BY <1>1, <1>2, <1>3, <1>4, <1>5 DEF Delta, Numbers

(* Steps that touch neither the counter nor Google, away from the calls.   *)
LEMMA QuietBooks ==
  ASSUME NEW r \in Requests, Numbers(r), Numbers(r)', Deal(r),
         UNCHANGED <<call, used, google>>,
         pc[r] \notin {"call", "undo", "account"},
         pc'[r] \notin {"start", "reserve", "call", "undo", "account"},
         local'[r].left = local[r].left, local'[r].lost = local[r].lost,
         pc'[r] \in {"owned", "list", "company", "record"} => local'[r].answer = "ok",
         pc'[r] \in {"owned", "list"} => local'[r].left = 0,
         Transit(r)' = Transit(r) - Noted(r)
  PROVE  Deal(r)' /\ Books(r) /\ Report(r)
<1>1. Due(r) = 0 /\ Due(r)' = 0 /\ Sold' = Sold
  BY DEF Due, Sold, SeatsOf
<1>2. Noted(r) \in Int
  BY DEF Noted, Numbers, Released
<1>3. Deal(r)'
  BY DEF Deal
<1>4. Books(r)
  BY <1>1 DEF Books, Moved, Numbers
<1>5. Report(r)
  BY <1>2 DEF Report, Numbers
<1> QED BY <1>3, <1>4, <1>5

LEMMA QuietSteps ==
  ASSUME Shape, TypeOK, AuditInv, NEW r \in Requests, Numbers(r), Numbers(r)', Deal(r),
         \/ Acquire(r) \/ Busy(r) \/ OwnedCompany(r) \/ ListFails(r) \/ UpdateCompany(r)
         \/ UpdateRecord(r) \/ Audit(r) \/ Unlock(r)
         \/ (pc[r] \in {"list", "reserve"} /\ UNCHANGED <<call, used, google, missing>>
             /\ \E answer \in Answers : Leave(r, answer))
  PROVE  Deal(r)' /\ Books(r) /\ Report(r)
<1>0. /\ pc \in [Requests -> Steps] /\ local \in [Requests -> LocalType]
      /\ local[r] \in LocalType
      /\ Licences(r) \in Int
  BY DEF TypeOK, LocalType, Numbers
<1>1. CASE Acquire(r) \/ (OwnedCompany(r) /\ Goto(r, "list") /\ UNCHANGED local)
  <2>1. /\ UNCHANGED <<call, used, google, local, missing>>
        /\ pc[r] \in {"start", "owned"} /\ pc'[r] \in {"owned", "list"}
    BY <1>0, <1>1 DEF Acquire, OwnedCompany, Goto, history
  <2>2. local[r].left = 0 /\ local[r].answer = "ok"
    BY <2>1 DEF Deal
  <2>3. Transit(r)' = Transit(r) - Noted(r)
    BY <2>1 DEF Transit, Noted
  <2> QED BY <2>1, <2>2, <2>3, QuietBooks
<1>2. CASE Busy(r)
  <2>1. /\ UNCHANGED <<call, used, google, local, missing>>
        /\ pc[r] = "start" /\ pc'[r] = "refused"
    BY <1>0, <1>2 DEF Busy, Goto, history
  <2>3. Transit(r)' = Transit(r) - Noted(r)
    BY <2>1 DEF Transit, Noted
  <2> QED BY <2>1, <2>3, QuietBooks
<1>3. ASSUME NEW answer \in Answers, Leave(r, answer), UNCHANGED <<call, used, google, missing>>,
             pc[r] \in {"owned", "list", "reserve"}
      PROVE  Deal(r)' /\ Books(r) /\ Report(r)
  <2>1. pc'[r] = "unlock"
    BY <1>0, <1>3 DEF Leave, Goto
  <2>2. local'[r].left = local[r].left /\ local'[r].lost = local[r].lost
    BY <1>0, <1>3 DEF Leave, LocalType
  <2>3. Transit(r)' = Transit(r) - Noted(r)
    BY <1>3, <2>1 DEF Transit, Noted
  <2> QED BY <1>3, <2>1, <2>2, <2>3, QuietBooks
<1>4. CASE UpdateCompany(r) \/ UpdateRecord(r)
  <2>0. UNCHANGED <<call, used, google>> /\ pc[r] \in {"company", "record"}
    BY <1>4 DEF UpdateCompany, UpdateRecord
  <2>1. local[r].answer = "ok" /\ Transit(r) = Licences(r)
    BY <2>0 DEF Deal, Transit
  <2>2. CASE UNCHANGED <<local, missing>> /\ (Goto(r, "record") \/ Goto(r, "audit"))
    <3>1. pc'[r] \in {"record", "audit"}
      BY <1>0, <2>2 DEF Goto
    <3>2. Transit(r)' = Licences(r) /\ Noted(r) = 0
      BY <2>0, <2>2, <3>1 DEF Transit, Noted, Licences, Delta, Op, Target
    <3> QED BY <1>0, <2>0, <2>1, <2>2, <3>1, <3>2, QuietBooks
  <2>3. CASE Raised(r)
    <3>1. pc'[r] = "unlock" /\ local'[r].left = local[r].left /\ local'[r].lost = local[r].lost
      BY <1>0, <2>3 DEF Raised, Leave, Goto, LocalType
    <3>2. missing' # missing
      BY <2>0, <2>3, NewlyMissing DEF Raised, Inside
    <3>3. Transit(r)' = 0 /\ Noted(r) = Licences(r)
      BY <2>0, <3>1, <3>2 DEF Transit, Noted
    <3> QED BY <1>0, <2>0, <2>1, <3>1, <3>3, QuietBooks
  <2> QED BY <1>4, <2>2, <2>3 DEF UpdateCompany, UpdateRecord, Saved, Refused, history
<1>5. CASE Audit(r)
  <2>1. UNCHANGED <<call, used, google, local>> /\ pc[r] = "audit" /\ pc'[r] = "unlock"
    BY <1>0, <1>5 DEF Audit, Goto
  <2>3. Transit(r)' = Transit(r) - Noted(r)
    BY <1>0, <2>1 DEF Transit, Noted
  <2> QED BY <2>1, <2>3, QuietBooks
<1>6. CASE Unlock(r)
  <2> DEFINE lost == local[r].lost
             left == local[r].left
  <2>1. /\ UNCHANGED <<call, used, google, missing>>
        /\ pc[r] = "unlock" /\ pc'[r] = local[r].answer
        /\ local' = [local EXCEPT ![r] = [Fresh EXCEPT !.lost = lost, !.left = left]]
    BY <1>0, <1>6, Zenon DEF Unlock, Goto, history
  <2>2. local'[r].left = left /\ local'[r].lost = lost
    <3> HIDE DEF lost, left
    <3> QED BY <1>0, <2>1 DEF Fresh
  <2>3. pc'[r] \in Answers
    BY <1>0, <2>1 DEF LocalType
  <2>4. Transit(r)' = Transit(r) - Noted(r)
    BY <2>1, <2>3 DEF Transit, Noted, Answers
  <2> QED BY <2>1, <2>2, <2>3, <2>4, QuietBooks DEF Answers
<1>7. CASE OwnedCompany(r)
  BY <1>1, <1>3, <1>7 DEF OwnedCompany, Answers, history
<1>8. CASE ListFails(r)
  BY <1>3, <1>8 DEF ListFails, Answers, history
<1> QED BY <1>1, <1>2, <1>3, <1>4, <1>5, <1>6, <1>7, <1>8

(* A listing finds what is held, all of it or one subscription.            *)
LEMMA ListedBooks ==
  ASSUME NEW r \in Requests, Numbers(r), Numbers(r)', Deal(r), pc[r] = "list",
         UNCHANGED <<call, used, google, missing>>,
         local'[r].left = local[r].left, local'[r].lost = local[r].lost,
         local'[r].answer = local[r].answer,
         local'[r].ids \subseteq Own(DomainOf(r)), \A s \in local'[r].ids : google[s].held,
         Op(r) # "delete" => \E s \in Subs : local'[r].ids = {s},
         InHand(r)' = local'[r].current,
         \/ pc'[r] = "reserve" /\ Sells(r)' /\ local'[r].at = local'[r].current
         \/ pc'[r] = "call" /\ ~Sells(r)' /\ (Op(r) = "change" => Delta(r)' # 0)
         \/ pc'[r] = "company" /\ Op(r) \in {"suspend", "activate"}
  PROVE  Deal(r)' /\ Books(r) /\ Report(r)
<1>1. Sold' = Sold /\ Op(r)' = Op(r) /\ DomainOf(r)' = DomainOf(r)
  BY DEF Sold, SeatsOf, Op, DomainOf
<1>2. Due(r) = 0 /\ Due(r)' = 0
  BY DEF Due, Numbers
<1>3. Transit(r) = 0 /\ Transit(r)' = 0 /\ Noted(r) = 0
  BY <1>1 DEF Transit, Licences, Noted
<1>4. Deal(r)'
  <2>1. local'[r].left = 0 /\ local'[r].answer = "ok"
    BY DEF Deal
  <2>2. pc'[r] = "call" => Asking(r)'
    BY <1>1 DEF Asking, Numbers
  <2> QED BY <1>1, <2>1, <2>2 DEF Deal
<1>5. Books(r)
  BY <1>1, <1>2 DEF Books, Moved, Numbers
<1>6. Report(r)
  BY <1>3 DEF Report, Numbers
<1> QED BY <1>4, <1>5, <1>6

LEMMA ListingSteps ==
  ASSUME Shape, TypeOK, AuditInv, NEW r \in Requests, Numbers(r), Numbers(r)', Deal(r),
         ListOne(r) \/ ListAll(r)
  PROVE  Deal(r)' /\ Books(r) /\ Report(r)
<1>0. /\ pc \in [Requests -> Steps] /\ local \in [Requests -> LocalType]
      /\ local[r] \in LocalType /\ google \in [Subs -> GoogleType]
      /\ Target(r) \in Nat
  BY RequestTypes DEF TypeOK, LocalType, GoogleType
<1>1. ASSUME NEW answer \in Answers, Leave(r, answer), UNCHANGED <<call, used, google, missing>>,
             pc[r] = "list"
      PROVE  Deal(r)' /\ Books(r) /\ Report(r)
  BY <1>1, QuietSteps
<1>2. CASE ListOne(r)
  <2>0. pc[r] = "list" /\ UNCHANGED <<call, used, google, missing>> /\ Op(r) # "delete"
    BY <1>2 DEF ListOne, history
  <2>1. ASSUME NEW s \in SubscriptionFor(DomainOf(r)),
               ~(Op(r) = "change" /\ Target(r) = google[s].seats),
               Goto(r, AfterList(r, s)),
               local' = [local EXCEPT ![r] =
                 [@ EXCEPT !.ids = {s}, !.current = google[s].seats, !.at = google[s].seats,
                           !.status = StatusOf(google[s].reasons)]]
        PROVE  Deal(r)' /\ Books(r) /\ Report(r)
    <3>1. s \in Held(DomainOf(r)) /\ s \in Subs /\ google[s].held /\ s \in Own(DomainOf(r))
      BY <2>1 DEF SubscriptionFor, Held, Own
    <3>2. /\ local'[r].ids = {s}
          /\ local'[r].current = google[s].seats /\ local'[r].at = google[s].seats
          /\ local'[r].left = local[r].left /\ local'[r].lost = local[r].lost
          /\ local'[r].answer = local[r].answer
      BY <1>0, <2>1 DEF LocalType
    <3>3. InHand(r)' = local'[r].current
      <4>1. HeldIn(google, {s}) = {s}
        BY <3>1 DEF HeldIn
      <4>2. InHand(r)' = Seats(google, HeldIn(google, {s}))
        BY <2>0, <3>2 DEF InHand, Seats, HeldIn
      <4> QED BY <1>0, <3>1, <3>2, <4>1, <4>2, SeatsOfOne
    <3>4. Delta(r)' = Target(r) - google[s].seats /\ google[s].seats \in Nat
      BY <1>0, <2>0, <3>1, <3>2 DEF Delta, Target, GoogleType
    <3>5. \/ pc'[r] = "reserve" /\ Sells(r)'
          \/ pc'[r] = "call" /\ ~Sells(r)' /\ (Op(r) = "change" => Delta(r)' # 0)
          \/ pc'[r] = "company" /\ Op(r) \in {"suspend", "activate"}
      BY <1>0, <2>0, <2>1, <3>4 DEF Goto, AfterList, Sells, Op
    <3> QED BY <2>0, <3>1, <3>2, <3>3, <3>5, ListedBooks
  <2> QED BY <1>1, <1>2, <2>0, <2>1 DEF ListOne, Answers
<1>3. CASE ListAll(r)
  <2>0. pc[r] = "list" /\ UNCHANGED <<call, used, google, missing>> /\ Op(r) = "delete"
    BY <1>3 DEF ListAll, history
  <2> DEFINE held == Held(DomainOf(r))
             seats == SeatsOf(held)
  <2>1. CASE /\ Goto(r, "call")
             /\ local' = [local EXCEPT ![r] =
                  [@ EXCEPT !.ids = held, !.current = seats, !.status = "TRANSFERRED"]]
    <3>1. held \subseteq Own(DomainOf(r)) /\ \A s \in held : google[s].held
      BY DEF Held, Own
    <3>2. seats = Seats(google, HeldIn(google, held))
      <4>1. HeldIn(google, held) = held
        BY DEF HeldIn, Held
      <4> HIDE DEF held
      <4> QED BY <4>1 DEF SeatsOf, Seats
    <3>3. pc'[r] = "call"
      BY <1>0, <2>1 DEF Goto
    <3> HIDE DEF held, seats
    <3>4. /\ local'[r].ids = held /\ local'[r].current = seats
          /\ local'[r].left = local[r].left /\ local'[r].lost = local[r].lost
          /\ local'[r].answer = local[r].answer
      BY <1>0, <2>1 DEF LocalType
    <3>5. InHand(r)' = local'[r].current
      BY <2>0, <3>2, <3>4 DEF InHand, Seats, HeldIn
    <3>6. ~Sells(r)'
      BY <2>0 DEF Sells, Op
    <3> QED BY <2>0, <3>1, <3>3, <3>4, <3>5, <3>6, ListedBooks
  <2> QED BY <1>1, <1>3, <2>0, <2>1 DEF ListAll, Answers
<1> QED BY <1>2, <1>3

LEMMA ReserveBooks ==
  ASSUME Shape, TypeOK, AuditInv, NEW r \in Requests, Numbers(r), Numbers(r)', Deal(r),
         Reserve(r)
  PROVE  Deal(r)' /\ Books(r) /\ Report(r)
<1>1. CASE Leave(r, "refused") /\ UNCHANGED used
  BY <1>1, QuietSteps DEF Reserve, Answers, history
<1>2. CASE used' = used + Delta(r) /\ Goto(r, "call") /\ UNCHANGED local
  <2>1. /\ pc[r] = "reserve" /\ pc'[r] = "call"
        /\ UNCHANGED <<call, local, google, missing>>
    BY <1>2 DEF Reserve, Goto, TypeOK, history
  <2>2. /\ Sold' = Sold /\ Op(r)' = Op(r) /\ DomainOf(r)' = DomainOf(r) /\ Target(r)' = Target(r)
        /\ InHand(r)' = InHand(r) /\ Delta(r)' = Delta(r)
    BY <2>1 DEF Sold, SeatsOf, Op, DomainOf, Target, InHand, Seats, HeldIn, Delta
  <2>3. /\ Sells(r) /\ InHand(r) = local[r].current /\ local[r].at = local[r].current
        /\ \A s \in local[r].ids : google[s].held
    BY <2>1 DEF Deal, Sells
  <2>4. Sells(r)' /\ Delta(r) > 0
    BY <2>2, <2>3 DEF Sells
  <2>5. /\ Due(r) = 0 /\ Due(r)' = Delta(r)
        /\ Transit(r) = 0 /\ Transit(r)' = Delta(r) /\ Noted(r) = 0
    BY <2>1, <2>2, <2>3, <2>4 DEF Due, Transit, Noted, Numbers
  <2>6. Deal(r)'
    <3>1. Asking(r)'
      BY <2>1, <2>2, <2>3, <2>4 DEF Asking, Numbers
    <3> QED BY <2>1, <2>2, <3>1 DEF Deal
  <2>7. Books(r)
    BY <1>2, <2>1, <2>2, <2>5 DEF Books, Moved, Numbers
  <2>8. Report(r)
    BY <1>2, <2>5 DEF Report, Numbers
  <2> QED BY <2>6, <2>7, <2>8
<1> QED BY <1>1, <1>2 DEF Reserve

-----------------------------------------------------------------------------
(* What the locals of r are after a call that did not come back well.      *)
Kept(r) ==
  /\ local'[r].ids = local[r].ids /\ local'[r].current = local[r].current
  /\ ~local'[r].lost => ~local[r].lost

LEMMA RetryFacts ==
  ASSUME TypeOK, NEW r \in Requests, NEW lost \in BOOLEAN, Retry(r, lost)
  PROVE  /\ pc' = pc /\ Kept(r)
         /\ local'[r].at = local[r].current /\ local'[r].left = local[r].left
         /\ local'[r].answer = local[r].answer
         /\ lost => local'[r].lost
<1> DEFINE l == local[r]
           tries == l.tries + 1
           lostSoFar == l.lost \/ lost
<1>1. /\ pc' = pc
      /\ local' = [local EXCEPT ![r] =
           [l EXCEPT !.tries = tries, !.at = l.current, !.lost = lostSoFar]]
  BY Zenon DEF Retry
<1>2. (~lostSoFar => ~l.lost) /\ (lost => lostSoFar)
  OBVIOUS
<1>3. local \in [Requests -> LocalType] /\ l \in LocalType
  BY DEF TypeOK, LocalType
<1> HIDE DEF tries, lostSoFar
<1>4. /\ local'[r].ids = l.ids /\ local'[r].current = l.current /\ local'[r].lost = lostSoFar
      /\ local'[r].at = l.current /\ local'[r].left = l.left /\ local'[r].answer = l.answer
  BY <1>1, <1>3 DEF LocalType
<1> QED BY <1>1, <1>2, <1>4 DEF Kept

LEMMA GiveUpFacts ==
  ASSUME TypeOK, NEW r \in Requests, NEW lost \in BOOLEAN, GiveUp(r, lost)
  PROVE  /\ pc'[r] = IF Sells(r) THEN "undo" ELSE IF Op(r) = "delete" THEN "audit" ELSE "unlock"
         /\ Kept(r)
         /\ local'[r].answer = "error"
         /\ local'[r].left = IF Sells(r)
                             THEN Minus(Seats(google', HeldIn(google', local[r].ids)),
                                        local[r].current)
                             ELSE 0
         /\ lost => local'[r].lost
<1> DEFINE l == local[r]
           left == IF Sells(r) THEN Bought(r, google') ELSE 0
           lostSoFar == l.lost \/ lost
<1>1. /\ Goto(r, IF Sells(r) THEN "undo" ELSE IF Op(r) = "delete" THEN "audit" ELSE "unlock")
      /\ local' = [local EXCEPT ![r] =
           [l EXCEPT !.answer = "error", !.lost = lostSoFar, !.left = left]]
  BY Zenon DEF GiveUp
<1>2. (~lostSoFar => ~l.lost) /\ (lost => lostSoFar)
  OBVIOUS
<1>3. local \in [Requests -> LocalType] /\ l \in LocalType
  BY DEF TypeOK, LocalType
<1>4. Bought(r, google') = Minus(Seats(google', HeldIn(google', l.ids)), l.current)
  BY DEF Bought, Seats, HeldIn
<1>5. left = IF Sells(r) THEN Minus(Seats(google', HeldIn(google', l.ids)), l.current) ELSE 0
  <2> HIDE DEF l
  <2> QED BY <1>4 DEF l
<1> HIDE DEF left, lostSoFar
<1>6. /\ local'[r].ids = l.ids /\ local'[r].current = l.current /\ local'[r].lost = lostSoFar
      /\ local'[r].answer = "error" /\ local'[r].left = left
  BY <1>1, <1>3 DEF LocalType
<1>7. pc'[r] = IF Sells(r) THEN "undo" ELSE IF Op(r) = "delete" THEN "audit" ELSE "unlock"
  BY <1>1 DEF Goto, TypeOK
<1> QED BY <1>2, <1>5, <1>6, <1>7 DEF Kept

(* A call, done for all or some of its subscriptions, moves what is held   *)
(* by what it does to them.                                                *)
LEMMA CalledSeats ==
  ASSUME TypeOK, TypeOK', NEW r \in Requests, NEW done \in SUBSET local[r].ids,
         google' = Called(r, done), Deal(r), pc[r] = "call",
         local'[r].ids = local[r].ids
  PROVE  /\ Sold' - Sold = InHand(r)' - InHand(r)
         /\ InHand(r)' = Seats(google', HeldIn(google', local[r].ids))
         /\ Op(r) = "change" => InHand(r)' = IF done = {} THEN InHand(r) ELSE NextSeats(r)
         /\ Op(r) \in {"suspend", "activate"} => InHand(r)' = InHand(r)
         /\ Op(r) = "delete" => InHand(r)' <= InHand(r)
         /\ Op(r) = "delete" /\ done = local[r].ids => InHand(r)' = 0
         /\ Op(r) # "delete" => \E s \in Subs : local[r].ids = {s} /\ google'[s].held
<1> DEFINE ids == local[r].ids
<1>1. /\ google \in [Subs -> GoogleType] /\ google' \in [Subs -> GoogleType]
      /\ ids \in SUBSET Subs
      /\ NextSeats(r) \in Nat
  BY RequestTypes DEF TypeOK, GoogleType, LocalType
<1>2. \A s \in Subs \ ids : google'[s] = google[s]
  BY DEF Called
<1>3. /\ InHand(r) = Seats(google, HeldIn(google, ids))
      /\ InHand(r)' = Seats(google', HeldIn(google', ids))
  BY DEF InHand
<1>4. Sold' - Sold = InHand(r)' - InHand(r)
  <2> HIDE DEF ids
  <2>1. Seats(google', HeldIn(google', Subs)) - Seats(google, HeldIn(google, Subs))
          = Seats(google', HeldIn(google', ids)) - Seats(google, HeldIn(google, ids))
    BY <1>1, <1>2, SeatsShift
  <2> QED BY <1>3, <2>1, SoldIsSeats
<1>5. ASSUME Op(r) # "delete"
      PROVE  /\ Op(r) = "change" => InHand(r)' = IF done = {} THEN InHand(r) ELSE NextSeats(r)
             /\ Op(r) \in {"suspend", "activate"} => InHand(r)' = InHand(r)
             /\ \E s \in Subs : ids = {s} /\ google'[s].held
  <2>1. PICK s \in Subs : ids = {s} /\ google[s].held
    BY <1>5 DEF Deal
  <2>2. google'[s] = IF done = {} THEN google[s]
                     ELSE IF Op(r) = "change" THEN Resized(s, NextSeats(r))
                     ELSE IF Op(r) = "suspend" THEN Suspended(s) ELSE Activated(s)
    <3>1. s \in done <=> done # {}
      BY <2>1
    <3>2. Op(r) \in Ops
      BY RequestTypes
    <3> QED BY <1>5, <3>1, <3>2 DEF Called, Ops
  <2>3. /\ Resized(s, NextSeats(r)).seats = NextSeats(r) /\ Resized(s, NextSeats(r)).held
        /\ Suspended(s).seats = google[s].seats /\ Suspended(s).held
        /\ Activated(s).seats = google[s].seats /\ Activated(s).held
    <3>1. google[s] \in GoogleType /\ google[s].held
      BY <1>1, <2>1
    <3> QED BY <3>1 DEF Resized, Suspended, Activated, GoogleType
  <2>4. google'[s].held
    BY <2>1, <2>2, <2>3
  <2>5. HeldIn(google, ids) = {s} /\ HeldIn(google', ids) = {s}
    BY <2>1, <2>4 DEF HeldIn
  <2>6. InHand(r) = google[s].seats /\ InHand(r)' = google'[s].seats
    BY <1>1, <1>3, <2>5, SeatsOfOne
  <2> QED BY <2>1, <2>2, <2>3, <2>4, <2>6
<1>6. ASSUME Op(r) = "delete"
      PROVE  InHand(r)' <= InHand(r) /\ (done = ids => InHand(r)' = 0)
  <2> DEFINE G == HeldIn(google, ids)
             H == HeldIn(google', ids)
  <2>1. H = G \ done /\ G \in SUBSET Subs /\ \A s \in H : google'[s].seats = google[s].seats
    BY <1>1, <1>6 DEF HeldIn, Called, Transferred, GoogleType
  <2>2. done = ids => H = {}
    BY <2>1 DEF HeldIn
  <2> HIDE DEF G, H
  <2>3. /\ Seats(google, G) = Seats(google, G \cap done) + Seats(google, G \ done)
        /\ Seats(google, G) \in Nat
        /\ Seats(google, G \cap done) \in Nat /\ Seats(google, G \ done) \in Nat
    <3>1. G \in SUBSET Subs
      BY <2>1
    <3> QED BY <1>1, <3>1, SeatsSplit
  <2>4. Seats(google', H) = Seats(google, H)
    BY <1>1, <2>1, SeatsAgree
  <2>5. Seats(google', H) <= Seats(google, G)
    BY <2>1, <2>3, <2>4
  <2>6. H = {} => Seats(google', H) = 0
    BY SumOfNone DEF Seats
  <2> QED BY <1>3, <2>2, <2>5, <2>6 DEF G, H
<1>7. Op(r) \in Ops
  BY RequestTypes
<1> QED BY <1>3, <1>4, <1>5, <1>6

LEMMA NextSeatsBounds ==
  ASSUME TypeOK, NEW r \in Requests, Numbers(r), Asking(r), Op(r) = "change"
  PROVE  /\ Sells(r) => local[r].current <= NextSeats(r) /\ NextSeats(r) <= Target(r)
         /\ ~Sells(r) => NextSeats(r) = Target(r) /\ Target(r) < local[r].current
<1>1. Batch \in Nat
  BY ConstantsAssumption
<1> QED BY <1>1 DEF Asking, NextSeats, Sells, Numbers

(* What calls have in common; done is what the call was done for.          *)
Tried(r, done) ==
  /\ pc[r] = "call" /\ UNCHANGED <<call, used, missing>>
  /\ google' = Called(r, done)
  /\ Kept(r)
  /\ ~Sells(r) /\ ~local'[r].lost => done = {}

LEMMA NothingCalled ==
  ASSUME TypeOK, NEW r \in Requests
  PROVE  Called(r, {}) = google
<1>1. google = [s \in Subs |-> google[s]]
  BY DEF TypeOK
<1> QED BY <1>1 DEF Called

(* The operation goes on: with its next batch, or from the start.          *)
LEMMA AgainBooks ==
  ASSUME TypeOK, TypeOK', NEW r \in Requests, Numbers(r), Numbers(r)', Deal(r),
         NEW done \in SUBSET local[r].ids, Tried(r, done),
         pc'[r] = "call",
         local'[r].left = local[r].left, local'[r].answer = local[r].answer,
         \/ local'[r].at = local[r].current
         \/ local'[r].at = NextSeats(r) /\ Op(r) = "change"
  PROVE  Deal(r)' /\ Books(r) /\ Report(r)
<1>1. /\ Op(r)' = Op(r) /\ DomainOf(r)' = DomainOf(r) /\ Target(r)' = Target(r)
      /\ Delta(r)' = Delta(r) /\ local'[r].current = local[r].current
      /\ local'[r].ids = local[r].ids
      /\ used' = used /\ missing' = missing /\ pc[r] = "call"
  BY DEF Tried, Kept, Op, DomainOf, Target, Delta
<1>2. Sells(r)' = Sells(r)
  BY <1>1 DEF Sells
<1>3. /\ Sold' - Sold = InHand(r)' - InHand(r)
      /\ Op(r) = "change" => InHand(r)' = IF done = {} THEN InHand(r) ELSE NextSeats(r)
      /\ Op(r) \in {"suspend", "activate"} => InHand(r)' = InHand(r)
      /\ Op(r) = "delete" => InHand(r)' <= InHand(r)
      /\ Op(r) # "delete" => \E s \in Subs : local[r].ids = {s} /\ google'[s].held
  BY <1>1, CalledSeats DEF Tried
<1>4. Asking(r) /\ Op(r) \in Ops
  BY <1>1, RequestTypes DEF Deal
<1>5. /\ Sells(r) => /\ local[r].current <= InHand(r)' /\ InHand(r)' <= Target(r)
                     /\ local[r].current <= local'[r].at /\ local'[r].at <= Target(r)
      /\ ~Sells(r) => InHand(r)' <= local[r].current
  BY <1>3, <1>4, NextSeatsBounds DEF Asking, Ops, Sells, Numbers
<1>6. ~local'[r].lost => /\ \A s \in local[r].ids : google'[s].held
                         /\ ~Sells(r) => InHand(r)' = local[r].current
  <2> SUFFICES ASSUME ~local'[r].lost
               PROVE  /\ \A s \in local[r].ids : google'[s].held
                      /\ ~Sells(r) => InHand(r)' = local[r].current
    OBVIOUS
  <2>1. CASE Sells(r)
    BY <1>3, <2>1 DEF Sells
  <2>2. CASE ~Sells(r)
    <3>1. google' = google
      BY <2>2, NothingCalled DEF Tried
    <3>2. InHand(r)' = InHand(r)
      BY <1>1, <3>1 DEF InHand, Seats, HeldIn
    <3> QED BY <1>4, <2>2, <3>1, <3>2 DEF Asking, Tried, Kept
  <2> QED BY <2>1, <2>2
<1>7. Asking(r)'
  BY <1>1, <1>2, <1>4, <1>5, <1>6 DEF Asking
<1>8. Deal(r)'
  BY <1>1, <1>2, <1>3, <1>7 DEF Deal
<1>9. Due(r)' - Due(r) = InHand(r) - InHand(r)'
  BY <1>1, <1>2 DEF Due, Numbers
<1>10. Books(r)
  BY <1>1, <1>3, <1>9 DEF Books, Moved, Numbers, Tried, Kept
<1>11. Report(r)
  <2>1. Transit(r)' = Transit(r) /\ Noted(r) = 0
    BY <1>1, <1>2 DEF Transit, Noted
  <2> QED BY <1>1, <2>1 DEF Report, Numbers
<1> QED BY <1>8, <1>10, <1>11

(* The operation ends with an error.                                       *)
LEMMA GivenUpBooks ==
  ASSUME TypeOK, TypeOK', NEW r \in Requests, Numbers(r), Numbers(r)', Deal(r),
         NEW done \in SUBSET local[r].ids, Tried(r, done),
         NEW lost \in BOOLEAN, GiveUp(r, lost)
  PROVE  Deal(r)' /\ Books(r) /\ Report(r)
<1>1. /\ Op(r)' = Op(r) /\ Target(r)' = Target(r)
      /\ Delta(r)' = Delta(r) /\ local'[r].current = local[r].current
      /\ local'[r].ids = local[r].ids
      /\ used' = used /\ missing' = missing /\ pc[r] = "call"
  BY DEF Tried, Kept, Op, Target, Delta
<1>2. Sells(r)' = Sells(r)
  BY <1>1 DEF Sells
<1>3. /\ Sold' - Sold = InHand(r)' - InHand(r)
      /\ InHand(r)' = Seats(google', HeldIn(google', local[r].ids))
      /\ Op(r) = "change" => InHand(r)' = IF done = {} THEN InHand(r) ELSE NextSeats(r)
      /\ Op(r) \in {"suspend", "activate"} => InHand(r)' = InHand(r)
      /\ Op(r) = "delete" => InHand(r)' <= InHand(r)
  BY <1>1, CalledSeats DEF Tried
<1>4. Asking(r) /\ Op(r) \in Ops /\ local[r].left = 0
  BY <1>1, RequestTypes DEF Deal
<1>5. /\ Sells(r) => local[r].current <= InHand(r)'
      /\ ~Sells(r) => InHand(r)' <= local[r].current
  BY <1>3, <1>4, NextSeatsBounds DEF Asking, Ops, Sells, Numbers
<1>6. /\ pc'[r] = IF Sells(r) THEN "undo" ELSE IF Op(r) = "delete" THEN "audit" ELSE "unlock"
      /\ local'[r].answer = "error"
      /\ local'[r].left = IF Sells(r) THEN Minus(InHand(r)', local[r].current) ELSE 0
  BY <1>3, GiveUpFacts
<1>7. Deal(r)'
  BY <1>2, <1>6 DEF Deal
<1>8. ~Sells(r) /\ ~local'[r].lost => InHand(r)' = InHand(r) /\ Due(r) = 0
  <2> SUFFICES ASSUME ~Sells(r), ~local'[r].lost
               PROVE  InHand(r)' = InHand(r) /\ Due(r) = 0
    OBVIOUS
  <2>1. google' = google
    BY NothingCalled DEF Tried
  <2>2. InHand(r)' = InHand(r)
    BY <1>1, <2>1 DEF InHand, Seats, HeldIn
  <2> QED BY <1>1, <1>4, <2>2 DEF Asking, Tried, Kept, Due, Numbers
<1>9. /\ Sells(r) => /\ local'[r].left = InHand(r)' - local[r].current
                     /\ Due(r)' - Due(r) = InHand(r) - local[r].current
      /\ ~Sells(r) => local'[r].left = 0 /\ Due(r)' = 0 /\ Due(r) = local[r].current - InHand(r)
  BY <1>1, <1>5, <1>6 DEF Due, Minus, Numbers
<1>10. Books(r)
  BY <1>1, <1>3, <1>4, <1>5, <1>8, <1>9 DEF Books, Moved, Numbers, Tried, Kept
<1>11. Report(r)
  <2>1. Transit(r)' = Transit(r) /\ Noted(r) = 0
    BY <1>1, <1>2, <1>6 DEF Transit, Noted, Licences, Sells
  <2> QED BY <1>1, <2>1 DEF Report, Numbers
<1> QED BY <1>7, <1>10, <1>11

(* The operation is done at Google.                                        *)
LEMMA DoneBooks ==
  ASSUME TypeOK, TypeOK', NEW r \in Requests, Numbers(r), Numbers(r)', Deal(r),
         pc[r] = "call", UNCHANGED <<call, used, missing>>, google' = Called(r, local[r].ids),
         Op(r) = "change" => NextSeats(r) = Target(r),
         pc'[r] = AfterCall(r),
         local'[r].ids = local[r].ids, local'[r].current = local[r].current,
         local'[r].lost = local[r].lost, local'[r].left = local[r].left,
         local'[r].answer = local[r].answer
  PROVE  Deal(r)' /\ Books(r) /\ Report(r)
<1>1. /\ Op(r)' = Op(r) /\ Target(r)' = Target(r)
      /\ Delta(r)' = Delta(r) /\ used' = used
  BY DEF Op, Target, Delta
<1>2. Sells(r)' = Sells(r) /\ Released(r)' = Released(r) /\ Licences(r)' = Licences(r)
  BY <1>1 DEF Sells, Released, Licences
<1>3. /\ Sold' - Sold = InHand(r)' - InHand(r)
      /\ Op(r) = "change" => InHand(r)' = IF local[r].ids = {} THEN InHand(r) ELSE NextSeats(r)
      /\ Op(r) \in {"suspend", "activate"} => InHand(r)' = InHand(r)
      /\ Op(r) = "delete" => InHand(r)' = 0
      /\ Op(r) # "delete" => local[r].ids # {}
  <2>1. local[r].ids \in SUBSET local[r].ids
    OBVIOUS
  <2> QED BY <2>1, CalledSeats
<1>4. Asking(r) /\ Op(r) \in Ops /\ local[r].left = 0 /\ local[r].answer = "ok"
  BY RequestTypes DEF Deal
<1>5. CASE Op(r) \in {"suspend", "activate"}
  <2>1. pc'[r] = "company" /\ ~Sells(r)
    BY <1>5 DEF AfterCall, Sells
  <2>2. Due(r)' = 0 /\ Due(r) = local[r].current - InHand(r)
    BY <2>1 DEF Due
  <2>3. Transit(r)' = 0 /\ Transit(r) = 0 /\ Noted(r) = 0
    BY <1>1, <1>5, <2>1 DEF Transit, Noted, Licences
  <2>4. Deal(r)'
    BY <1>4, <2>1 DEF Deal
  <2>5. Books(r)
    BY <1>1, <1>3, <1>4, <1>5, <2>1, <2>2 DEF Books, Moved, Numbers, Asking
  <2>6. Report(r)
    BY <1>1, <2>3 DEF Report, Numbers
  <2> QED BY <2>4, <2>5, <2>6
<1>6. CASE Op(r) = "delete"
  <2>1. pc'[r] = "account" /\ ~Sells(r) /\ Released(r) = local[r].current
    BY <1>6 DEF AfterCall, Sells, Released
  <2>2. Due(r)' = local[r].current /\ Due(r) = local[r].current - InHand(r)
    BY <1>2, <2>1 DEF Due
  <2>3. Transit(r)' = 0 /\ Transit(r) = 0 /\ Noted(r) = 0
    BY <2>1 DEF Transit, Noted
  <2>4. Deal(r)'
    BY <1>1, <1>2, <1>4, <1>6, <2>1 DEF Deal, Numbers
  <2>5. Books(r)
    BY <1>1, <1>3, <1>6, <2>2 DEF Books, Moved, Numbers
  <2>6. Report(r)
    BY <1>1, <2>3 DEF Report, Numbers
  <2> QED BY <2>4, <2>5, <2>6
<1>7. CASE Op(r) = "change"
  <2>0. InHand(r)' = Target(r)
    BY <1>3, <1>7
  <2>1. CASE Sells(r)
    <3>1. pc'[r] = "record"
      BY <1>7, <2>1 DEF AfterCall, Sells, Numbers
    <3>2. Due(r)' = 0 /\ Due(r) = Target(r) - InHand(r)
      BY <2>1, <3>1 DEF Due
    <3>3. Transit(r)' = Delta(r) /\ Transit(r) = Delta(r) /\ Noted(r) = 0
      BY <1>1, <1>4, <1>7, <2>1, <3>1 DEF Transit, Noted, Licences
    <3>4. Deal(r)'
      BY <1>4, <3>1 DEF Deal
    <3>5. Books(r)
      BY <1>1, <1>3, <2>0, <3>2 DEF Books, Moved, Numbers
    <3>6. Report(r)
      BY <1>1, <3>3 DEF Report, Numbers
    <3> QED BY <3>4, <3>5, <3>6
  <2>2. CASE ~Sells(r)
    <3>0. Delta(r) < 0 /\ Released(r) = local[r].current - Target(r)
      BY <1>4, <1>7, <2>2 DEF Asking, Sells, Numbers, Released
    <3>1. pc'[r] = "account"
      BY <1>7, <3>0 DEF AfterCall
    <3>2. Due(r)' = local[r].current - Target(r) /\ Due(r) = local[r].current - InHand(r)
      BY <1>2, <2>2, <3>0, <3>1 DEF Due
    <3>3. Transit(r)' = 0 /\ Transit(r) = 0 /\ Noted(r) = 0
      BY <2>2, <3>1 DEF Transit, Noted
    <3>4. Deal(r)'
      BY <1>1, <1>2, <1>4, <1>7, <2>2, <3>0, <3>1 DEF Deal, Numbers
    <3>5. Books(r)
      BY <1>1, <1>3, <2>0, <3>2 DEF Books, Moved, Numbers
    <3>6. Report(r)
      BY <1>1, <3>3 DEF Report, Numbers
    <3> QED BY <3>4, <3>5, <3>6
  <2> QED BY <2>1, <2>2
<1> QED BY <1>4, <1>5, <1>6, <1>7 DEF Ops

LEMMA CallSteps ==
  ASSUME Shape, TypeOK, TypeOK', NEW r \in Requests, Numbers(r), Numbers(r)', Deal(r),
         CallWorks(r) \/ CallRejected(r) \/ CallFails(r) \/ CallLost(r)
  PROVE  Deal(r)' /\ Books(r) /\ Report(r)
<1>0. /\ pc \in [Requests -> Steps] /\ local \in [Requests -> LocalType]
      /\ local[r] \in LocalType
      /\ pc[r] = "call" /\ UNCHANGED <<call, used, missing>>
      /\ Asking(r)
      /\ {} \in SUBSET local[r].ids /\ local[r].ids \in SUBSET local[r].ids
  BY DEF TypeOK, LocalType, CallWorks, CallRejected, CallFails, CallLost, Deal, history
<1>1. ASSUME NEW done \in SUBSET local[r].ids, google' = Called(r, done), NEW lost \in BOOLEAN,
             ~lost /\ ~local[r].lost /\ ~Sells(r) => done = {},
             Retry(r, lost) \/ GiveUp(r, lost)
      PROVE  Deal(r)' /\ Books(r) /\ Report(r)
  <2>1. CASE Retry(r, lost)
    <3>1. /\ pc' = pc /\ Kept(r)
          /\ local'[r].at = local[r].current /\ local'[r].left = local[r].left
          /\ local'[r].answer = local[r].answer
          /\ lost => local'[r].lost
      BY <2>1, RetryFacts
    <3>2. Tried(r, done)
      BY <1>0, <1>1, <3>1 DEF Tried, Kept
    <3> QED BY <1>0, <3>1, <3>2, AgainBooks
  <2>2. CASE GiveUp(r, lost)
    <3>1. Kept(r) /\ (lost => local'[r].lost)
      BY <2>2, GiveUpFacts
    <3>2. Tried(r, done)
      BY <1>0, <1>1, <3>1 DEF Tried, Kept
    <3> QED BY <2>2, <3>2, GivenUpBooks
  <2> QED BY <1>1, <2>1, <2>2
<1>2. CASE CallFails(r)
  <2>1. google' = Called(r, {})
    BY <1>2, NothingCalled DEF CallFails
  <2> QED BY <1>0, <1>1, <1>2, <2>1 DEF CallFails
<1>3. CASE CallLost(r)
  <2>1. PICK done \in SUBSET local[r].ids : google' = Called(r, done)
    BY <1>3 DEF CallLost
  <2> QED BY <1>1, <1>3, <2>1 DEF CallLost
<1>4. CASE CallRejected(r)
  <2>1. PICK s \in local[r].ids : ~google[s].held \/ (Op(r) = "activate" /\ ~Ours(s))
    BY <1>4 DEF CallRejected, Rejected
  <2>2. CASE Op(r) = "delete"
    <3>1. google' = Called(r, local[r].ids)
      BY <1>4, <2>2 DEF CallRejected
    <3>2. local[r].lost
      BY <1>0, <2>1, <2>2 DEF Asking
    <3> QED BY <1>0, <1>1, <1>4, <3>1, <3>2 DEF CallRejected
  <2>3. CASE Op(r) # "delete"
    <3>1. google' = Called(r, {})
      BY <1>4, <2>3, NothingCalled DEF CallRejected
    <3> QED BY <1>0, <1>1, <1>4, <3>1 DEF CallRejected
  <2> QED BY <2>2, <2>3
<1>5. CASE CallWorks(r)
  <2>1. google' = Called(r, local[r].ids)
    BY <1>5 DEF CallWorks
  <2>2. CASE /\ Op(r) = "change" /\ NextSeats(r) # Target(r)
             /\ local' = [local EXCEPT ![r].at = NextSeats(r)] /\ UNCHANGED pc
    <3>1. /\ local'[r].ids = local[r].ids /\ local'[r].current = local[r].current
          /\ local'[r].lost = local[r].lost /\ local'[r].left = local[r].left
          /\ local'[r].answer = local[r].answer
          /\ local'[r].at = NextSeats(r)
      BY <1>0, <2>2 DEF LocalType
    <3>2. Sells(r)
      BY <1>0, <2>2, NextSeatsBounds
    <3>3. Tried(r, local[r].ids)
      BY <1>0, <2>1, <3>1, <3>2 DEF Tried, Kept
    <3> QED BY <1>0, <2>2, <3>1, <3>3, AgainBooks
  <2>3. ASSUME ~(Op(r) = "change" /\ NextSeats(r) # Target(r)),
               Goto(r, AfterCall(r)),
               NEW st, local' = [local EXCEPT ![r].status = st]
        PROVE  Deal(r)' /\ Books(r) /\ Report(r)
    <3>1. /\ local'[r].ids = local[r].ids /\ local'[r].current = local[r].current
          /\ local'[r].lost = local[r].lost /\ local'[r].left = local[r].left
          /\ local'[r].answer = local[r].answer
      BY <1>0, <2>3 DEF LocalType
    <3>2. pc'[r] = AfterCall(r)
      BY <1>0, <2>3 DEF Goto
    <3> QED BY <1>0, <2>1, <2>3, <3>1, <3>2, DoneBooks
  <2> QED BY <1>5, <2>2, <2>3 DEF CallWorks
<1> QED BY <1>2, <1>3, <1>4, <1>5

(* The counter is settled with what is due, or the write raises.           *)
LEMMA CounterSteps ==
  ASSUME Shape, TypeOK, AuditInv, NEW r \in Requests, Numbers(r), Numbers(r)', Deal(r),
         Undo(r) \/ Account(r) \/ CounterRaises(r)
  PROVE  Deal(r)' /\ Books(r) /\ Report(r)
<1>0. /\ pc \in [Requests -> Steps] /\ local \in [Requests -> LocalType]
      /\ local[r] \in LocalType
      /\ pc[r] \in {"reserve", "undo", "account"}
      /\ UNCHANGED <<call, google>>
      /\ Released(r) \in Int
      /\ Undo(r) \/ Account(r) => UNCHANGED missing /\ pc[r] # "reserve"
  BY RequestTypes DEF TypeOK, LocalType, Undo, Account, CounterRaises, history
<1>1. Sold' = Sold
  BY <1>0 DEF Sold, SeatsOf
<1>2. /\ Due(r) = IF pc[r] = "undo" THEN Delta(r)
                  ELSE IF pc[r] = "account" THEN Released(r) ELSE 0
      /\ Due(r) >= 0
      /\ pc[r] \in {"reserve", "undo"} => Sells(r) /\ Delta(r) > 0
  BY <1>0 DEF Due, Deal, Sells, Numbers
<1>3. CASE Undo(r) \/ Account(r)
  <2>1. /\ used' = Minus(used, Due(r))
        /\ UNCHANGED local
        /\ pc'[r] \in {"unlock", "company", "record"}
    BY <1>0, <1>2, <1>3 DEF Undo, Account, Goto
  <2>2. Due(r)' = 0
    BY <2>1 DEF Due
  <2>3. Deal(r)'
    BY <1>0, <1>3, <2>1 DEF Deal, Undo, Account, Goto
  <2>4. Books(r)
    <3>1. used' >= used - Due(r) /\ (used >= Due(r) => used' = used - Due(r))
      BY <1>2, <2>1 DEF Minus, Numbers
    <3> QED BY <1>1, <2>1, <2>2, <3>1 DEF Books, Moved, Numbers
  <2>5. Report(r)
    <3>1. used >= Due(r) => used' - used = -Due(r)
      BY <1>2, <2>1 DEF Minus, Numbers
    <3>2. CASE Undo(r)
      <4>1. pc[r] = "undo" /\ pc'[r] = "unlock" /\ Sells(r)
        BY <1>0, <3>2 DEF Undo, Goto, Deal
      <4>2. Transit(r) = Due(r) /\ Transit(r)' = 0 /\ Noted(r) = 0
        BY <1>0, <1>2, <3>2, <4>1 DEF Transit, Noted
      <4> QED BY <3>1, <4>2 DEF Report, Numbers
    <3>3. CASE Account(r)
      <4>1. /\ pc[r] = "account" /\ ~Sells(r) /\ local[r].answer = "ok"
            /\ pc'[r] \in {"company", "record"} /\ Op(r) \in {"change", "delete"}
        <5>1. Op(r) \in {"change", "delete"}
          BY <3>3 DEF Account, Deal
        <5> QED BY <1>0, <3>3, <5>1 DEF Account, Goto, Deal
      <4>2. Licences(r)' = Licences(r)
        BY <1>0, <2>1 DEF Licences, Op, Delta, Target
      <4>3. Licences(r) = -Due(r)
        BY <1>2, <4>1 DEF Licences, Released, Numbers
      <4>4. Transit(r) = 0 /\ Transit(r)' = -Due(r) /\ Noted(r) = 0
        BY <1>0, <3>3, <4>1, <4>2, <4>3 DEF Transit, Noted
      <4> QED BY <3>1, <4>4 DEF Report, Numbers
    <3> QED BY <1>3, <3>2, <3>3
  <2> QED BY <2>3, <2>4, <2>5
<1>4. CASE CounterRaises(r)
  <2>1. /\ used' \in {used, Counter(r)} /\ pc'[r] = "unlock"
        /\ local'[r].lost /\ local'[r].left = local[r].left
    BY <1>0, <1>4 DEF CounterRaises, Goto, LocalType
  <2>2. Due(r)' = 0 /\ Transit(r)' = 0
    BY <2>1 DEF Due, Transit
  <2>3. Deal(r)'
    BY <2>1 DEF Deal
  <2>4. /\ Counter(r) >= used - Due(r)
        /\ used >= Due(r) =>
             Counter(r) = IF pc[r] = "reserve" THEN used + Delta(r) ELSE used - Due(r)
    BY <1>0, <1>2 DEF Counter, Minus, Numbers
  <2>5. Books(r)
    BY <1>0, <1>1, <1>2, <2>1, <2>2, <2>4 DEF Books, Moved, Numbers
  <2>6. Report(r)
    <3> DEFINE n == IF pc[r] = "account" THEN -Released(r) ELSE Delta(r)
    <3>1. PICK done \in BOOLEAN :
            /\ used' = IF done THEN Counter(r) ELSE used
            /\ IF done = (pc[r] = "undo") THEN UNCHANGED missing ELSE Unreported(r, n)
      BY <1>4 DEF CounterRaises
    <3>2. Noted(r) = IF done = (pc[r] = "undo") THEN 0 ELSE n
      <4>1. Unreported(r, n) => missing' # missing
        BY <1>0, NewlyMissing DEF Inside
      <4> QED BY <1>0, <3>1, <4>1 DEF Noted
    <3>3. Transit(r) = IF pc[r] = "undo" THEN Delta(r) ELSE 0
      BY <1>0, <1>2 DEF Transit
    <3>4. /\ Delta(r) \in Int /\ Released(r) \in Int /\ used \in Nat /\ used' \in Nat
          /\ Due(r) \in Int
      BY <1>0 DEF Numbers
    <3>5. CASE pc[r] = "reserve"
      BY <1>2, <2>2, <2>4, <3>1, <3>2, <3>3, <3>4, <3>5 DEF Report
    <3>6. CASE pc[r] = "undo"
      BY <1>2, <2>2, <2>4, <3>1, <3>2, <3>3, <3>4, <3>6 DEF Report
    <3>7. CASE pc[r] = "account"
      BY <1>2, <2>2, <2>4, <3>1, <3>2, <3>3, <3>4, <3>7 DEF Report
    <3> QED BY <1>0, <3>5, <3>6, <3>7
  <2> QED BY <2>3, <2>5, <2>6
<1> QED BY <1>3, <1>4

LEMMA OwnBooks ==
  ASSUME Shape, TypeOK, TypeOK', AuditInv, NEW r \in Requests, Numbers(r), Numbers(r)', Deal(r),
         Step(r)
  PROVE  Deal(r)' /\ Books(r) /\ Report(r)
  BY QuietSteps, ListingSteps, ReserveBooks, CallSteps, CounterSteps DEF Step

-----------------------------------------------------------------------------
(* All requests together.                                                  *)
DealInv == \A r \in Requests : Deal(r)
NumbersInv == \A r \in Requests : Numbers(r)

(* What a step leaves to the requests that do not make it.                 *)
LEMMA DealElsewhere ==
  ASSUME TypeOK, NEW q \in Requests, Deal(q), call' = call,
         pc'[q] = pc[q], local'[q] = local[q],
         pc[q] \in {"reserve", "call"} =>
           \A s \in Own(DomainOf(q)) :
             google'[s].held = google[s].held /\ google'[s].seats = google[s].seats
  PROVE  Deal(q)' /\ Due(q)' = Due(q) /\ Transit(q)' = Transit(q)
<1>1. /\ Op(q)' = Op(q) /\ DomainOf(q)' = DomainOf(q) /\ Target(q)' = Target(q)
      /\ Delta(q)' = Delta(q) /\ Sells(q)' = Sells(q) /\ Released(q)' = Released(q)
      /\ Licences(q)' = Licences(q)
  BY DEF Op, DomainOf, Target, Delta, Sells, Released, Licences
<1>2. pc[q] \in {"reserve", "call"} =>
        /\ InHand(q)' = InHand(q)
        /\ \A s \in local[q].ids : google'[s].held = google[s].held
  <2> SUFFICES ASSUME pc[q] \in {"reserve", "call"}
               PROVE  /\ InHand(q)' = InHand(q)
                      /\ \A s \in local[q].ids : google'[s].held = google[s].held
    OBVIOUS
  <2> DEFINE ids == local[q].ids
             G == HeldIn(google, ids)
  <2>1. \A s \in ids : google'[s].held = google[s].held /\ google'[s].seats = google[s].seats
    BY DEF Deal
  <2>2. google \in [Subs -> GoogleType] /\ ids \in SUBSET Subs
    BY RequestTypes DEF TypeOK, GoogleType, LocalType
  <2>3. HeldIn(google', ids) = G /\ G \in SUBSET Subs
    BY <2>1, <2>2 DEF HeldIn
  <2>4. \A s \in G : google'[s].seats = google[s].seats
    BY <2>1 DEF HeldIn
  <2>5. InHand(q) = Seats(google, G) /\ InHand(q)' = Seats(google', HeldIn(google', ids))
    BY DEF InHand
  <2> HIDE DEF G
  <2>6. Seats(google', G) = Seats(google, G)
    BY <2>2, <2>3, <2>4, SeatsAgree
  <2> QED BY <2>1, <2>3, <2>5, <2>6
<1>3. Due(q)' = Due(q) /\ Transit(q)' = Transit(q)
  BY <1>1, <1>2 DEF Due, Transit
<1>4. pc[q] = "call" => Asking(q)'
  <2> SUFFICES ASSUME pc[q] = "call" PROVE Asking(q)'
    OBVIOUS
  <2>1. Asking(q)
    BY DEF Deal
  <2> QED BY <1>1, <1>2, <2>1 DEF Asking
<1>5. pc[q] \in {"reserve", "call"} /\ Op(q) # "delete" =>
        \E s \in Subs : local[q].ids = {s} /\ google'[s].held
  BY <1>2 DEF Deal
<1>6. pc[q] = "reserve" => /\ Sells(q) /\ local[q].at = local[q].current
                           /\ InHand(q)' = local[q].current
  BY <1>2 DEF Deal
<1>7. Deal(q)'
  BY <1>1, <1>4, <1>5, <1>6 DEF Deal
<1> QED BY <1>3, <1>7

(* The lock keeps the others away from what r has listed.                  *)
LEMMA StepElsewhere ==
  ASSUME Shape, Owners, DealInv, NEW r \in Requests, Step(r), NEW q \in Requests \ {r},
         pc[q] \in {"reserve", "call"}
  PROVE  \A s \in Own(DomainOf(q)) \cap Subs : google'[s] = google[s]
<1>1. CASE google' = google
  BY <1>1
<1>2. CASE pc[r] = "call" /\ \E ids \in SUBSET local[r].ids : google' = Called(r, ids)
  <2>1. DomainOf(q) # DomainOf(r)
    BY <1>2, OwnersAlone DEF Running, Inside
  <2>2. \A s \in local[r].ids : Customer[s] = DomainOf(r)
    BY <1>2 DEF DealInv, Deal, Own
  <2> QED BY <1>2, <2>1, <2>2, CalledShape DEF Own
<1> QED BY <1>1, <1>2, StepGoogle

LEMMA OthersKeep ==
  ASSUME Shape, TypeOK, Owners, DealInv, NEW r \in Requests, Step(r), NEW q \in Requests \ {r}
  PROVE  /\ Deal(q)' /\ Due(q)' = Due(q) /\ Transit(q)' = Transit(q)
         /\ pc'[q] = pc[q] /\ local'[q] = local[q]
<1>1. call' = call /\ pc'[q] = pc[q]
  BY StepMoves DEF Shape, Moves, Acquire, Busy, Unlock, Goto
<1>2. local'[q] = local[q]
  BY StepLocal DEF OnlyLocalOf
<1>3. pc[q] \in {"reserve", "call"} =>
        \A s \in Own(DomainOf(q)) :
          google'[s].held = google[s].held /\ google'[s].seats = google[s].seats
  BY StepElsewhere DEF Own
<1>4. Deal(q)
  BY DEF DealInv
<1> QED BY <1>1, <1>2, <1>3, <1>4, DealElsewhere

(* Steps that are nobody's, or somebody's death.                           *)
LEMMA IdleKeep ==
  ASSUME TypeOK, DealInv, NEW q \in Requests, UNCHANGED <<call, local>>, pc'[q] = pc[q],
         \A s \in Subs : google'[s].held = google[s].held /\ google'[s].seats = google[s].seats
  PROVE  Deal(q)' /\ Due(q)' = Due(q) /\ Transit(q)' = Transit(q)
<1>1. Deal(q) /\ Own(DomainOf(q)) \subseteq Subs
  BY DEF DealInv, Own
<1> QED BY <1>1, DealElsewhere

LEMMA ActsKeep ==
  ASSUME TypeOK, NEW s \in Subs, GoogleActs(s)
  PROVE  \A t \in Subs : google'[t].held = google[t].held /\ google'[t].seats = google[t].seats
<1>1. PICK reasons : google' = [google EXCEPT ![s].reasons = reasons]
  BY DEF GoogleActs
<1>2. google \in [Subs -> GoogleType]
  BY DEF TypeOK, GoogleType
<1> QED BY <1>1, <1>2 DEF GoogleType

LEMMA DealStep ==
  ASSUME Shape, TypeOK, TypeOK', NumbersInv, NumbersInv', Owners, AuditInv, DealInv, [Next]_vars
  PROVE  DealInv'
<1>1. CASE UNCHANGED vars
  BY <1>1, IdleKeep DEF vars, DealInv
<1>2. ASSUME NEW r \in Requests, Step(r)
      PROVE  DealInv'
  <2>1. Numbers(r) /\ Numbers(r)' /\ Deal(r)
    BY DEF NumbersInv, DealInv
  <2>2. Deal(r)'
    BY <1>2, <2>1, OwnBooks
  <2> QED BY <1>2, <2>2, OthersKeep DEF DealInv
<1>3. ASSUME NEW r \in Requests, Crash(r)
      PROVE  DealInv'
  <2>1. UNCHANGED <<call, local, google>> /\ pc' = [pc EXCEPT ![r] = "dead"]
    BY <1>3 DEF Crash, Goto
  <2>2. pc'[r] = "dead" /\ \A q \in Requests \ {r} : pc'[q] = pc[q]
    BY <2>1 DEF Shape
  <2>3. Deal(r)'
    BY <2>2 DEF Deal
  <2> QED BY <2>1, <2>2, <2>3, IdleKeep DEF DealInv
<1>4. ASSUME NEW d \in Domains, LockExpires(d)
      PROVE  DealInv'
  BY <1>4, IdleKeep DEF LockExpires, DealInv
<1>5. ASSUME NEW s \in Subs, GoogleActs(s)
      PROVE  DealInv'
  <2>1. UNCHANGED <<call, local, pc>>
    BY <1>5 DEF GoogleActs
  <2> QED BY <1>5, <2>1, ActsKeep, IdleKeep DEF DealInv
<1> QED BY <1>1, <1>2, <1>3, <1>4, <1>5 DEF Next

-----------------------------------------------------------------------------
(* The sums over all requests.                                             *)
AllDue == SumFunctionOnSet([r \in Requests |-> Due(r)], Requests)
AllTransit == SumFunctionOnSet([r \in Requests |-> Transit(r)], Requests)

LEMMA DueIsNatural ==
  ASSUME NEW r \in Requests, Numbers(r), Deal(r)
  PROVE  Due(r) \in Nat
  BY DEF Numbers, Deal, Due, Asking, Sells

SumsInv ==
  /\ Left \in Nat /\ \A r \in Requests : local[r].left \in Nat /\ local[r].left <= Left
  /\ AllDue \in Nat /\ \A r \in Requests : Due(r) \in Nat /\ Due(r) <= AllDue
  /\ AllTransit \in Int

LEMMA SumsAreNumbers ==
  ASSUME NumbersInv, DealInv
  PROVE  SumsInv
<1> DEFINE l == [r \in Requests |-> local[r].left]
           d == [r \in Requests |-> Due(r)]
           t == [r \in Requests |-> Transit(r)]
<1>1. IsFiniteSet(Requests)
  BY ConstantsAssumption
<1>2. \A r \in Requests : Numbers(r) /\ Due(r) \in Nat
  BY DueIsNatural DEF NumbersInv, DealInv
<1>3. \A r \in Requests : l[r] = local[r].left /\ d[r] = Due(r) /\ t[r] = Transit(r)
  OBVIOUS
<1>4. \A r \in Requests : l[r] \in Nat /\ d[r] \in Nat /\ t[r] \in Int
  BY <1>2, <1>3 DEF Numbers
<1>5. Left = SumFunctionOnSet(l, Requests) /\ AllDue = SumFunctionOnSet(d, Requests)
      /\ AllTransit = SumFunctionOnSet(t, Requests)
  BY DEF Left, AllDue, AllTransit
<1> HIDE DEF l, d, t
<1>6. SumFunctionOnSet(l, Requests) \in Nat
      /\ \A r \in Requests : l[r] <= SumFunctionOnSet(l, Requests)
  BY <1>1, <1>4, SumIsNatural
<1>7. SumFunctionOnSet(d, Requests) \in Nat
      /\ \A r \in Requests : d[r] <= SumFunctionOnSet(d, Requests)
  BY <1>1, <1>4, SumIsNatural
<1>8. SumFunctionOnSet(t, Requests) \in Int
  BY <1>1, <1>4, SumIsInteger
<1> QED BY <1>3, <1>4, <1>5, <1>6, <1>7, <1>8 DEF SumsInv

LEMMA SumsMove ==
  ASSUME NumbersInv, NumbersInv', NEW r \in Requests,
         \A q \in Requests \ {r} : /\ Due(q)' = Due(q) /\ Transit(q)' = Transit(q)
                                   /\ local'[q] = local[q]
  PROVE  /\ Left' = Left + (local'[r].left - local[r].left)
         /\ AllDue' = AllDue + Moved(r)
         /\ AllTransit' = AllTransit + (Transit(r)' - Transit(r))
<1> DEFINE l == [q \in Requests |-> local[q].left]
           m == [q \in Requests |-> local'[q].left]
           d == [q \in Requests |-> Due(q)]
           e == [q \in Requests |-> Due(q)']
           t == [q \in Requests |-> Transit(q)]
           u == [q \in Requests |-> Transit(q)']
<1>1. IsFiniteSet(Requests)
  BY ConstantsAssumption
<1>2. \A q \in Requests : Numbers(q) /\ Numbers(q)'
  BY DEF NumbersInv
<1>3. \A q \in Requests : /\ l[q] = local[q].left /\ m[q] = local'[q].left
                          /\ d[q] = Due(q) /\ e[q] = Due(q)'
                          /\ t[q] = Transit(q) /\ u[q] = Transit(q)'
  OBVIOUS
<1>4. \A q \in Requests : /\ l[q] \in Int /\ m[q] \in Int /\ d[q] \in Int /\ e[q] \in Int
                          /\ t[q] \in Int /\ u[q] \in Int
  BY <1>2, <1>3 DEF Numbers
<1>5. \A q \in Requests \ {r} : m[q] = l[q] /\ e[q] = d[q] /\ u[q] = t[q]
  BY <1>3
<1>6. /\ Left = SumFunctionOnSet(l, Requests) /\ Left' = SumFunctionOnSet(m, Requests)
      /\ AllDue = SumFunctionOnSet(d, Requests) /\ AllDue' = SumFunctionOnSet(e, Requests)
      /\ AllTransit = SumFunctionOnSet(t, Requests)
      /\ AllTransit' = SumFunctionOnSet(u, Requests)
  BY DEF Left, AllDue, AllTransit
<1> HIDE DEF l, m, d, e, t, u
<1>7. SumFunctionOnSet(m, Requests) = SumFunctionOnSet(l, Requests) + (m[r] - l[r])
  BY <1>1, <1>4, <1>5, SumChanges
<1>8. SumFunctionOnSet(e, Requests) = SumFunctionOnSet(d, Requests) + (e[r] - d[r])
  BY <1>1, <1>4, <1>5, SumChanges
<1>9. SumFunctionOnSet(u, Requests) = SumFunctionOnSet(t, Requests) + (u[r] - t[r])
  BY <1>1, <1>4, <1>5, SumChanges
<1> QED BY <1>3, <1>6, <1>7, <1>8, <1>9 DEF Moved

LEMMA SumsStay ==
  ASSUME local' = local, \A q \in Requests : Due(q)' = Due(q) /\ Transit(q)' = Transit(q)
  PROVE  Left' = Left /\ AllDue' = AllDue /\ AllTransit' = AllTransit
<1>1. /\ [q \in Requests |-> Due(q)'] = [q \in Requests |-> Due(q)]
      /\ [q \in Requests |-> Transit(q)'] = [q \in Requests |-> Transit(q)]
  OBVIOUS
<1> QED BY <1>1 DEF Left, AllDue, AllTransit

LEMMA SoldStays ==
  ASSUME TypeOK,
         \A s \in Subs : google'[s].held = google[s].held /\ google'[s].seats = google[s].seats
  PROVE  Sold' = Sold
<1> DEFINE G == HeldIn(google, Subs)
<1>1. google \in [Subs -> GoogleType] /\ G \in SUBSET Subs /\ HeldIn(google', Subs) = G
  BY DEF TypeOK, GoogleType, HeldIn
<1>2. Sold = Seats(google, G) /\ Sold' = Seats(google', HeldIn(google', Subs))
  BY SoldIsSeats
<1> HIDE DEF G
<1>3. Seats(google', G) = Seats(google, G)
  BY <1>1, SeatsAgree
<1> QED BY <1>1, <1>2, <1>3

-----------------------------------------------------------------------------
(* The books are balanced throughout, the actions in progress included.    *)
Lively == \A r \in Requests : pc[r] # "dead"
Clear == Lively /\ \A r \in Requests : ~local[r].lost

BooksInv == used + Left - Sold >= AllDue
BalanceInv == Left = 0 /\ Clear => used - Sold = AllDue
ReportInv == Left = 0 /\ Lively => used - Counted = NetChange + Unlisted + AllTransit

(* What is nobody's step, as far as the books see it.                      *)
Idle ==
  /\ UNCHANGED <<call, pc, local, used, audit, missing>>
  /\ \A s \in Subs : google'[s].held = google[s].held /\ google'[s].seats = google[s].seats
Dies(r) ==
  /\ UNCHANGED <<call, local, used, google, audit, missing>>
  /\ pc[r] \notin {"dead"} \cup Answers /\ pc' = [pc EXCEPT ![r] = "dead"]

LEMMA StepsSorted ==
  ASSUME TypeOK, [Next]_vars
  PROVE  Idle \/ \E r \in Requests : Step(r) \/ Dies(r)
<1>1. CASE UNCHANGED vars
  BY <1>1 DEF vars, Idle
<1>2. ASSUME NEW r \in Requests, Crash(r)
      PROVE  Dies(r)
  BY <1>2 DEF Crash, Dies, Goto, Running, Inside, Answers, history
<1>3. ASSUME NEW d \in Domains, LockExpires(d)
      PROVE  Idle
  BY <1>3 DEF LockExpires, Idle, history
<1>4. ASSUME NEW s \in Subs, GoogleActs(s)
      PROVE  Idle
  <2>1. UNCHANGED <<call, pc, local, used, audit, missing>>
    BY <1>4 DEF GoogleActs, history
  <2> QED BY <1>4, <2>1, ActsKeep DEF Idle
<1> QED BY <1>1, <1>2, <1>3, <1>4 DEF Next

LEMMA IdleSums ==
  ASSUME TypeOK, DealInv, Idle
  PROVE  /\ UNCHANGED <<used, Sold, Left, AllDue, AllTransit, NetChange, Unlisted, Counted>>
         /\ Clear' = Clear /\ Lively' = Lively
<1>1. \A q \in Requests : Due(q)' = Due(q) /\ Transit(q)' = Transit(q)
  BY IdleKeep DEF Idle
<1>2. Left' = Left /\ AllDue' = AllDue /\ AllTransit' = AllTransit
  BY <1>1, SumsStay DEF Idle
<1>3. Sold' = Sold
  BY SoldStays DEF Idle
<1> QED BY <1>2, <1>3 DEF Idle, NetChange, Unlisted, Counted, Clear, Lively

LEMMA DeathSums ==
  ASSUME Shape, TypeOK, DealInv, NumbersInv, NumbersInv', SumsInv,
         NEW r \in Requests, Dies(r)
  PROVE  /\ UNCHANGED <<used, Sold, Left>>
         /\ AllDue' <= AllDue
         /\ ~Clear' /\ ~Lively'
<1>1. pc'[r] = "dead" /\ \A q \in Requests \ {r} : pc'[q] = pc[q]
  BY DEF Dies, Shape
<1>2. \A q \in Requests \ {r} : Due(q)' = Due(q) /\ Transit(q)' = Transit(q)
  BY <1>1, IdleKeep DEF Dies
<1>3. Left' = Left + (local'[r].left - local[r].left) /\ AllDue' = AllDue + Moved(r)
  BY <1>2, SumsMove DEF Dies
<1>4. Due(r)' = 0 /\ Due(r) \in Nat /\ AllDue \in Nat
  BY <1>1 DEF Due, SumsInv
<1>5. Left' = Left
  BY DEF Left, Dies
<1>6. Sold' = Sold
  BY DEF Sold, SeatsOf, Dies
<1>7. ~Clear' /\ ~Lively'
  BY <1>1 DEF Clear, Lively
<1> QED BY <1>3, <1>4, <1>5, <1>6, <1>7 DEF Moved, Dies

(* A step of r as the sums see it.                                         *)
LEMMA StepSums ==
  ASSUME Shape, TypeOK, TypeOK', Owners, AuditInv, DealInv, NumbersInv, NumbersInv',
         NEW r \in Requests, Step(r)
  PROVE  /\ Books(r) /\ Report(r)
         /\ Left' = Left + (local'[r].left - local[r].left)
         /\ AllDue' = AllDue + Moved(r)
         /\ AllTransit' = AllTransit + (Transit(r)' - Transit(r))
         /\ \A q \in Requests \ {r} : pc'[q] = pc[q] /\ local'[q] = local[q]
         /\ Clear' => Clear
         /\ Lively' => Lively
<1>1. Books(r) /\ Report(r)
  BY OwnBooks DEF DealInv, NumbersInv
<1>2. \A q \in Requests \ {r} : /\ Due(q)' = Due(q) /\ Transit(q)' = Transit(q)
                                /\ pc'[q] = pc[q] /\ local'[q] = local[q]
  BY OthersKeep
<1>3. pc[r] # "dead"
  BY StepMoves DEF Acquire, Busy, Unlock, Moves, Inside
<1>5. ~local'[r].lost => ~local[r].lost
  BY <1>1 DEF Books
<1>6. Lively' => Lively
  BY <1>2, <1>3 DEF Lively
<1>7. Clear' => Clear
  BY <1>2, <1>5, <1>6 DEF Clear
<1> QED BY <1>1, <1>2, <1>6, <1>7, SumsMove

LEMMA BooksStep ==
  ASSUME Shape, TypeOK, TypeOK', Owners, AuditInv, DealInv, DealInv', NumbersInv, NumbersInv',
         SumsInv, SumsInv', BooksInv, BalanceInv, [Next]_vars
  PROVE  BooksInv' /\ BalanceInv'
<1>1. CASE Idle
  BY <1>1, IdleSums DEF BooksInv, BalanceInv
<1>2. ASSUME NEW r \in Requests, Dies(r)
      PROVE  BooksInv' /\ BalanceInv'
  <2>1. used \in Nat /\ Sold \in Nat
    BY <1>2 DEF NumbersInv, Numbers
  <2>2. Left \in Nat /\ AllDue \in Nat /\ AllDue' \in Nat
    BY DEF SumsInv
  <2> QED BY <1>2, <2>1, <2>2, DeathSums DEF BooksInv, BalanceInv
<1>3. ASSUME NEW r \in Requests, Step(r)
      PROVE  BooksInv' /\ BalanceInv'
  <2>1. /\ Books(r) /\ AllDue' = AllDue + Moved(r) /\ (Clear' => Clear)
        /\ Left' = Left + (local'[r].left - local[r].left)
    BY <1>3, StepSums
  <2>2. /\ used \in Nat /\ Sold \in Nat /\ used' \in Nat /\ Sold' \in Nat
        /\ local[r].left \in Nat /\ local'[r].left \in Nat
        /\ Due(r) \in Int /\ Due(r)' \in Int /\ Moved(r) \in Int
    BY DEF NumbersInv, Numbers, Moved
  <2>3. /\ Left \in Nat /\ AllDue \in Nat /\ AllDue' \in Nat /\ Left' \in Nat
        /\ Due(r) <= AllDue /\ local'[r].left <= Left' /\ local[r].left <= Left
    BY DEF SumsInv
  <2>4. BooksInv'
    BY <2>1, <2>2, <2>3 DEF BooksInv, Books
  <2>5. BalanceInv'
    <3> SUFFICES ASSUME Left' = 0, Clear'
                 PROVE  used' - Sold' = AllDue'
      BY DEF BalanceInv
    <3>1. local'[r].left = 0 /\ local[r].left = 0 /\ Left = 0
      BY <2>1, <2>2, <2>3 DEF Books
    <3>2. used >= Due(r)
      BY <2>2, <2>3, <3>1 DEF BooksInv
    <3>3. ~local'[r].lost
      BY DEF Clear
    <3>4. (used' - Sold') - (used - Sold) = Moved(r)
      BY <2>1, <3>1, <3>2, <3>3 DEF Books
    <3>5. used - Sold = AllDue
      BY <2>1, <3>1 DEF BalanceInv
    <3> QED BY <2>1, <2>2, <2>3, <3>4, <3>5
  <2> QED BY <2>4, <2>5
<1> QED BY <1>1, <1>2, <1>3, StepsSorted

(* What a set of entries adds up to.                                       *)
Entries(log) == SumFunctionOnSet([e \in log |-> e.licences], log)

LEMMA EntryAdded ==
  ASSUME NEW log \in SUBSET [by: Requests, licences: Int], IsFiniteSet(log),
         NEW e0 \in [by: Requests, licences: Int], e0 \notin log
  PROVE  /\ IsFiniteSet(log \cup {e0})
         /\ Entries(log) \in Int
         /\ Entries(log \cup {e0}) = Entries(log) + e0.licences
<1> DEFINE more == log \cup {e0}
           f == [e \in log |-> e.licences]
           g == [e \in more |-> e.licences]
<1>1. /\ IsFiniteSet(more) /\ e0 \in more /\ more \ {e0} = log
      /\ \A e \in log : f[e] \in Int /\ g[e] = f[e]
      /\ \A e \in more : g[e] \in Int
      /\ g[e0] = e0.licences /\ e0.licences \in Int
  BY FS_AddElement
<1>2. Entries(log) = SumFunctionOnSet(f, log) /\ Entries(more) = SumFunctionOnSet(g, more)
  BY DEF Entries
<1> HIDE DEF f, g, more
<1>3. SumFunctionOnSet(g, log) = SumFunctionOnSet(f, log)
  BY <1>1, SumAgrees
<1>4. SumFunctionOnSet(g, more) = g[e0] + SumFunctionOnSet(g, log)
  BY <1>1, SumRemove
<1>5. SumFunctionOnSet(f, log) \in Int
  BY <1>1, SumIsInteger
<1> QED BY <1>1, <1>2, <1>3, <1>4, <1>5 DEF more

LEMMA EntriesAreNumbers ==
  ASSUME NEW log \in SUBSET [by: Requests, licences: Int], IsFiniteSet(log)
  PROVE  Entries(log) \in Int
<1> DEFINE f == [e \in log |-> e.licences]
<1>1. \A e \in log : f[e] \in Int
  OBVIOUS
<1> HIDE DEF f
<1>2. SumFunctionOnSet(f, log) \in Int
  BY <1>1, SumIsInteger
<1> QED BY <1>2 DEF f, Entries

(* A step notes nothing, or one entry, in the log or missing from it.      *)
LEMMA Entered ==
  ASSUME Shape, TypeOK, NumbersInv, AuditInv, NEW r \in Requests, Step(r)
  PROVE  \/ UNCHANGED <<audit, missing>> /\ Noted(r) = 0
         \/ /\ pc[r] \in Inside /\ pc'[r] = "unlock" /\ Noted(r) \in Int
            /\ [by |-> r, licences |-> Noted(r)] \notin audit \cup missing
            /\ \/ /\ audit' = audit \cup {[by |-> r, licences |-> Noted(r)]}
                  /\ missing' = missing
               \/ /\ missing' = missing \cup {[by |-> r, licences |-> Noted(r)]}
                  /\ audit' = audit
<1>0. /\ pc \in [Requests -> Steps]
      /\ Licences(r) \in Int /\ Delta(r) \in Int /\ Released(r) \in Int
  BY RequestTypes DEF TypeOK, NumbersInv, Numbers
<1>1. CASE Audit(r)
  <2>1. pc[r] = "audit" /\ pc[r] \in Inside /\ pc'[r] = "unlock"
    BY <1>0, <1>1 DEF Audit, Goto, Inside
  <2>2. Noted(r) = Licences(r)
    BY <2>1 DEF Noted
  <2>3. [by |-> r, licences |-> Noted(r)] \notin audit \cup missing
    BY <2>1 DEF AuditInv, Answers
  <2> QED BY <1>0, <1>1, <2>1, <2>2, <2>3 DEF Audit, Unreported, history
<1>2. ASSUME NEW n \in Int, Unreported(r, n), pc[r] \in Inside, pc'[r] = "unlock",
             UNCHANGED audit,
             n = IF pc[r] \in {"reserve", "undo"} THEN Delta(r)
                 ELSE IF pc[r] = "account" THEN -Released(r) ELSE Licences(r)
      PROVE  /\ Noted(r) = n
             /\ [by |-> r, licences |-> n] \notin audit \cup missing
             /\ missing' = missing \cup {[by |-> r, licences |-> n]}
  <2>1. missing' # missing /\ [by |-> r, licences |-> n] \notin audit \cup missing
    BY <1>2, NewlyMissing
  <2> QED BY <1>2, <2>1 DEF Noted, Unreported
<1>3. CASE CounterRaises(r)
  <2> DEFINE n == IF pc[r] = "account" THEN -Released(r) ELSE Delta(r)
  <2>1. /\ UNCHANGED missing \/ Unreported(r, n)
        /\ UNCHANGED audit
        /\ pc[r] \in {"reserve", "undo", "account"} /\ pc'[r] = "unlock"
    BY <1>0, <1>3 DEF CounterRaises, Goto
  <2>2. n = IF pc[r] \in {"reserve", "undo"} THEN Delta(r)
            ELSE IF pc[r] = "account" THEN -Released(r) ELSE Licences(r)
    BY <2>1
  <2>3. n \in Int /\ pc[r] \in Inside
    BY <1>0, <2>1 DEF Inside
  <2> HIDE DEF n
  <2>4. CASE UNCHANGED missing
    BY <2>1, <2>4 DEF Noted
  <2>5. CASE Unreported(r, n)
    BY <1>2, <2>1, <2>2, <2>3, <2>5
  <2> QED BY <2>1, <2>4, <2>5
<1>4. CASE UpdateCompany(r) \/ UpdateRecord(r)
  <2>1. pc[r] \in {"company", "record"} /\ UNCHANGED audit /\ pc[r] \in Inside
    BY <1>4 DEF UpdateCompany, UpdateRecord, Inside
  <2>2. CASE UNCHANGED missing
    BY <2>1, <2>2 DEF Noted
  <2>3. CASE Raised(r)
    <3>1. Unreported(r, Licences(r)) /\ pc'[r] = "unlock"
      BY <1>0, <2>3 DEF Raised, Leave, Goto
    <3> QED BY <1>0, <1>2, <2>1, <3>1
  <2> QED BY <1>4, <2>2, <2>3 DEF UpdateCompany, UpdateRecord, Saved, Refused, history
<1>5. CASE UNCHANGED <<audit, missing>> /\ pc[r] # "audit"
  BY <1>5 DEF Noted
<1> QED
  BY <1>1, <1>3, <1>4, <1>5 DEF Step, Acquire, Busy, OwnedCompany, ListOne, ListAll, ListFails,
    Reserve, CallWorks, CallRejected, CallFails, CallLost, Undo, Account, Unlock, history

LEMMA NoteStep ==
  ASSUME Shape, TypeOK, NumbersInv, AuditInv, NEW r \in Requests, Step(r)
  PROVE  /\ NetChange' + Unlisted' = NetChange + Unlisted + Noted(r)
         /\ NetChange \in Int /\ Unlisted \in Int /\ NetChange' \in Int /\ Unlisted' \in Int
         /\ Noted(r) \in Int
         /\ AuditInv'
<1>0. /\ audit \in SUBSET [by: Requests, licences: Int] /\ IsFiniteSet(audit)
      /\ missing \in SUBSET [by: Requests, licences: Int] /\ IsFiniteSet(missing)
      /\ pc \in [Requests -> Steps]
  BY DEF TypeOK, AuditInv
<1>1. /\ NetChange = Entries(audit) /\ NetChange' = Entries(audit')
      /\ Unlisted = Entries(missing) /\ Unlisted' = Entries(missing')
  BY DEF NetChange, Unlisted, Entries
<1>2. NetChange \in Int /\ Unlisted \in Int
  BY <1>0, <1>1, EntriesAreNumbers
<1>3. \E step \in Inside \cup {"unlock"} \cup Answers :
        /\ pc' = [pc EXCEPT ![r] = step]
        /\ pc[r] \in {"unlock", "dead"} \cup Answers => step \in Answers
  <2>1. local[r].answer \in Answers
    BY DEF Shape, LocalShape
  <2>2. CASE Acquire(r)
    BY <2>2 DEF Acquire, Goto, Inside, Answers
  <2>3. CASE Busy(r)
    BY <2>3 DEF Busy, Goto, Inside, Answers
  <2>4. CASE Unlock(r)
    BY <2>1, <2>4 DEF Unlock, Goto
  <2>5. CASE Moves(r)
    BY <2>5 DEF Moves, Inside, Answers
  <2> QED BY <2>2, <2>3, <2>4, <2>5, StepMoves
<1>4. \A e \in audit \cup missing : pc'[e.by] \in {"unlock", "dead"} \cup Answers
  BY <1>0, <1>3 DEF AuditInv
<1>5. CASE UNCHANGED <<audit, missing>> /\ Noted(r) = 0
  <2>1. AuditInv'
    BY <1>0, <1>4, <1>5 DEF AuditInv
  <2> QED BY <1>1, <1>2, <1>5, <2>1
<1>6. CASE Noted(r) \in Int /\ pc'[r] = "unlock" /\ ~UNCHANGED <<audit, missing>>
  <2> DEFINE e0 == [by |-> r, licences |-> Noted(r)]
  <2>1. /\ e0 \in [by: Requests, licences: Int] /\ e0.licences = Noted(r) /\ e0.by = r
        /\ e0 \notin audit /\ e0 \notin missing
        /\ \/ audit' = audit \cup {e0} /\ missing' = missing
           \/ missing' = missing \cup {e0} /\ audit' = audit
    BY <1>6, Entered
  <2> HIDE DEF e0
  <2>2. /\ IsFiniteSet(audit \cup {e0}) /\ IsFiniteSet(missing \cup {e0})
        /\ Entries(audit \cup {e0}) = Entries(audit) + Noted(r)
        /\ Entries(missing \cup {e0}) = Entries(missing) + Noted(r)
    BY <1>0, <2>1, EntryAdded
  <2>3. AuditInv'
    BY <1>0, <1>4, <1>6, <2>1, <2>2 DEF AuditInv
  <2> DEFINE n == Noted(r)
  <2>4. /\ n \in Int
        /\ \/ NetChange' = NetChange + n /\ Unlisted' = Unlisted
           \/ Unlisted' = Unlisted + n /\ NetChange' = NetChange
    BY <1>1, <1>6, <2>1, <2>2
  <2> HIDE DEF n
  <2>5. /\ NetChange' + Unlisted' = NetChange + Unlisted + n
        /\ NetChange' \in Int /\ Unlisted' \in Int
    BY <1>2, <2>4
  <2> QED BY <1>2, <2>3, <2>4, <2>5 DEF n
<1> QED BY <1>5, <1>6, Entered

LEMMA ReportStep ==
  ASSUME Shape, TypeOK, TypeOK', Owners, DealInv, NumbersInv, NumbersInv', SumsInv, SumsInv',
         BooksInv, AuditInv, ReportInv, [Next]_vars
  PROVE  AuditInv' /\ ReportInv'
<1>0. /\ audit \subseteq [by: Requests, licences: Int]
      /\ missing \subseteq [by: Requests, licences: Int]
  BY DEF TypeOK
<1>1. CASE Idle
  <2>1. AuditInv'
    BY <1>1 DEF AuditInv, Idle
  <2> QED BY <1>1, <2>1, IdleSums DEF ReportInv
<1>2. ASSUME NEW r \in Requests, Dies(r)
      PROVE  AuditInv' /\ ReportInv'
  <2>1. AuditInv'
    BY <1>0, <1>2 DEF AuditInv, Dies, Shape
  <2> QED BY <1>2, <2>1, DeathSums DEF ReportInv
<1>3. ASSUME NEW r \in Requests, Step(r)
      PROVE  AuditInv' /\ ReportInv'
  <2>1. /\ Books(r) /\ Report(r) /\ (Lively' => Lively)
        /\ Left' = Left + (local'[r].left - local[r].left)
        /\ AllTransit' = AllTransit + (Transit(r)' - Transit(r))
    BY <1>3, StepSums
  <2>2. /\ used \in Nat /\ Sold \in Nat /\ used' \in Nat
        /\ local[r].left \in Nat /\ local'[r].left \in Nat
        /\ Due(r) \in Int /\ Transit(r) \in Int /\ Transit(r)' \in Int /\ Licences(r) \in Int
    BY DEF NumbersInv, Numbers
  <2>3. /\ Left \in Nat /\ AllDue \in Nat /\ Left' \in Nat /\ AllTransit \in Int
        /\ Due(r) <= AllDue /\ local'[r].left <= Left' /\ local[r].left <= Left
    BY DEF SumsInv
  <2>4. /\ AuditInv' /\ NetChange' + Unlisted' = NetChange + Unlisted + Noted(r)
        /\ NetChange \in Int /\ Unlisted \in Int /\ NetChange' \in Int /\ Unlisted' \in Int
        /\ Noted(r) \in Int
    BY <1>3, NoteStep
  <2>6. Counted \in Int /\ Counted' = Counted
    BY ConstantsAssumption, SumIsInteger DEF Counted
  <2>7. ReportInv'
    <3> SUFFICES ASSUME Left' = 0, Lively'
                 PROVE  used' - Counted = NetChange' + Unlisted' + AllTransit'
      BY <2>6 DEF ReportInv
    <3>1. local'[r].left = 0 /\ local[r].left = 0 /\ Left = 0
      BY <2>1, <2>2, <2>3 DEF Books
    <3>2. used >= Due(r)
      BY <2>2, <2>3, <3>1 DEF BooksInv
    <3>4. used' - used = Noted(r) + (Transit(r)' - Transit(r))
      BY <2>1, <3>1, <3>2 DEF Report
    <3>5. used - Counted = NetChange + Unlisted + AllTransit
      BY <2>1, <3>1 DEF ReportInv
    <3> QED BY <2>1, <2>2, <2>3, <2>4, <2>6, <3>4, <3>5
  <2> QED BY <2>4, <2>7
<1> QED BY <1>1, <1>2, <1>3, StepsSorted

LEMMA BooksInit ==
  ASSUME Init
  PROVE  DealInv /\ BooksInv /\ BalanceInv /\ AuditInv /\ ReportInv
<1>1. \A r \in Requests : pc[r] = "start" /\ local[r] = Fresh
  BY DEF Init
<1>2. DealInv /\ AuditInv
  BY <1>1, FS_EmptySet DEF Init, DealInv, Deal, Fresh, AuditInv
<1>3. AllDue = 0 /\ AllTransit = 0 /\ Left = 0
  <2> DEFINE d == [r \in Requests |-> Due(r)]
             t == [r \in Requests |-> Transit(r)]
             l == [r \in Requests |-> local[r].left]
  <2>1. \A r \in Requests : d[r] = 0 /\ t[r] = 0 /\ l[r] = 0
    BY <1>1 DEF Due, Transit, Fresh
  <2>2. IsFiniteSet(Requests)
    BY ConstantsAssumption
  <2> HIDE DEF d, t, l
  <2>3. /\ SumFunctionOnSet(d, Requests) = 0 /\ SumFunctionOnSet(t, Requests) = 0
        /\ SumFunctionOnSet(l, Requests) = 0
    BY <2>1, <2>2, SumOfZeros
  <2> QED BY <2>3 DEF d, t, l, AllDue, AllTransit, Left
<1>4. Sold = Counted /\ used = Counted /\ Counted \in Int
  <2> DEFINE G == {s \in Subs : google[s].held}
             f == [s \in G |-> google[s].seats]
  <2>1. G = Subs /\ \A s \in Subs : f[s] = InitialSeats[s]
    BY DEF Init
  <2>2. IsFiniteSet(Subs) /\ \A s \in Subs : InitialSeats[s] \in Int
    BY ConstantsAssumption
  <2>3. Sold = SumFunctionOnSet(f, G)
    BY DEF Sold, SeatsOf
  <2> HIDE DEF G, f
  <2>4. SumFunctionOnSet(f, Subs) = SumFunctionOnSet(InitialSeats, Subs)
    BY <2>1, <2>2, SumAgrees
  <2>5. SumFunctionOnSet(InitialSeats, Subs) \in Int
    BY <2>2, SumIsInteger
  <2> QED BY <2>1, <2>3, <2>4, <2>5 DEF Init, Counted
<1>5. NetChange = 0 /\ Unlisted = 0
  BY SumOfNone DEF Init, NetChange, Unlisted
<1> QED BY <1>2, <1>3, <1>4, <1>5 DEF BooksInv, BalanceInv, ReportInv

(* What the three promises about the counter rest on.                      *)
BookKeeping == DealInv /\ BooksInv /\ BalanceInv /\ AuditInv /\ ReportInv

LEMMA BooksKept ==
  ASSUME "late" \notin Faults
  PROVE  Spec => [](BookKeeping /\ TypeOK /\ SumsInv)
<1> DEFINE I == Shape /\ Owners /\ BookKeeping
<1>1. Init => I
  <2>1. Init => Owners
    BY DEF Init, Owners, Running, Inside
  <2> QED BY <2>1, ShapeInit, BooksInit DEF BookKeeping
<1>2. TypeOK => NumbersInv
  BY NumbersHold DEF NumbersInv
<1>3. NumbersInv /\ I => SumsInv
  BY SumsAreNumbers DEF BookKeeping
<1>4. Shape /\ Owners /\ [Next]_vars => (Shape /\ Owners)'
  BY ShapeStep, OwnersStep
<1>5. /\ Shape /\ Owners /\ AuditInv /\ DealInv /\ [Next]_vars
      /\ TypeOK /\ TypeOK' /\ NumbersInv /\ NumbersInv'
      => DealInv'
  BY DealStep
<1>6. NumbersInv /\ DealInv => SumsInv
  BY SumsAreNumbers
<1>7. /\ Shape /\ Owners /\ BookKeeping /\ DealInv' /\ [Next]_vars
      /\ TypeOK /\ TypeOK' /\ NumbersInv /\ NumbersInv' /\ SumsInv /\ SumsInv'
      => (BooksInv /\ BalanceInv /\ AuditInv /\ ReportInv)'
  BY BooksStep, ReportStep DEF BookKeeping
<1>8. BookKeeping <=> DealInv /\ BooksInv /\ BalanceInv /\ AuditInv /\ ReportInv
  BY DEF BookKeeping
<1> HIDE DEF I
<1>9. I <=> Shape /\ Owners /\ BookKeeping
  BY DEF I
<1> QED BY <1>1, <1>2, <1>4, <1>5, <1>6, <1>7, <1>8, <1>9, TypeCorrect, PTL DEF Spec

LEMMA SoldIsNatural == TypeOK => used \in Nat /\ Sold \in Nat
<1> SUFFICES ASSUME TypeOK PROVE used \in Nat /\ Sold \in Nat
  OBVIOUS
<1> DEFINE G == HeldIn(google, Subs)
<1>1. google \in [Subs -> GoogleType] /\ G \in SUBSET Subs
  BY DEF TypeOK, GoogleType, HeldIn
<1>2. Seats(google, G) \in Nat
  <2> HIDE DEF G
  <2> QED BY <1>1, SeatSum DEF Seats
<1> QED BY <1>2, SoldIsSeats DEF TypeOK

(* SoldIsCounted: _change_licences counts an increase before it calls      *)
(* Google, and licences are given back only after Google has let go of     *)
(* them; so whatever fails, is repeated or dies half-way, Google never     *)
(* holds more seats of the partner than licences_used says, except for     *)
(* what a failed increase had bought when its refund took all of it back.  *)
THEOREM SeatsAreCounted ==
  ASSUME "late" \notin Faults
  PROVE  Spec => []SoldIsCounted
<1>1. BookKeeping /\ TypeOK /\ SumsInv => SoldIsCounted
  <2> SUFFICES ASSUME BookKeeping, TypeOK, SumsInv
               PROVE  SoldIsCounted
    OBVIOUS
  <2>1. used \in Nat /\ Sold \in Nat
    BY SoldIsNatural
  <2> QED BY <2>1 DEF BookKeeping, BooksInv, SumsInv, SoldIsCounted
<1> QED BY <1>1, BooksKept, PTL

(* When nothing is under way, no action owes the counter anything, and all *)
(* that the counter moved has been noted.                                  *)
LEMMA NothingDueWhenQuiet ==
  ASSUME Quiet, TypeOK
  PROVE  AllDue = 0 /\ AllTransit = 0 /\ Lively
<1> DEFINE d == [r \in Requests |-> Due(r)]
           t == [r \in Requests |-> Transit(r)]
<1>1. \A r \in Requests : d[r] = 0 /\ t[r] = 0 /\ pc[r] # "dead"
  BY DEF Quiet, Answers, Due, Transit
<1>2. IsFiniteSet(Requests)
  BY ConstantsAssumption
<1> HIDE DEF d, t
<1>3. SumFunctionOnSet(d, Requests) = 0 /\ SumFunctionOnSet(t, Requests) = 0
  BY <1>1, <1>2, SumOfZeros
<1> QED BY <1>1, <1>3 DEF d, t, AllDue, AllTransit, Lively

(* BooksBalance: when all actions have ended, none died or lost an answer  *)
(* of Google, and no failed increase left seats behind, licences_used is   *)
(* exactly what Google holds, whatever was changed, transferred, refused   *)
(* or refunded in between.                                                 *)
THEOREM CounterIsExact ==
  ASSUME "late" \notin Faults
  PROVE  Spec => []BooksBalance
<1>1. BookKeeping /\ TypeOK => BooksBalance
  <2> SUFFICES ASSUME BookKeeping, TypeOK, Quiet, Left = 0, \A r \in Requests : ~local[r].lost
               PROVE  used = Sold
    BY DEF BooksBalance
  <2>1. used - Sold = 0
    BY NothingDueWhenQuiet DEF BookKeeping, BalanceInv, Clear
  <2>2. used \in Nat /\ Sold \in Nat
    BY SoldIsNatural
  <2> QED BY <2>1, <2>2
<1> QED BY <1>1, BooksKept, PTL

(* ReportMatchesCounter: the usage report, added up from the audit entries *)
(* that _record writes last, says what the reservations, refunds and       *)
(* releases have done to the counter, whatever was lost, raised or refused *)
(* on the way, but for the entries that the log never got: of actions that *)
(* a write ended early, and of those whose own write failed unseen.        *)
THEOREM ReportIsExact ==
  ASSUME "late" \notin Faults
  PROVE  Spec => []ReportMatchesCounter
<1>1. BookKeeping /\ TypeOK => ReportMatchesCounter
  <2> SUFFICES ASSUME BookKeeping, TypeOK, Quiet, Left = 0
               PROVE  used - Counted = NetChange + Unlisted
    BY DEF ReportMatchesCounter
  <2>1. used - Counted = NetChange + Unlisted + 0
    BY NothingDueWhenQuiet DEF BookKeeping, ReportInv
  <2>2. NetChange \in Int /\ Unlisted \in Int
    BY EntriesAreNumbers DEF BookKeeping, AuditInv, TypeOK, NetChange, Unlisted, Entries
  <2> QED BY <2>1, <2>2
<1> QED BY <1>1, BooksKept, PTL

-----------------------------------------------------------------------------
(* Our records.  They follow Google as long as every outcome was seen and  *)
(* every write of a document went well.                                    *)
(* While no action is under way on a domain, its documents agree with      *)
(* Google; while one is, they differ by what it has done and not yet       *)
(* written down, or written down and not yet done.                         *)
Clean(d) ==
  \A r \in Requests : DomainOf(r) = d =>
    pc[r] # "dead" /\ ~local[r].lost /\ local[r].left = 0 /\ r \notin unsaved

Vacant(d) == \A r \in Requests : DomainOf(r) = d => pc[r] \notin Inside

Settled(d) ==
  LET l == LocalSub[d] IN
  /\ Held(d) \in {{}, Own(d)}
  /\ Held(d) = {} => company[d] = "TRANSFERRED"
  /\ l \in Held(d) => /\ record[d].seats = google[l].seats
                      /\ Ours(l) => company[d] = "SUSPENDED"

(* The same while r is at work on its domain.                              *)
Filed(r) ==
  LET d == DomainOf(r)
      l == LocalSub[d] IN
  /\ Held(d) \in {{}, Own(d)}
  /\ Held(d) = {} => \/ company[d] = "TRANSFERRED"
                     \/ Op(r) = "delete" /\ pc[r] \in {"account", "company"}
  /\ pc[r] = "call" /\ Op(r) = "delete" => local[r].ids = Held(d)
  /\ pc[r] = "company" /\ Op(r) = "suspend" => local[r].status = "SUSPENDED"
  /\ l \in Held(d) =>
       /\ \/ record[d].seats = google[l].seats
          \/ Op(r) = "change" /\ pc[r] \in {"call", "undo", "account", "record"}
       /\ Ours(l) => \/ company[d] = "SUSPENDED"
                     \/ Op(r) = "suspend" /\ pc[r] = "company"
       /\ pc[r] \in {"reserve", "call", "undo"} /\ Op(r) = "change" =>
            record[d].seats = local[r].current
       /\ pc[r] = "undo" => google[l].seats = local[r].current
       /\ pc[r] \in {"account", "record"} /\ Op(r) = "change" => google[l].seats = Target(r)
       /\ pc[r] = "company" /\ Op(r) = "activate" => ~Ours(l)

(* What holds of the locals, even when an outcome was lost.                *)
Picked(r) ==
  /\ pc[r] \in {"reserve", "call"} /\ Op(r) # "delete"
     /\ LocalSub[DomainOf(r)] \in Held(DomainOf(r))
       => local[r].ids = {LocalSub[DomainOf(r)]}
  /\ pc[r] = "company" => Op(r) # "change"
  /\ pc[r] \in {"call", "account", "company"} /\ Op(r) = "delete" =>
       local[r].status = "TRANSFERRED"

FileOf(d) ==
  /\ Vacant(d) => Settled(d)
  /\ \A r \in Requests : DomainOf(r) = d /\ pc[r] \in Inside => Filed(r)

FileInv ==
  /\ \A r \in Requests : Picked(r)
  /\ \A d \in Domains : Clean(d) => FileOf(d)

(* What the call does to one subscription.                                 *)
LEMMA CalledOne ==
  ASSUME TypeOK, NEW r \in Requests, NEW ids, google' = Called(r, ids), NEW s \in Subs
  PROVE  /\ s \notin ids => google'[s] = google[s]
         /\ s \in ids /\ Op(r) = "change" =>
              google'[s].held = google[s].held /\ google'[s].seats = NextSeats(r)
              /\ google'[s].reasons = google[s].reasons
         /\ s \in ids /\ Op(r) = "suspend" =>
              google'[s].held = google[s].held /\ google'[s].seats = google[s].seats
              /\ "RESELLER" \in google'[s].reasons
         /\ s \in ids /\ Op(r) = "activate" =>
              google'[s].held = google[s].held /\ google'[s].seats = google[s].seats
              /\ "RESELLER" \notin google'[s].reasons
         /\ s \in ids /\ Op(r) = "delete" => ~google'[s].held
<1>1. google[s] \in GoogleType /\ Op(r) \in Ops
  BY RequestTypes DEF TypeOK, GoogleType
<1>2. google'[s] = IF s \notin ids THEN google[s]
                   ELSE IF Op(r) = "change" THEN Resized(s, NextSeats(r))
                   ELSE IF Op(r) = "suspend" THEN Suspended(s)
                   ELSE IF Op(r) = "activate" THEN Activated(s) ELSE Transferred(s)
  BY DEF Called
<1>3. /\ Resized(s, NextSeats(r)).held = google[s].held
      /\ Resized(s, NextSeats(r)).seats = NextSeats(r)
      /\ Resized(s, NextSeats(r)).reasons = google[s].reasons
  BY <1>1 DEF Resized, GoogleType
<1>4. /\ Suspended(s).held = google[s].held /\ Suspended(s).seats = google[s].seats
      /\ "RESELLER" \in Suspended(s).reasons
  BY <1>1 DEF Suspended, GoogleType
<1>5. /\ Activated(s).held = google[s].held /\ Activated(s).seats = google[s].seats
      /\ "RESELLER" \notin Activated(s).reasons
  BY <1>1 DEF Activated, GoogleType
<1>6. ~Transferred(s).held
  BY <1>1 DEF Transferred, GoogleType
<1>7. CASE s \notin ids
  BY <1>2, <1>7
<1>8. CASE s \in ids /\ Op(r) = "change"
  BY <1>2, <1>3, <1>8
<1>9. CASE s \in ids /\ Op(r) = "suspend"
  BY <1>2, <1>4, <1>9
<1>10. CASE s \in ids /\ Op(r) = "activate"
  BY <1>2, <1>5, <1>10
<1>11. CASE s \in ids /\ Op(r) = "delete"
  BY <1>2, <1>6, <1>11
<1> QED BY <1>1, <1>7, <1>8, <1>9, <1>10, <1>11 DEF Ops

(* Steps that write nothing and ask Google for nothing.                    *)
LEMMA QuietFile ==
  ASSUME NEW r \in Requests, UNCHANGED <<call, google, company, record>>, Filed(r),
         pc[r] \in {"owned", "list", "reserve", "audit"},
         pc'[r] \in {"owned", "list", "audit", "unlock"}
  PROVE  Filed(r)'
<1>1. /\ Op(r)' = Op(r) /\ DomainOf(r)' = DomainOf(r)
      /\ Held(DomainOf(r))' = Held(DomainOf(r))
      /\ Ours(LocalSub[DomainOf(r)])' = Ours(LocalSub[DomainOf(r)])
  BY DEF Op, DomainOf, Held, Ours
<1> QED BY <1>1 DEF Filed

LEMMA ReservedFile ==
  ASSUME NEW r \in Requests, UNCHANGED <<call, google, company, record, local>>, Filed(r),
         Op(r) = "change", pc[r] = "reserve", pc'[r] = "call"
  PROVE  Filed(r)'
<1>1. /\ Op(r)' = Op(r) /\ DomainOf(r)' = DomainOf(r)
      /\ Held(DomainOf(r))' = Held(DomainOf(r))
      /\ Ours(LocalSub[DomainOf(r)])' = Ours(LocalSub[DomainOf(r)])
  BY DEF Op, DomainOf, Held, Ours
<1> QED BY <1>1 DEF Filed

LEMMA ListOneFile ==
  ASSUME TypeOK, NEW r \in Requests, ListOne(r)
  PROVE  Picked(r)' /\ (Filed(r) => Filed(r)')
<1> DEFINE d == DomainOf(r)
           l == LocalSub[d]
<1>0. /\ pc \in [Requests -> Steps] /\ local \in [Requests -> LocalType]
      /\ local[r] \in LocalType
      /\ pc[r] = "list" /\ Op(r) # "delete" /\ UNCHANGED <<call, google, company, record>>
  BY DEF TypeOK, LocalType, ListOne
<1>1. /\ Op(r)' = Op(r) /\ DomainOf(r)' = d /\ Held(d)' = Held(d)
      /\ Ours(l)' = Ours(l)
  BY <1>0 DEF Op, DomainOf, Held, Ours
<1>2. ASSUME NEW answer, Leave(r, answer)
      PROVE  Picked(r)' /\ (Filed(r) => Filed(r)')
  <2>1. pc'[r] = "unlock"
    BY <1>0, <1>2 DEF Leave, Goto
  <2> QED BY <1>0, <2>1, QuietFile DEF Picked
<1>3. ASSUME NEW s \in SubscriptionFor(d), Goto(r, AfterList(r, s)),
             local' = [local EXCEPT ![r] =
               [@ EXCEPT !.ids = {s}, !.current = google[s].seats, !.at = google[s].seats,
                         !.status = StatusOf(google[s].reasons)]]
      PROVE  Picked(r)' /\ (Filed(r) => Filed(r)')
  <2>1. /\ local'[r].ids = {s} /\ local'[r].current = google[s].seats
        /\ local'[r].status = StatusOf(google[s].reasons)
    BY <1>0, <1>3 DEF LocalType
  <2>2. l \in Held(d) => s = l
    BY <1>3 DEF SubscriptionFor
  <2>3. pc'[r] = AfterList(r, s) /\ pc'[r] \in {"reserve", "call", "company"}
    BY <1>0, <1>3 DEF Goto, AfterList
  <2>4. /\ pc'[r] = "company" => Op(r) # "change"
        /\ pc'[r] = "company" /\ Op(r) = "suspend" => Ours(s)
        /\ pc'[r] = "company" /\ Op(r) = "activate" => ~Ours(s)
    BY <2>3 DEF AfterList
  <2>5. Ours(s) => local'[r].status = "SUSPENDED"
    BY <2>1 DEF Ours, StatusOf
  <2>6. Picked(r)'
    BY <1>0, <1>1, <2>1, <2>2, <2>4 DEF Picked
  <2>7. ASSUME Filed(r) PROVE Filed(r)'
    <3>1. /\ Held(d) \in {{}, Own(d)}
          /\ Held(d) = {} => company[d] = "TRANSFERRED"
          /\ l \in Held(d) => /\ record[d].seats = google[l].seats
                              /\ Ours(l) => company[d] = "SUSPENDED"
      BY <1>0, <2>7 DEF Filed
    <3> QED BY <1>0, <1>1, <2>1, <2>2, <2>3, <2>4, <2>5, <3>1 DEF Filed
  <2> QED BY <2>6, <2>7
<1> QED BY <1>2, <1>3 DEF ListOne

LEMMA ListAllFile ==
  ASSUME TypeOK, NEW r \in Requests, ListAll(r)
  PROVE  Picked(r)' /\ (Filed(r) => Filed(r)')
<1> DEFINE d == DomainOf(r)
           l == LocalSub[d]
           held == Held(d)
           seats == SeatsOf(held)
<1>0. /\ pc \in [Requests -> Steps] /\ local \in [Requests -> LocalType]
      /\ local[r] \in LocalType
      /\ pc[r] = "list" /\ Op(r) = "delete" /\ UNCHANGED <<call, google, company, record>>
  BY DEF TypeOK, LocalType, ListAll
<1>1. /\ Op(r)' = Op(r) /\ DomainOf(r)' = d /\ Held(d)' = Held(d)
      /\ Ours(l)' = Ours(l)
  BY <1>0 DEF Op, DomainOf, Held, Ours
<1>2. ASSUME NEW answer, Leave(r, answer)
      PROVE  Picked(r)' /\ (Filed(r) => Filed(r)')
  <2>1. pc'[r] = "unlock"
    BY <1>0, <1>2 DEF Leave, Goto
  <2> QED BY <1>0, <2>1, QuietFile DEF Picked
<1>3. CASE /\ Goto(r, "call")
           /\ local' = [local EXCEPT ![r] =
                [@ EXCEPT !.ids = held, !.current = seats, !.status = "TRANSFERRED"]]
  <2>1. local'[r].ids = Held(d) /\ local'[r].status = "TRANSFERRED" /\ pc'[r] = "call"
    <3> HIDE DEF held, seats
    <3>1. local'[r].ids = held /\ local'[r].status = "TRANSFERRED" /\ pc'[r] = "call"
      BY <1>0, <1>3 DEF LocalType, Goto
    <3> QED BY <3>1 DEF held
  <2>2. Picked(r)'
    BY <1>0, <1>1, <2>1 DEF Picked
  <2>3. ASSUME Filed(r) PROVE Filed(r)'
    BY <1>0, <1>1, <2>1, <2>3 DEF Filed
  <2> QED BY <2>2, <2>3
<1> QED BY <1>2, <1>3 DEF ListAll

(* The counter: it is written between Google and our records.              *)
LEMMA CounterFile ==
  ASSUME TypeOK, NEW r \in Requests, Undo(r) \/ Account(r) \/ CounterRaises(r), Picked(r),
         Deal(r)
  PROVE  Picked(r)' /\ (Filed(r) /\ ~local'[r].lost => Filed(r)')
<1>0. /\ pc \in [Requests -> Steps] /\ local \in [Requests -> LocalType]
      /\ local[r] \in LocalType
      /\ UNCHANGED <<call, google, company, record>>
  BY DEF TypeOK, LocalType, Undo, Account, CounterRaises
<1>1. /\ Op(r)' = Op(r) /\ DomainOf(r)' = DomainOf(r)
      /\ Held(DomainOf(r))' = Held(DomainOf(r)) /\ Target(r)' = Target(r)
      /\ Ours(LocalSub[DomainOf(r)])' = Ours(LocalSub[DomainOf(r)])
  BY <1>0 DEF Op, DomainOf, Held, Ours, Target
<1>2. CASE Undo(r)
  <2>1. pc[r] = "undo" /\ pc'[r] = "unlock" /\ Op(r) = "change"
    BY <1>0, <1>2 DEF Undo, Goto, Deal, Sells
  <2>2. Picked(r)'
    BY <2>1 DEF Picked
  <2>3. ASSUME Filed(r) PROVE Filed(r)'
    BY <1>0, <1>1, <2>1, <2>3 DEF Filed
  <2> QED BY <2>2, <2>3
<1>3. CASE Account(r)
  <2>1. /\ pc[r] = "account" /\ local' = local
        /\ \/ Op(r) = "delete" /\ pc'[r] = "company"
           \/ Op(r) = "change" /\ pc'[r] = "record"
    BY <1>0, <1>3 DEF Account, Goto, Deal
  <2>2. Picked(r)'
    BY <1>0, <1>1, <2>1 DEF Picked
  <2>3. ASSUME Filed(r) PROVE Filed(r)'
    BY <1>0, <1>1, <2>1, <2>3 DEF Filed
  <2> QED BY <2>2, <2>3
<1>4. CASE CounterRaises(r)
  <2>1. pc'[r] = "unlock" /\ local'[r].lost
    BY <1>0, <1>4 DEF CounterRaises, Goto, LocalType
  <2> QED BY <2>1 DEF Picked
<1> QED BY <1>2, <1>3, <1>4

(* Our documents.                                                          *)
LEMMA CompanyFile ==
  ASSUME TypeOK, NEW r \in Requests, UpdateCompany(r), Picked(r), TransferInv
  PROVE  Picked(r)' /\ (Filed(r) /\ r \notin unsaved' => Filed(r)')
<1> DEFINE d == DomainOf(r)
           l == LocalSub[d]
<1>a. /\ pc \in [Requests -> Steps] /\ d \in Domains /\ Op(r) \in Ops
      /\ pc[r] = "company" /\ UNCHANGED <<call, google, record>>
      /\ company \in [Domains -> Statuses]
  BY RequestTypes DEF TypeOK, UpdateCompany
<1>b. CASE r \in unsaved' /\ pc'[r] \in {"record", "unlock"}
  BY <1>b DEF Picked
<1>c. \/ r \in unsaved' /\ pc'[r] \in {"record", "unlock"}
      \/ /\ pc'[r] = "record" /\ local' = local
         /\ company' = [company EXCEPT ![d] = local[r].status]
  BY <1>a DEF UpdateCompany, Saved, Refused, Raised, Leave, Goto
<1> SUFFICES ASSUME pc'[r] = "record", local' = local,
                    company' = [company EXCEPT ![d] = local[r].status]
             PROVE  Picked(r)' /\ (Filed(r) => Filed(r)')
  BY <1>b, <1>c
<1>0. /\ pc \in [Requests -> Steps] /\ d \in Domains /\ Op(r) \in Ops
      /\ pc[r] = "company" /\ pc'[r] = "record" /\ UNCHANGED <<call, google, record, local>>
      /\ company' = [company EXCEPT ![d] = local[r].status] /\ company \in [Domains -> Statuses]
  BY <1>a
<1>1. /\ Op(r)' = Op(r) /\ DomainOf(r)' = d /\ Held(d)' = Held(d)
      /\ Ours(l)' = Ours(l) /\ company'[d] = local[r].status
  BY <1>0 DEF Op, DomainOf, Held, Ours
<1>2. /\ Op(r) # "change"
      /\ Op(r) = "delete" => local[r].status = "TRANSFERRED" /\ Held(d) = {}
      /\ company[d] # "TRANSFERRED"
  BY <1>0 DEF Picked, TransferInv, ForRequest, Before
<1>3. Picked(r)'
  BY <1>0 DEF Picked
<1>4. ASSUME Filed(r) PROVE Filed(r)'
  <2>1. /\ Held(d) \in {{}, Own(d)}
        /\ Held(d) = {} => Op(r) = "delete"
        /\ Op(r) = "suspend" => local[r].status = "SUSPENDED"
        /\ l \in Held(d) => /\ record[d].seats = google[l].seats
                            /\ Op(r) = "activate" => ~Ours(l)
    BY <1>0, <1>2, <1>4 DEF Filed
  <2> QED BY <1>0, <1>1, <1>2, <2>1 DEF Filed, Ops
<1> QED BY <1>3, <1>4

LEMMA RecordFile ==
  ASSUME TypeOK, NEW r \in Requests, UpdateRecord(r)
  PROVE  Picked(r)' /\ (Filed(r) /\ r \notin unsaved' => Filed(r)')
<1> DEFINE d == DomainOf(r)
           l == LocalSub[d]
           new == IF l = NoSub THEN record
                  ELSE IF Op(r) = "change" THEN [record EXCEPT ![d].seats = Target(r)]
                  ELSE [record EXCEPT ![d].status = local[r].status]
<1>a. /\ pc \in [Requests -> Steps] /\ d \in Domains
      /\ record \in [Domains -> [seats: Nat, status: Statuses]]
      /\ pc[r] = "record" /\ UNCHANGED <<call, google, company>>
  BY RequestTypes DEF TypeOK, UpdateRecord
<1>b. CASE r \in unsaved' /\ pc'[r] \in {"audit", "unlock"}
  BY <1>b DEF Picked
<1>c. \/ r \in unsaved' /\ pc'[r] \in {"audit", "unlock"}
      \/ pc'[r] = "audit" /\ local' = local /\ record' = new
  BY <1>a DEF UpdateRecord, Saved, Refused, Raised, Leave, Goto
<1> SUFFICES ASSUME pc'[r] = "audit", local' = local, record' = new
             PROVE  Picked(r)' /\ (Filed(r) => Filed(r)')
  BY <1>b, <1>c
<1>0. /\ pc \in [Requests -> Steps] /\ d \in Domains
      /\ record \in [Domains -> [seats: Nat, status: Statuses]]
      /\ pc[r] = "record" /\ pc'[r] = "audit" /\ UNCHANGED <<call, google, company, local>>
  BY <1>a
<1>1. /\ Op(r)' = Op(r) /\ DomainOf(r)' = d /\ Held(d)' = Held(d)
      /\ Ours(l)' = Ours(l)
  BY <1>0 DEF Op, DomainOf, Held, Ours
<1>2. /\ l \in Held(d) /\ Op(r) = "change" => record'[d].seats = Target(r)
      /\ Op(r) # "change" => record'[d].seats = record[d].seats
  <2>2. l \in Held(d) => l # NoSub
    BY ConstantsAssumption DEF Held
  <2> QED BY <1>0, <2>2
<1>3. Picked(r)'
  BY <1>0 DEF Picked
<1>4. ASSUME Filed(r) PROVE Filed(r)'
  BY <1>0, <1>1, <1>2, <1>4 DEF Filed
<1> QED BY <1>3, <1>4

(* The calls.                                                              *)
LEMMA InHandOfOne ==
  ASSUME TypeOK, NEW r \in Requests, NEW s \in Subs, local[r].ids = {s}, google[s].held
  PROVE  InHand(r) = google[s].seats
<1>1. HeldIn(google, {s}) = {s}
  BY DEF HeldIn
<1>2. google \in [Subs -> GoogleType]
  BY DEF TypeOK, GoogleType
<1> QED BY <1>1, <1>2, SeatsOfOne DEF InHand

LEMMA NothingChangedFile ==
  ASSUME TypeOK, NEW r \in Requests, Numbers(r), Deal(r), Picked(r), Filed(r), pc[r] = "call",
         UNCHANGED <<call, google, company, record>>, Kept(r),
         \/ pc'[r] = "call"
         \/ /\ pc'[r] = IF Sells(r) THEN "undo" ELSE IF Op(r) = "delete" THEN "audit" ELSE "unlock"
            /\ Sells(r) => InHand(r) <= local[r].current
            /\ ~Sells(r) => ~local[r].lost
  PROVE  Filed(r)'
<1> DEFINE d == DomainOf(r)
           l == LocalSub[d]
<1>1. /\ Op(r)' = Op(r) /\ DomainOf(r)' = d /\ Held(d)' = Held(d)
      /\ Ours(l)' = Ours(l) /\ Target(r)' = Target(r)
  BY DEF Op, DomainOf, Held, Ours, Target
<1>2. local'[r].ids = local[r].ids /\ local'[r].current = local[r].current
  BY DEF Kept
<1>3. CASE pc'[r] = "call"
  BY <1>1, <1>2, <1>3 DEF Filed
<1>4. CASE pc'[r] # "call"
  <2>1. l \in Held(d) /\ Op(r) = "change" => InHand(r) = google[l].seats
    BY InHandOfOne DEF Picked, Held
  <2>2. Asking(r)
    BY DEF Deal
  <2>3. Op(r) = "change" => InHand(r) = local[r].current
    BY <1>4, <2>2 DEF Asking, Numbers
  <2> QED BY <1>1, <1>2, <1>4, <2>1, <2>3 DEF Filed, Sells
<1> QED BY <1>3, <1>4

LEMMA FailedFile ==
  ASSUME TypeOK, NEW r \in Requests, Numbers(r), Deal(r), Picked(r), pc[r] = "call",
         UNCHANGED <<call, company, record>>, NEW lost \in BOOLEAN,
         Retry(r, lost) \/ GiveUp(r, lost),
         \A s \in Subs : google'[s].held => google[s].held,
         lost \/ google' = google \/ (Rejected(r) /\ Op(r) = "delete")
  PROVE  Picked(r)' /\ (Filed(r) /\ ~local'[r].lost /\ local'[r].left = 0 => Filed(r)')
<1> DEFINE d == DomainOf(r)
           l == LocalSub[d]
<1>0. pc \in [Requests -> Steps] /\ local \in [Requests -> LocalType] /\ local[r] \in LocalType
  BY DEF TypeOK, LocalType
<1>1. Op(r)' = Op(r) /\ DomainOf(r)' = d
  BY DEF Op, DomainOf
<1>2. Held(d)' \subseteq Held(d)
  BY <1>1 DEF Held
<1>3. Kept(r) /\ (lost => local'[r].lost)
  BY RetryFacts, GiveUpFacts
<1>4. CASE Retry(r, lost)
  <2>1. pc'[r] = "call" /\ local'[r].status = local[r].status
    <3> DEFINE tries == local[r].tries + 1
               lostSoFar == local[r].lost \/ lost
    <3>1. /\ pc' = pc
          /\ local' = [local EXCEPT ![r] =
               [@ EXCEPT !.tries = tries, !.at = local[r].current, !.lost = lostSoFar]]
      BY <1>4, Zenon DEF Retry
    <3> HIDE DEF tries, lostSoFar
    <3> QED BY <1>0, <3>1 DEF LocalType
  <2>2. Picked(r)'
    BY <1>1, <1>2, <1>3, <2>1 DEF Picked, Kept
  <2>3. ASSUME Filed(r), ~local'[r].lost
        PROVE  Filed(r)'
    <3>1. ~local[r].lost /\ ~lost
      BY <1>3, <2>3 DEF Kept
    <3>2. ~(Rejected(r) /\ Op(r) = "delete")
      BY <3>1 DEF Deal, Asking, Rejected
    <3>3. google' = google
      BY <3>1, <3>2
    <3> QED BY <1>3, <2>1, <2>3, <3>3, NothingChangedFile
  <2> QED BY <2>2, <2>3
<1>5. CASE GiveUp(r, lost)
  <2>1. /\ pc'[r] = IF Sells(r) THEN "undo" ELSE IF Op(r) = "delete" THEN "audit" ELSE "unlock"
        /\ Sells(r) => local'[r].left = Minus(Seats(google', HeldIn(google', local[r].ids)),
                                              local[r].current)
    BY <1>5, GiveUpFacts
  <2>2. Picked(r)'
    BY <2>1 DEF Picked
  <2>3. ASSUME Filed(r), ~local'[r].lost, local'[r].left = 0
        PROVE  Filed(r)'
    <3>1. ~local[r].lost /\ ~lost
      BY <1>3, <2>3 DEF Kept
    <3>2. ~(Rejected(r) /\ Op(r) = "delete")
      BY <3>1 DEF Deal, Asking, Rejected
    <3>3. google' = google
      BY <3>1, <3>2
    <3>4. Sells(r) => InHand(r) <= local[r].current
      <4>1. Sells(r) => Minus(InHand(r), local[r].current) = 0
        BY <2>1, <2>3, <3>3 DEF InHand
      <4> QED BY <4>1 DEF Minus, Numbers
    <3> QED BY <1>3, <2>1, <2>3, <3>1, <3>3, <3>4, NothingChangedFile
  <2> QED BY <2>2, <2>3
<1> QED BY <1>4, <1>5

LEMMA CallWorksFile ==
  ASSUME TypeOK, TypeOK', NEW r \in Requests, Numbers(r), Deal(r), Picked(r), CallWorks(r)
  PROVE  Picked(r)' /\ (Filed(r) => Filed(r)')
<1> DEFINE d == DomainOf(r)
           l == LocalSub[d]
           ids == local[r].ids
<1>0. /\ pc \in [Requests -> Steps] /\ local \in [Requests -> LocalType]
      /\ local[r] \in LocalType /\ Op(r) \in Ops
      /\ pc[r] = "call" /\ UNCHANGED <<call, company, record>> /\ google' = Called(r, ids)
      /\ ~Rejected(r)
  BY RequestTypes DEF TypeOK, LocalType, CallWorks
<1>1. Op(r)' = Op(r) /\ DomainOf(r)' = d /\ Target(r)' = Target(r)
  BY <1>0 DEF Op, DomainOf, Target
<1>2. Held(d)' = {s \in Subs : Customer[s] = d /\ google'[s].held}
  BY <1>1 DEF Held
<1>3. Op(r) # "delete" => Held(d)' = Held(d)
  <2>1. Op(r) # "delete" => \A s \in Subs : google'[s].held = google[s].held
    <3>1. ASSUME NEW s \in Subs, Op(r) # "delete"
          PROVE  google'[s].held = google[s].held
      BY <1>0, <3>1, CalledOne DEF Ops
    <3> QED BY <3>1
  <2> QED BY <1>2, <2>1 DEF Held
<1>4. l \in Held(d) /\ Op(r) # "delete" => ids = {l} /\ l \in Subs
  BY <1>0 DEF Picked, Held
<1>5. Op(r) = "delete" /\ ids = Held(d) => Held(d)' = {}
  <2> SUFFICES ASSUME Op(r) = "delete", ids = Held(d), NEW s \in Subs,
                      Customer[s] = d, google'[s].held
               PROVE  FALSE
    BY <1>2
  <2>1. s \notin ids
    BY <1>0, CalledOne
  <2>2. google'[s] = google[s]
    BY <1>0, <2>1, CalledOne
  <2> QED BY <2>1, <2>2 DEF Held
<1>6. /\ l \in Held(d) /\ Op(r) = "change" => /\ google'[l].seats = NextSeats(r)
                                              /\ Ours(l)' = Ours(l)
      /\ l \in Held(d) /\ Op(r) \in {"suspend", "activate"} => google'[l].seats = google[l].seats
      /\ l \in Held(d) /\ Op(r) = "activate" => ~Ours(l)'
  <2>1. l \in Held(d) /\ Op(r) # "delete" => l \in ids /\ l \in Subs
    BY <1>4
  <2> QED BY <1>0, <1>1, <2>1, CalledOne DEF Ours
<1>7. CASE Op(r) = "change" /\ NextSeats(r) # Target(r)
  <2>1. pc' = pc /\ local' = [local EXCEPT ![r].at = NextSeats(r)]
    BY <1>7 DEF CallWorks
  <2>2. local'[r].ids = ids /\ local'[r].current = local[r].current
    BY <1>0, <2>1 DEF LocalType
  <2>3. Picked(r)'
    BY <1>0, <1>1, <1>3, <1>7, <2>1, <2>2 DEF Picked
  <2>4. ASSUME Filed(r) PROVE Filed(r)'
    BY <1>0, <1>1, <1>3, <1>6, <1>7, <2>1, <2>2, <2>4 DEF Filed
  <2> QED BY <2>3, <2>4
<1>8. CASE Op(r) = "change" => NextSeats(r) = Target(r)
  <2>1. /\ pc'[r] = AfterCall(r)
        /\ local'[r].status = IF Op(r) \in {"suspend", "activate"}
                              THEN StatusOf(UNION {google'[s].reasons : s \in ids})
                              ELSE local[r].status
    <3> DEFINE st == IF Op(r) \in {"suspend", "activate"}
                     THEN StatusOf(UNION {google'[s].reasons : s \in ids}) ELSE local[r].status
    <3>1. pc' = [pc EXCEPT ![r] = AfterCall(r)] /\ local' = [local EXCEPT ![r].status = st]
      BY <1>8 DEF CallWorks, Goto
    <3> HIDE DEF st
    <3>2. pc'[r] = AfterCall(r) /\ local'[r].status = st
      BY <1>0, <3>1 DEF LocalType
    <3> QED BY <3>2 DEF st
  <2>2. /\ Op(r) \in {"suspend", "activate"} => pc'[r] = "company"
        /\ Op(r) = "delete" => pc'[r] = "account"
        /\ Op(r) = "change" => pc'[r] \in {"account", "record"}
    BY <2>1 DEF AfterCall
  <2>3. Op(r) = "suspend" => local'[r].status = "SUSPENDED"
    <3> SUFFICES ASSUME Op(r) = "suspend"
                 PROVE  local'[r].status = "SUSPENDED"
      OBVIOUS
    <3>1. PICK s \in Subs : ids = {s}
      BY <1>0 DEF Deal
    <3>2. "RESELLER" \in google'[s].reasons
      BY <1>0, <3>1, CalledOne
    <3>3. UNION {google'[t].reasons : t \in ids} # {}
      BY <3>1, <3>2
    <3> QED BY <2>1, <3>3 DEF StatusOf
  <2>4. Picked(r)'
    BY <1>0, <1>1, <2>1, <2>2 DEF Picked, Ops
  <2>5. ASSUME Filed(r) PROVE Filed(r)'
    <3>1. CASE Op(r) = "delete"
      BY <1>0, <1>1, <1>5, <2>2, <2>5, <3>1 DEF Filed
    <3>2. CASE Op(r) # "delete"
      <4>1. /\ Held(d) \in {{}, Own(d)}
            /\ Held(d) = {} => company[d] = "TRANSFERRED"
            /\ l \in Held(d) =>
                 /\ Op(r) # "change" => record[d].seats = google[l].seats
                 /\ Ours(l) => company[d] = "SUSPENDED"
        BY <1>0, <2>5, <3>2 DEF Filed
      <4> QED BY <1>0, <1>1, <1>3, <1>6, <1>8, <2>2, <2>3, <3>2, <4>1 DEF Filed, Ops
    <3> QED BY <3>1, <3>2
  <2> QED BY <2>4, <2>5
<1> QED BY <1>7, <1>8

(* A step of the request that is at work on its domain.                    *)
LEMMA OwnFile ==
  ASSUME Shape, TypeOK, TypeOK', NEW r \in Requests, Numbers(r), Deal(r), TransferInv,
         Picked(r), Step(r), pc[r] \in Inside
  PROVE  /\ Picked(r)'
         /\ Filed(r) /\ ~local'[r].lost /\ local'[r].left = 0 /\ r \notin unsaved' => Filed(r)'
<1>0. pc \in [Requests -> Steps]
  BY DEF TypeOK
<1>1. CASE OwnedCompany(r) \/ ListFails(r) \/ Audit(r)
  <2>1. /\ UNCHANGED <<call, google, company, record>>
        /\ pc[r] \in {"owned", "list", "reserve", "audit"}
        /\ pc'[r] \in {"list", "unlock"}
    BY <1>0, <1>1 DEF OwnedCompany, ListFails, Audit, Leave, Goto
  <2> QED BY <2>1, QuietFile DEF Picked
<1>2. CASE Reserve(r)
  <2>1. /\ UNCHANGED <<call, google, company, record>> /\ pc[r] = "reserve"
        /\ pc'[r] = "unlock" \/ (pc'[r] = "call" /\ local' = local)
        /\ Op(r) = "change"
    BY <1>0, <1>2 DEF Reserve, Leave, Goto, Deal, Sells
  <2>2. Held(DomainOf(r))' = Held(DomainOf(r)) /\ Op(r)' = Op(r) /\ DomainOf(r)' = DomainOf(r)
    BY <2>1 DEF Held, Op, DomainOf
  <2>3. Picked(r)'
    BY <2>1, <2>2 DEF Picked
  <2> QED BY <2>1, <2>3, QuietFile, ReservedFile
<1>3. CASE CallRejected(r) \/ CallFails(r) \/ CallLost(r)
  <2>1. pc[r] = "call" /\ UNCHANGED <<call, company, record>>
    BY <1>3 DEF CallRejected, CallFails, CallLost
  <2>2. \A s \in Subs : google'[s].held => google[s].held
    BY StepGoogle, CalledShape
  <2>3. \E lost \in BOOLEAN : /\ Retry(r, lost) \/ GiveUp(r, lost)
                              /\ lost \/ google' = google \/ (Rejected(r) /\ Op(r) = "delete")
    BY <1>3 DEF CallRejected, CallFails, CallLost
  <2> QED BY <2>1, <2>2, <2>3, FailedFile
<1>4. ~Acquire(r) /\ ~Busy(r) /\ ~Unlock(r)
  BY DEF Acquire, Busy, Unlock, Inside
<1> QED BY <1>1, <1>2, <1>3, <1>4, ListOneFile, ListAllFile, CallWorksFile, CounterFile,
           CompanyFile, RecordFile DEF Step

(* Where a step leaves a domain alone, its documents go on agreeing.       *)
Stays(d) ==
  /\ company'[d] = company[d] /\ record'[d] = record[d]
  /\ \A s \in Subs : Customer[s] = d =>
       /\ google'[s].held = google[s].held /\ google'[s].seats = google[s].seats
       /\ Ours(s)' <=> Ours(s)

LEMMA SettledStays ==
  ASSUME NEW d \in Domains, Stays(d)
  PROVE  Held(d)' = Held(d) /\ (Settled(d) => Settled(d)')
<1>1. Held(d)' = Held(d)
  BY DEF Held, Stays
<1>2. LocalSub[d] \in Held(d) => LocalSub[d] \in Subs /\ Customer[LocalSub[d]] = d
  BY DEF Held
<1> QED BY <1>1, <1>2 DEF Settled, Stays

LEMMA FiledStays ==
  ASSUME NEW q \in Requests, DomainOf(q) \in Domains, call' = call,
         pc'[q] = pc[q], local'[q] = local[q], Stays(DomainOf(q))
  PROVE  (Picked(q) => Picked(q)') /\ (Filed(q) => Filed(q)')
<1> DEFINE d == DomainOf(q)
           l == LocalSub[d]
<1>1. Op(q)' = Op(q) /\ DomainOf(q)' = d /\ Target(q)' = Target(q)
  BY DEF Op, DomainOf, Target
<1>2. Held(d)' = Held(d)
  BY <1>1, SettledStays
<1>3. l \in Held(d) => google'[l].seats = google[l].seats /\ (Ours(l)' <=> Ours(l))
  BY <1>1 DEF Held, Stays, Ours
<1>4. company'[d] = company[d] /\ record'[d] = record[d]
  BY DEF Stays
<1>5. Picked(q) => Picked(q)'
  BY <1>1, <1>2 DEF Picked
<1>6. Filed(q) => Filed(q)'
  BY <1>1, <1>2, <1>3, <1>4 DEF Filed
<1> QED BY <1>5, <1>6

(* r stays outside, or is not a request for d; the others do not move.     *)
LEMMA FileStays ==
  ASSUME Shape, NEW d \in Domains, call' = call, Stays(d), FileOf(d),
         \A q \in Requests : DomainOf(q) = d =>
           \/ pc'[q] = pc[q] /\ local'[q] = local[q]
           \/ pc[q] \notin Inside /\ pc'[q] \notin Inside
  PROVE  FileOf(d)'
<1>1. \A q \in Requests : DomainOf(q)' = DomainOf(q)
  BY DEF DomainOf
<1>2. Vacant(d)' => Vacant(d)
  BY <1>1 DEF Vacant
<1>3. Vacant(d)' => Settled(d)'
  BY <1>2, SettledStays DEF FileOf
<1>4. ASSUME NEW q \in Requests, DomainOf(q)' = d, pc'[q] \in Inside
      PROVE  Filed(q)'
  <2>1. DomainOf(q) = d /\ pc'[q] = pc[q] /\ local'[q] = local[q]
    BY <1>1, <1>4
  <2> QED BY <1>4, <2>1, FiledStays DEF FileOf
<1> QED BY <1>3, <1>4 DEF FileOf

LEMMA RecordElsewhere ==
  ASSUME TypeOK, NEW r \in Requests, Step(r)
  PROVE  \A d \in Domains \ {DomainOf(r)} : record'[d] = record[d]
<1>1. CASE UNCHANGED record
  BY <1>1
<1>2. CASE UpdateRecord(r)
  <2>1. DomainOf(r) \in Domains /\ record \in [Domains -> [seats: Nat, status: Statuses]]
    BY RequestTypes DEF TypeOK
  <2> QED BY <1>2, <2>1 DEF UpdateRecord
<1> QED
  BY <1>1, <1>2 DEF Step, Acquire, Busy, OwnedCompany, ListOne, ListAll, ListFails, Reserve,
    CallWorks, CallRejected, CallFails, CallLost, Undo, Account, CounterRaises, UpdateCompany,
    Audit, Unlock

LEMMA StepStays ==
  ASSUME Shape, TypeOK, NEW r \in Requests, Step(r), Deal(r),
         NEW d \in Domains \ {DomainOf(r)}
  PROVE  Stays(d)
<1>1. company'[d] = company[d]
  <2>1. CASE company' = company
    BY <2>1
  <2>2. CASE company' # company
    BY <2>2, CompanyMarked DEF Shape
  <2> QED BY <2>1, <2>2
<1>2. record'[d] = record[d]
  BY RecordElsewhere
<1>3. ASSUME NEW s \in Subs, Customer[s] = d
      PROVE  google'[s] = google[s]
  <2>1. CASE google' = google
    BY <2>1
  <2>2. CASE pc[r] = "call" /\ \E ids \in SUBSET local[r].ids : google' = Called(r, ids)
    <3>1. s \notin local[r].ids
      BY <1>3, <2>2 DEF Deal, Own
    <3> QED BY <2>2, <3>1, CalledShape
  <2> QED BY <2>1, <2>2, StepGoogle
<1> QED BY <1>1, <1>2, <1>3 DEF Stays, Ours

LEMMA UnsavedGrows ==
  ASSUME NEW r \in Requests, Step(r)
  PROVE  unsaved \subseteq unsaved'
  BY DEF Step, Acquire, Busy, OwnedCompany, ListOne, ListAll, ListFails, Reserve, CallWorks,
    CallRejected, CallFails, CallLost, Undo, Account, CounterRaises, UpdateCompany,
    UpdateRecord, Saved, Refused, Raised, Audit, Unlock, history

LEMMA CleanBefore ==
  ASSUME Shape, TypeOK, TypeOK', Owners, AuditInv, DealInv, NumbersInv, NumbersInv',
         NEW r \in Requests, Step(r), NEW d \in Domains, Clean(d)'
  PROVE  /\ Clean(d)
         /\ d = DomainOf(r) => ~local'[r].lost /\ local'[r].left = 0 /\ r \notin unsaved'
<1>1. /\ Books(r)
      /\ \A q \in Requests \ {r} : pc'[q] = pc[q] /\ local'[q] = local[q]
  BY StepSums
<1>2. call' = call /\ pc[r] # "dead"
  BY StepMoves DEF Acquire, Busy, Unlock, Moves, Inside
<1>3. \A q \in Requests : DomainOf(q)' = DomainOf(q)
  BY <1>2 DEF DomainOf
<1>4. d = DomainOf(r) => ~local'[r].lost /\ local'[r].left = 0 /\ r \notin unsaved'
  BY <1>3 DEF Clean
<1>5. d = DomainOf(r) => ~local[r].lost /\ local[r].left = 0 /\ r \notin unsaved
  BY <1>1, <1>4, UnsavedGrows DEF Books, NumbersInv, Numbers
<1>6. ASSUME NEW q \in Requests, DomainOf(q) = d
      PROVE  pc[q] # "dead" /\ ~local[q].lost /\ local[q].left = 0 /\ q \notin unsaved
  <2>1. CASE q = r
    BY <1>2, <1>5, <1>6, <2>1
  <2>2. CASE q # r
    BY <1>1, <1>3, <1>6, <2>2, UnsavedGrows DEF Clean
  <2> QED BY <2>1, <2>2
<1> QED BY <1>4, <1>6 DEF Clean

(* The domain that r works on.                                             *)
LEMMA OwnDomainFile ==
  ASSUME Shape, TypeOK, TypeOK', Owners, AuditInv, DealInv, NumbersInv, NumbersInv', TransferInv,
         FileInv, NEW r \in Requests, Step(r), Clean(DomainOf(r))'
  PROVE  FileOf(DomainOf(r))'
<1> DEFINE d == DomainOf(r)
<1>0. /\ d \in Domains /\ pc \in [Requests -> Steps]
      /\ \A q \in Requests \ {r} : pc'[q] = pc[q] /\ local'[q] = local[q]
  BY RequestTypes, StepSums DEF TypeOK
<1>1. call' = call /\ d' = d
  BY StepMoves DEF Acquire, Busy, Unlock, Moves, DomainOf
<1>2. Clean(d)'
  BY <1>1
<1>3. FileOf(d) /\ ~local'[r].lost /\ local'[r].left = 0 /\ r \notin unsaved'
  <2>1. ASSUME NEW e \in Domains, e = d
        PROVE  FileOf(e) /\ ~local'[r].lost /\ local'[r].left = 0 /\ r \notin unsaved'
    <3>1. Clean(e)'
      BY <1>1, <1>2, <2>1
    <3> QED BY <2>1, <3>1, CleanBefore DEF FileInv
  <2> QED BY <1>0, <2>1
<1>4. \A q \in Requests : DomainOf(q)' = DomainOf(q)
  BY <1>1 DEF DomainOf
<1>5. CASE Busy(r) \/ Unlock(r)
  <2>1. /\ pc[r] \notin Inside /\ pc'[r] \notin Inside
        /\ UNCHANGED <<google, company, record>>
    BY <1>0, <1>5 DEF Busy, Unlock, Goto, Inside, Answers, Shape, LocalShape
  <2>2. Stays(d)
    BY <2>1 DEF Stays, Ours
  <2>3. FileOf(d)'
    BY <1>0, <1>1, <1>3, <2>1, <2>2, FileStays
  <2> QED BY <1>1, <2>3
<1>6. CASE Acquire(r)
  <2>1. /\ pc[r] = "start" /\ pc'[r] = "owned" /\ ~lock[d].live
        /\ UNCHANGED <<google, company, record>>
    BY <1>0, <1>6 DEF Acquire, Goto
  <2>2. \A q \in Requests : DomainOf(q) = d => pc[q] \notin Inside
    BY <2>1 DEF Owners, Running
  <2>3. Settled(d)
    BY <1>3, <2>2 DEF FileOf, Vacant
  <2>4. /\ Op(r)' = Op(r) /\ Held(d)' = Held(d) /\ Ours(LocalSub[d])' = Ours(LocalSub[d])
    BY <1>1, <2>1 DEF Op, Held, Ours
  <2>5. Filed(r)'
    BY <1>1, <2>1, <2>3, <2>4 DEF Filed, Settled
  <2>6. \A q \in Requests : DomainOf(q)' = d /\ pc'[q] \in Inside => q = r
    BY <1>0, <1>4, <2>2
  <2>7. ~Vacant(d)'
    BY <1>1, <2>1 DEF Vacant, Inside
  <2> QED BY <1>1, <2>5, <2>6, <2>7 DEF FileOf
<1>7. CASE Moves(r)
  <2>1. pc[r] \in Inside /\ pc'[r] \in Inside \cup {"unlock"}
    BY <1>0, <1>7 DEF Moves
  <2>2. Filed(r) /\ Picked(r) /\ Numbers(r) /\ Deal(r)
    BY <1>3, <2>1 DEF FileOf, FileInv, NumbersInv, DealInv
  <2>3. Filed(r)'
    BY <1>3, <2>1, <2>2, OwnFile
  <2>4. ASSUME NEW q \in Requests \ {r}, DomainOf(q) = d
        PROVE  pc[q] \notin Inside
    BY <2>1, <2>4, OwnersAlone DEF Running
  <2>5. \A q \in Requests : DomainOf(q)' = d /\ pc'[q] \in Inside => q = r
    BY <1>0, <1>4, <2>4
  <2>6. Vacant(d)' => pc'[r] = "unlock"
    BY <1>1, <2>1 DEF Vacant
  <2>7. Vacant(d)' => Settled(d)'
    BY <1>1, <2>3, <2>6 DEF Filed, Settled
  <2> QED BY <1>1, <2>3, <2>5, <2>7 DEF FileOf
<1> QED BY <1>5, <1>6, <1>7, StepMoves

LEMMA PickedElsewhere ==
  ASSUME NEW q \in Requests, pc'[q] \notin Inside
  PROVE  Picked(q)'
  BY DEF Picked, Inside

LEMMA FileStep ==
  ASSUME Shape, TypeOK, TypeOK', Owners, AuditInv, DealInv, NumbersInv, NumbersInv', TransferInv,
         FileInv, [Next]_vars
  PROVE  FileInv'
<1>0. \A q \in Requests : DomainOf(q) \in Domains
  BY RequestTypes
<1>1. ASSUME UNCHANGED <<call, pc, local, unsaved>>, \A d \in Domains : Stays(d)
      PROVE  FileInv'
  <2>1. \A q \in Requests : Picked(q)'
    BY <1>0, <1>1, FiledStays DEF FileInv
  <2>2. ASSUME NEW d \in Domains, Clean(d)'
        PROVE  FileOf(d)'
    <3>1. Clean(d)
      BY <1>1, <2>2 DEF Clean, DomainOf
    <3> QED BY <1>1, <3>1, FileStays DEF FileInv
  <2> QED BY <2>1, <2>2 DEF FileInv
<1>2. CASE UNCHANGED vars
  BY <1>1, <1>2 DEF vars, Stays, Ours
<1>3. ASSUME NEW d \in Domains, LockExpires(d)
      PROVE  FileInv'
  BY <1>1, <1>3 DEF LockExpires, Stays, Ours, history
<1>4. ASSUME NEW s \in Subs, GoogleActs(s)
      PROVE  FileInv'
  <2>1. PICK reasons \in {google[s].reasons \cup {"GOOGLE"}, google[s].reasons \ {"GOOGLE"}} :
          google' = [google EXCEPT ![s].reasons = reasons]
    BY <1>4 DEF GoogleActs
  <2>2. google \in [Subs -> GoogleType]
    BY DEF TypeOK, GoogleType
  <2>3. "RESELLER" \in reasons <=> Ours(s)
    BY <2>1 DEF Ours
  <2>4. google'[s].held = google[s].held /\ google'[s].seats = google[s].seats
        /\ google'[s].reasons = reasons
    BY <2>1, <2>2 DEF GoogleType
  <2>5. \A t \in Subs \ {s} : google'[t] = google[t]
    BY <2>1, <2>2
  <2>6. UNCHANGED <<call, pc, local, company, record, unsaved>>
    BY <1>4 DEF GoogleActs, history
  <2>7. \A d \in Domains : Stays(d)
    BY <2>3, <2>4, <2>5, <2>6 DEF Stays, Ours
  <2> QED BY <1>1, <2>6, <2>7
<1>5. ASSUME NEW r \in Requests, Crash(r)
      PROVE  FileInv'
  <2>1. /\ UNCHANGED <<call, local, google, company, record, unsaved>>
        /\ pc' = [pc EXCEPT ![r] = "dead"]
    BY <1>5 DEF Crash, Goto, history
  <2>2. pc'[r] = "dead" /\ \A q \in Requests \ {r} : pc'[q] = pc[q]
    BY <2>1 DEF Shape
  <2>3. \A d \in Domains : Stays(d)
    BY <2>1 DEF Stays, Ours
  <2>4. \A q \in Requests : DomainOf(q)' = DomainOf(q)
    BY <2>1 DEF DomainOf
  <2>5. \A q \in Requests : Picked(q)'
    <3>1. Picked(r)'
      BY <2>2, PickedElsewhere DEF Inside
    <3>2. ASSUME NEW q \in Requests \ {r}
          PROVE  Picked(q)'
      BY <1>0, <2>1, <2>2, <2>3, FiledStays DEF FileInv
    <3> QED BY <3>1, <3>2
  <2>6. ASSUME NEW d \in Domains, Clean(d)'
        PROVE  FileOf(d)'
    <3>1. DomainOf(r) # d
      BY <2>2, <2>4, <2>6 DEF Clean
    <3>2. Clean(d)
      BY <2>1, <2>2, <2>4, <2>6, <3>1 DEF Clean
    <3>3. \A q \in Requests : DomainOf(q) = d => pc'[q] = pc[q] /\ local'[q] = local[q]
      BY <2>1, <2>2, <3>1
    <3> QED BY <2>1, <2>3, <3>2, <3>3, FileStays DEF FileInv
  <2> QED BY <2>5, <2>6 DEF FileInv
<1>6. ASSUME NEW r \in Requests, Step(r)
      PROVE  FileInv'
  <2>1. Numbers(r) /\ Deal(r) /\ Picked(r)
    BY DEF NumbersInv, DealInv, FileInv
  <2>2. call' = call
    BY <1>6, StepMoves DEF Acquire, Busy, Unlock, Moves
  <2>3. \A q \in Requests \ {r} : pc'[q] = pc[q] /\ local'[q] = local[q]
    BY <1>6, StepSums
  <2>4. \A d \in Domains \ {DomainOf(r)} : Stays(d)
    BY <1>6, <2>1, StepStays
  <2>5. Picked(r)'
    <3>1. CASE pc[r] \in Inside
      BY <1>6, <2>1, <3>1, OwnFile
    <3>2. CASE Acquire(r) \/ Busy(r) \/ Unlock(r)
      <4>1. pc'[r] \in {"owned", "refused"} \cup Answers
        BY <3>2 DEF Acquire, Busy, Unlock, Goto, Shape, LocalShape
      <4> QED BY <4>1 DEF Picked, Answers
    <3> QED BY <1>6, <3>1, <3>2, StepMoves DEF Moves
  <2>6. ASSUME NEW q \in Requests \ {r}
        PROVE  Picked(q)'
    <3>1. CASE DomainOf(q) # DomainOf(r)
      BY <1>0, <2>2, <2>3, <2>4, <3>1, FiledStays DEF FileInv
    <3>2. CASE pc[q] \notin Inside
      BY <2>3, <3>2, PickedElsewhere
    <3>3. CASE DomainOf(q) = DomainOf(r) /\ pc[q] \in Inside
      <4>1. pc[r] \notin Inside \cup {"unlock"}
        BY <3>3, OwnersAlone DEF Running
      <4>2. CASE Busy(r)
        <5>1. Stays(DomainOf(q))
          BY <4>2 DEF Busy, Stays, Ours
        <5> QED BY <1>0, <2>2, <2>3, <5>1, FiledStays DEF FileInv
      <4>3. ~Acquire(r)
        BY <3>3 DEF Acquire, Owners, Running
      <4>4. ~Unlock(r) /\ ~Moves(r)
        BY <4>1 DEF Unlock, Moves
      <4> QED BY <1>6, <4>2, <4>3, <4>4, StepMoves
    <3> QED BY <3>1, <3>2, <3>3
  <2>7. ASSUME NEW d \in Domains, Clean(d)'
        PROVE  FileOf(d)'
    <3>1. CASE d = DomainOf(r)
      <4>1. DomainOf(r)' = DomainOf(r)
        BY <2>2 DEF DomainOf
      <4>2. Clean(DomainOf(r))'
        BY <2>7, <3>1, <4>1
      <4> QED BY <1>6, <3>1, <4>1, <4>2, OwnDomainFile
    <3>2. CASE d # DomainOf(r)
      <4>1. Clean(d)
        BY <1>6, <2>7, CleanBefore
      <4>2. \A q \in Requests : DomainOf(q) = d => pc'[q] = pc[q] /\ local'[q] = local[q]
        BY <2>3, <3>2
      <4> QED BY <2>2, <2>4, <3>2, <4>1, <4>2, FileStays DEF FileInv
    <3> QED BY <3>1, <3>2
  <2> QED BY <2>5, <2>6, <2>7 DEF FileInv
<1> QED BY <1>2, <1>3, <1>4, <1>5, <1>6 DEF Next

LEMMA FileInit ==
  ASSUME Init, \A d \in Domains : Own(d) # {}
  PROVE  FileInv
<1>1. \A r \in Requests : pc[r] = "start"
  BY DEF Init
<1>2. \A r \in Requests : Picked(r)
  BY <1>1 DEF Picked
<1>3. ASSUME NEW d \in Domains
      PROVE  FileOf(d)
  <2>1. \A s \in Subs : google[s] = [held |-> TRUE, seats |-> InitialSeats[s], reasons |-> {}]
    BY DEF Init
  <2>2. Held(d) = Own(d) /\ Own(d) # {}
    <3>1. ASSUME NEW s \in Subs
          PROVE  google[s].held
      <4>1. google[s] = [held |-> TRUE, seats |-> InitialSeats[s], reasons |-> {}]
        BY <2>1
      <4>2. [held |-> TRUE, seats |-> InitialSeats[s], reasons |-> {}].held
        BY Zenon
      <4> QED BY <4>1, <4>2, Zenon
    <3>2. Held(d) = Own(d)
      BY <3>1 DEF Held, Own
    <3> QED BY <3>2
  <2>3. LocalSub[d] \in Held(d) =>
          record[d].seats = google[LocalSub[d]].seats /\ ~Ours(LocalSub[d])
    <3> SUFFICES ASSUME LocalSub[d] \in Held(d)
                 PROVE  record[d].seats = google[LocalSub[d]].seats /\ ~Ours(LocalSub[d])
      OBVIOUS
    <3>1. LocalSub[d] \in Subs /\ LocalSub[d] # NoSub
      BY ConstantsAssumption DEF Held
    <3>2. record[d] = [seats |-> InitialSeats[LocalSub[d]], status |-> "ACTIVE"]
      BY <3>1 DEF Init
    <3>3. google[LocalSub[d]] = [held |-> TRUE, seats |-> InitialSeats[LocalSub[d]],
                                 reasons |-> {}]
      BY <2>1, <3>1
    <3>4. google[LocalSub[d]].seats = InitialSeats[LocalSub[d]]
      BY <3>3
    <3>5. google[LocalSub[d]].reasons = {}
      BY <3>3
    <3> QED BY <3>2, <3>4, <3>5 DEF Ours
  <2>4. Settled(d)
    BY <2>2, <2>3 DEF Settled
  <2> QED BY <1>1, <2>4 DEF FileOf, Inside
<1> QED BY <1>2, <1>3 DEF FileInv

(* plan_breakdown counts our documents, and these are one for each of the  *)
(* subscriptions that Google holds and we know of.                         *)
LEMMA BreakdownFollows ==
  ASSUME TypeOK, TransferInv, \A d \in Domains : Settled(d),
         \A d \in Domains : LocalSub[d] # NoSub => Customer[LocalSub[d]] = d,
         NEW plan
  PROVE  LET named == {s \in Subs : google[s].held /\ LocalSub[Customer[s]] = s
                                    /\ Plan[s] = plan} IN
           PlanBreakdown(plan) = [total |-> Cardinality(named), licences |-> SeatsOf(named)]
<1> DEFINE named == {s \in Subs : google[s].held /\ LocalSub[Customer[s]] = s /\ Plan[s] = plan}
           counted == {d \in Domains : /\ company[d] # "TRANSFERRED" /\ LocalSub[d] # NoSub
                                       /\ Plan[LocalSub[d]] = plan}
           h == [d \in counted |-> LocalSub[d]]
           f == [s \in named |-> google[s].seats]
           g == [d \in counted |-> record[d].seats]
<1>1. /\ IsFiniteSet(counted) /\ IsFiniteSet(named)
      /\ Customer \in [Subs -> Domains] /\ LocalSub \in [Domains -> Subs \cup {NoSub}]
      /\ record \in [Domains -> [seats: Nat, status: Statuses]]
  BY ConstantsAssumption, FS_Subset DEF TypeOK
<1>2. ASSUME NEW d \in counted
      PROVE  /\ LocalSub[d] \in named /\ Customer[LocalSub[d]] = d
             /\ google[LocalSub[d]].seats = record[d].seats /\ record[d].seats \in Int
  <2>1. LocalSub[d] \in Own(d) /\ Customer[LocalSub[d]] = d
    BY <1>1 DEF Own
  <2>2. Held(d) = Own(d)
    BY DEF Settled
  <2>3. LocalSub[d] \in Held(d)
    BY <2>1, <2>2
  <2>4. google[LocalSub[d]].seats = record[d].seats
    BY <2>3 DEF Settled
  <2> QED BY <1>1, <2>1, <2>3, <2>4 DEF Held
<1>3. ASSUME NEW s \in named
      PROVE  Customer[s] \in counted /\ h[Customer[s]] = s
  <2>1. /\ Customer[s] \in Domains /\ s \in Held(Customer[s]) /\ LocalSub[Customer[s]] = s
        /\ s # NoSub /\ Plan[s] = plan
    BY <1>1, ConstantsAssumption DEF Held
  <2>2. company[Customer[s]] # "TRANSFERRED"
    BY <2>1 DEF TransferInv
  <2> QED BY <2>1, <2>2
<1>4. /\ h \in [counted -> named]
      /\ \A d, e \in counted : h[d] = h[e] => d = e
      /\ {h[d] : d \in counted} = named
  <2>1. \A d \in counted : h[d] = LocalSub[d] /\ h[d] \in named /\ Customer[h[d]] = d
    BY <1>2
  <2>2. \A s \in named : \E d \in counted : h[d] = s
    BY <1>3
  <2>3. h \in [counted -> named]
    BY <2>1
  <2> HIDE DEF counted, named, h
  <2>4. \A d, e \in counted : h[d] = h[e] => d = e
    BY <2>1
  <2>5. {h[d] : d \in counted} = named
    BY <2>1, <2>2
  <2> QED BY <2>3, <2>4, <2>5
<1>5. Cardinality(named) = Cardinality(counted)
  <2>1. h \in Bijection(counted, named)
    BY <1>3, <1>4 DEF Bijection, Injection, Surjection, IsInjective
  <2> HIDE DEF counted, named, h
  <2> QED BY <1>1, <2>1, FS_Bijection DEF ExistsBijection
<1>6. \A d \in counted : g[d] \in Int /\ f[h[d]] = g[d]
  BY <1>2
<1>7. SumFunctionOnSet(f, named) = SumFunctionOnSet(g, counted)
  <2>1. /\ IsFiniteSet(counted)
        /\ \A d, e \in counted : h[d] = h[e] => d = e
        /\ \A d \in counted : g[d] \in Int /\ f[h[d]] = g[d]
    BY <1>1, <1>4, <1>6
  <2>2. {h[d] : d \in counted} = named
    BY <1>4
  <2> HIDE DEF counted, named, h, f, g
  <2>3. SumFunctionOnSet(f, {h[d] : d \in counted}) = SumFunctionOnSet(g, counted)
    BY <2>1, SumOfImage
  <2> QED BY <2>2, <2>3
<1>8. PlanBreakdown(plan) = [total |-> Cardinality(counted),
                             licences |-> SumFunctionOnSet(g, counted)]
  BY DEF PlanBreakdown
<1>9. SeatsOf(named) = SumFunctionOnSet(f, named)
  BY DEF SeatsOf
<1> QED BY <1>5, <1>7, <1>8, <1>9

(* RecordFollowsGoogle: whatever the actions on a domain were and in which *)
(* order they came, once they are answered, their outcomes were seen and   *)
(* no write of a document was refused or raised, the company and the       *)
(* subscription document say what Google holds, and plan_breakdown counts  *)
(* it.  Each domain has a subscription at Google to begin with, and the    *)
(* one that our document names is the domain's.                            *)
THEOREM DocumentsFollow ==
  ASSUME "late" \notin Faults,
         \A d \in Domains : \E s \in Subs : Customer[s] = d,
         \A d \in Domains : LocalSub[d] # NoSub => Customer[LocalSub[d]] = d
  PROVE  Spec => []RecordFollowsGoogle
<1> DEFINE J == Shape /\ Owners /\ TransferInv
<1>0. \A d \in Domains : Own(d) # {}
  BY DEF Own
<1>1. Init => J /\ FileInv
  <2>1. Init => Owners
    BY DEF Init, Owners, Running, Inside
  <2> QED BY <1>0, <2>1, ShapeInit, TransferInit, FileInit
<1>2. J /\ [Next]_vars => J'
  BY ShapeStep, OwnersStep, TransferStep
<1>3. TypeOK => NumbersInv
  BY NumbersHold DEF NumbersInv
<1>4. /\ J /\ FileInv /\ [Next]_vars
      /\ BookKeeping /\ TypeOK /\ TypeOK' /\ NumbersInv /\ NumbersInv'
      => FileInv'
  BY FileStep DEF BookKeeping
<1>5. TypeOK /\ J /\ FileInv => RecordFollowsGoogle
  <2> SUFFICES ASSUME TypeOK, TransferInv, FileInv
               PROVE  RecordFollowsGoogle
    OBVIOUS
  <2>1. ASSUME NEW d \in Domains, AllSeen(d)
        PROVE  Settled(d)
    <3>1. Clean(d) /\ Vacant(d)
      BY <2>1 DEF AllSeen, Clean, Vacant, Inside, Answers
    <3> QED BY <3>1 DEF FileInv, FileOf
  <2>2. ASSUME NEW d \in Domains, AllSeen(d)
        PROVE  /\ company[d] = "TRANSFERRED" <=> Held(d) = {}
               /\ LocalSub[d] \in Held(d) =>
                    /\ record[d].seats = google[LocalSub[d]].seats
                    /\ Ours(LocalSub[d]) => company[d] = "SUSPENDED"
    BY <2>1, <2>2 DEF Settled, TransferInv
  <2>3. ASSUME \A d \in Domains : AllSeen(d), NEW plan
        PROVE  LET named == {s \in Subs : google[s].held /\ LocalSub[Customer[s]] = s
                                          /\ Plan[s] = plan} IN
                 PlanBreakdown(plan) = [total |-> Cardinality(named), licences |-> SeatsOf(named)]
    <3>1. \A d \in Domains : Settled(d)
      BY <2>1, <2>3
    <3> QED BY <3>1, BreakdownFollows
  <2> QED BY <2>2, <2>3 DEF RecordFollowsGoogle
<1> HIDE DEF J
<1> QED BY <1>1, <1>2, <1>3, <1>4, <1>5, BooksKept, PTL DEF Spec
=============================================================================
