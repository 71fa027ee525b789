---------------------------- MODULE GroupProofs -----------------------------
(***************************************************************************)
(* The group commit for every set of callers, servers and updates: the     *)
(* hand-over of a server's queue between leader and drain thread, the      *)
(* types, and that the batches implement the document that changes in one  *)
(* instant (AtomicDocument).                                               *)
(***************************************************************************)
EXTENDS GroupCommit, Sums, TLAPS

(* As much of the types as the hand-over needs.                            *)
QueueFields == {"pending", "active"}
ThreadFields == {"pc", "drain", "batch", "seen", "attempt"}
HasFields(g, fields) == g = [f \in fields |-> g[f]]

Shape ==
  /\ queue = [s \in Servers |-> queue[s]]
  /\ \A s \in Servers : HasFields(queue[s], QueueFields) /\ queue[s].active \in BOOLEAN
  /\ thread = [c \in Callers |-> thread[c]]
  /\ \A c \in Callers : HasFields(thread[c], ThreadFields)

(* What the steps do to one thread and to the queue of its server.         *)
Thread(c) ==
  /\ thread' = [d \in Callers |-> thread'[d]]
  /\ HasFields(thread'[c], ThreadFields)
  /\ \A d \in Callers \ {c} : thread'[d] = thread[d]

QueueOf(s) ==
  /\ queue' = [t \in Servers |-> queue'[t]]
  /\ HasFields(queue'[s], QueueFields)
  /\ \A t \in Servers \ {s} : queue'[t] = queue[t]

Leads(c) ==
  /\ Thread(c) /\ QueueOf(ServerOf[c])
  /\ queue'[ServerOf[c]].active = TRUE
  /\ \/ ~queue[ServerOf[c]].active /\ thread'[c].pc = "take"
     \/ queue[ServerOf[c]].active /\ thread'[c] = thread[c]
Takes(c) ==
  /\ Thread(c) /\ QueueOf(ServerOf[c])
  /\ thread[c].pc # "idle" /\ thread'[c].pc # "idle"
  /\ queue'[ServerOf[c]].active = queue[ServerOf[c]].active
  /\ queue'[ServerOf[c]].pending = <<>>
Works(c) ==
  /\ Thread(c) /\ UNCHANGED queue
  /\ thread[c].pc # "idle" /\ thread'[c].pc # "idle"
HandsOver(c) ==
  /\ Thread(c) /\ QueueOf(ServerOf[c])
  /\ thread[c].pc # "idle"
  /\ queue'[ServerOf[c]].pending = queue[ServerOf[c]].pending
  /\ \/ /\ queue[ServerOf[c]].pending = <<>>
        /\ thread'[c].pc = "idle" /\ queue'[ServerOf[c]].active = FALSE
     \/ thread'[c].pc # "idle" /\ queue'[ServerOf[c]].active = TRUE

LEMMA Assigned ==
  ASSUME Shape, NEW c \in Callers, NEW t,
         HasFields(t, ThreadFields),
         thread' = [thread EXCEPT ![c] = t]
  PROVE  Thread(c) /\ thread'[c] = t
  BY DEF Shape, Thread

LEMMA QueueAssigned ==
  ASSUME Shape, NEW s \in Servers, NEW q, HasFields(q, QueueFields),
         queue' = [queue EXCEPT ![s] = q]
  PROVE  QueueOf(s) /\ queue'[s] = q
  BY DEF Shape, QueueOf

LEMMA AfterBatchWorks ==
  ASSUME Shape, NEW c \in Callers, thread[c].pc # "idle", thread' = AfterBatch(c), UNCHANGED queue
  PROVE  Works(c)
<1> DEFINE t == [thread[c] EXCEPT !.pc = IF thread[c].drain THEN "next" ELSE "more",
                                  !.batch = <<>>, !.seen = Idle.seen, !.attempt = 0]
<1>1. HasFields(t, ThreadFields) /\ t.pc \in {"next", "more"}
  BY DEF Shape, HasFields, ThreadFields
<1>2. thread' = [thread EXCEPT ![c] = t]
  BY Zenon DEF AfterBatch
<1> HIDE DEF t
<1> QED BY <1>1, <1>2, Assigned DEF Works

LEMMA StepKinds ==
  ASSUME Shape, NEW c \in Callers, ServerOf[c] \in Servers, CallerStep(c)
  PROVE  \/ UNCHANGED <<queue, thread>>
         \/ Leads(c) \/ Takes(c) \/ Works(c) \/ HandsOver(c)
<1> DEFINE s == ServerOf[c]
<1>0. /\ HasFields(thread[c], ThreadFields)
      /\ HasFields(queue[s], QueueFields)
  BY DEF Shape
<1>1. CASE Call(c)
  <2> DEFINE q == [pending |-> Append(queue[s].pending, c), active |-> TRUE]
             t == IF queue[s].active THEN thread[c] ELSE [thread[c] EXCEPT !.pc = "take"]
  <2>1. queue' = [queue EXCEPT ![s] = q]
    BY <1>1 DEF Call
  <2>2. HasFields(q, QueueFields) /\ q.active = TRUE
    BY DEF HasFields, QueueFields, ThreadFields
  <2>3. QueueOf(s) /\ queue'[s].active = TRUE
    <3> HIDE DEF q
    <3> QED BY <2>1, <2>2, QueueAssigned
  <2>4. /\ HasFields(t, ThreadFields)
        /\ ~queue[s].active => t.pc = "take"
        /\ queue[s].active => t = thread[c]
    BY <1>0 DEF HasFields, QueueFields, ThreadFields
  <2>5. thread' = [thread EXCEPT ![c] = t]
    <3>1. CASE queue[s].active
      BY <1>1, <3>1 DEF Call, Shape
    <3>2. CASE ~queue[s].active
      BY <1>1, <3>2 DEF Call
    <3> QED BY <3>1, <3>2
  <2> HIDE DEF t
  <2> QED BY <2>3, <2>4, <2>5, Assigned DEF Leads, Shape
<1>2. ASSUME TakeBatch(c), thread[c].pc # "idle"
      PROVE  Takes(c)
  <2> DEFINE q == [queue[s] EXCEPT !.pending = <<>>]
             batch == queue[s].pending
             t == [thread[c] EXCEPT !.pc = "read", !.batch = batch, !.attempt = 1]
  <2>1. queue' = [queue EXCEPT ![s] = q] /\ thread' = [thread EXCEPT ![c] = t]
    BY <1>2 DEF TakeBatch
  <2>2. HasFields(q, QueueFields) /\ q.active = queue[s].active /\ q.pending = <<>>
    BY <1>0 DEF HasFields, QueueFields, ThreadFields
  <2>3. HasFields(t, ThreadFields) /\ t.pc = "read"
    <3> HIDE DEF batch
    <3> QED BY <1>0 DEF HasFields, QueueFields, ThreadFields
  <2> HIDE DEF q, t
  <2> QED BY <1>2, <2>1, <2>2, <2>3, Assigned, QueueAssigned DEF Takes
<1>3. CASE Take(c) \/ (DrainNext(c) /\ TakeBatch(c))
  BY <1>2, <1>3 DEF Take, DrainNext
<1>4. ASSUME NEW active \in BOOLEAN, NEW t, HasFields(t, ThreadFields), thread[c].pc # "idle",
             queue' = [queue EXCEPT ![s].active = active], thread' = [thread EXCEPT ![c] = t],
             active <=> t.pc # "idle", ~active => queue[s].pending = <<>>
      PROVE  HandsOver(c)
  <2> DEFINE q == [queue[s] EXCEPT !.active = active]
  <2>1. HasFields(q, QueueFields) /\ q.active = active
        /\ q.pending = queue[s].pending
    BY <1>0 DEF HasFields, QueueFields, ThreadFields
  <2>2. queue' = [queue EXCEPT ![s] = q]
    BY <1>4
  <2> HIDE DEF q
  <2>3. QueueOf(s) /\ queue'[s] = q
    BY <2>1, <2>2, QueueAssigned
  <2>4. Thread(c) /\ thread'[c] = t
    BY <1>4, Assigned
  <2> QED BY <1>4, <2>1, <2>3, <2>4 DEF HandsOver
<1>5. HasFields(Idle, ThreadFields) /\ Idle.pc = "idle"
  BY DEF Idle, HasFields, QueueFields, ThreadFields
<1>6. CASE DrainNext(c) /\ ~TakeBatch(c)
  BY <1>4, <1>5, <1>6 DEF DrainNext
<1>7. CASE More(c)
  <2> DEFINE t == [Idle EXCEPT !.pc = "next", !.drain = TRUE]
  <2>1. HasFields(t, ThreadFields) /\ t.pc = "next"
    BY DEF Idle, HasFields, QueueFields, ThreadFields
  <2> HIDE DEF t
  <2>2. CASE queue[s].pending = <<>>
    BY <1>4, <1>5, <1>7, <2>2 DEF More
  <2>3. CASE queue[s].pending # <<>>
    BY <1>4, <1>7, <2>1, <2>3 DEF More, t
  <2> QED BY <2>2, <2>3
<1>8. ASSUME NEW seen, thread[c].pc # "idle", UNCHANGED queue,
             thread' = [thread EXCEPT ![c] = [@ EXCEPT !.pc = "write", !.seen = seen]]
      PROVE  Works(c)
  <2> DEFINE t == [thread[c] EXCEPT !.pc = "write", !.seen = seen]
  <2>1. HasFields(t, ThreadFields) /\ t.pc = "write"
    BY <1>0 DEF HasFields, QueueFields, ThreadFields
  <2>2. thread' = [thread EXCEPT ![c] = t]
    BY <1>8
  <2> HIDE DEF t
  <2> QED BY <1>8, <2>1, <2>2, Assigned DEF Works
<1>9. CASE Read(c)
  BY <1>8, <1>9, AfterBatchWorks DEF Read
<1>10. ASSUME LostRace(c), thread[c].pc # "idle", UNCHANGED queue
       PROVE  Works(c)
  <2> DEFINE seen == Idle.seen
             attempt == thread[c].attempt + 1
             t == [thread[c] EXCEPT !.pc = "read", !.seen = seen, !.attempt = attempt]
  <2>1. CASE thread' = AfterBatch(c)
    BY <1>10, <2>1, AfterBatchWorks
  <2>2. CASE thread' = [thread EXCEPT ![c] = t]
    <3>1. HasFields(t, ThreadFields) /\ t.pc = "read"
      <4> HIDE DEF seen, attempt
      <4> QED BY <1>0 DEF HasFields, QueueFields, ThreadFields
    <3> HIDE DEF t
    <3> QED BY <1>10, <2>2, <3>1, Assigned DEF Works
  <2> QED BY <1>10, <2>1, <2>2, Zenon DEF LostRace
<1>11. CASE Write(c) \/ WriteAnswerLost(c) \/ StoreRaises(c)
  BY <1>10, <1>11, AfterBatchWorks DEF Write, WriteAnswerLost, StoreRaises
<1>12. CASE Return(c) \/ TimeOut(c)
  BY <1>12 DEF Return, TimeOut
<1> QED BY <1>1, <1>3, <1>6, <1>7, <1>9, <1>11, <1>12 DEF CallerStep, ThreadStep

LEMMA EditsLeaveQueue == UpdateReseller \/ DeactivateReseller => UNCHANGED <<queue, thread>>
  BY DEF UpdateReseller, DeactivateReseller, FieldUpdate

LEMMA ShapeInit == Init => Shape
<1> SUFFICES ASSUME Init PROVE Shape
  OBVIOUS
<1>1. HasFields(Idle, ThreadFields)
  BY DEF Idle, HasFields, QueueFields, ThreadFields
<1>2. HasFields([pending |-> <<>>, active |-> FALSE], QueueFields)
  BY DEF HasFields, QueueFields, ThreadFields
<1>3. /\ queue = [s \in Servers |-> queue[s]]
      /\ \A s \in Servers : queue[s] = [pending |-> <<>>, active |-> FALSE]
      /\ \A s \in Servers : queue[s].active \in BOOLEAN
  BY DEF Init
<1>4. /\ thread = [c \in Callers |-> thread[c]]
      /\ \A c \in Callers : thread[c] = Idle
  BY DEF Init
<1> QED BY <1>1, <1>2, <1>3, <1>4 DEF Shape

LEMMA ShapeStep ==
  ASSUME Shape, [Next]_vars
  PROVE  Shape'
<1>1. CASE UNCHANGED <<queue, thread>>
  BY <1>1 DEF Shape
<1>2. ASSUME NEW c \in Callers, Leads(c) \/ Takes(c) \/ Works(c) \/ HandsOver(c)
      PROVE  Shape'
  BY <1>2, GroupAssumption DEF Shape, Leads, Takes, Works, HandsOver, Thread, QueueOf
<1> QED BY <1>1, <1>2, StepKinds, EditsLeaveQueue, GroupAssumption DEF Next, vars

LEMMA HandOverStep ==
  ASSUME Shape, OneDrainerPerServer, [Next]_vars
  PROVE  OneDrainerPerServer'
<1> USE DEF OneDrainerPerServer
<1>1. CASE UNCHANGED <<queue, thread>>
  BY <1>1
<1>2. ASSUME NEW c \in Callers, Leads(c) \/ Takes(c) \/ Works(c) \/ HandsOver(c),
             NEW s \in Servers
      PROVE  LET busy == {d \in Callers : ServerOf[d] = s /\ thread'[d].pc # "idle"}
             IN /\ \A a, b \in busy : a = b
                /\ queue'[s].active <=> busy # {}
                /\ queue'[s].pending # <<>> => queue'[s].active
  <2>1. CASE s # ServerOf[c]
    BY <1>2, <2>1 DEF Leads, Takes, Works, HandsOver, Thread, QueueOf
  <2>2. CASE s = ServerOf[c]
    <3>1. CASE Leads(c)
      BY <2>2, <3>1 DEF Leads, Thread, QueueOf
    <3>2. CASE Takes(c)
      BY <2>2, <3>2 DEF Takes, Thread, QueueOf
    <3>3. CASE Works(c)
      BY <2>2, <3>3 DEF Works, Thread, QueueOf
    <3>4. CASE HandsOver(c)
      BY <2>2, <3>4 DEF HandsOver, Thread, QueueOf
    <3> QED BY <1>2, <3>1, <3>2, <3>3, <3>4
  <2> QED BY <2>1, <2>2
<1> QED BY <1>1, <1>2, StepKinds, EditsLeaveQueue, GroupAssumption DEF Next, vars

(* OneDrainerPerServer, for every batch size, number of servers and fault: *)
(* the flag `active` of _Queue is handed from leader to drain thread and   *)
(* to the next leader without a gap and without an overlap.                *)
THEOREM OneDrainer == Spec => []OneDrainerPerServer
<1>1. Init => Shape /\ OneDrainerPerServer
  <2>1. Init => OneDrainerPerServer
    BY DEF Init, OneDrainerPerServer, Idle
  <2> QED BY <2>1, ShapeInit
<1>2. Shape /\ OneDrainerPerServer /\ [Next]_vars => (Shape /\ OneDrainerPerServer)'
  BY ShapeStep, HandOverStep
<1> QED BY <1>1, <1>2, PTL DEF Spec

-----------------------------------------------------------------------------
(* A batch is applied by a fold, which the community modules define by a   *)
(* recursion over the sets of positions, greatest position last.           *)
Start(base) == [working |-> base, applied |-> FALSE, outcome |-> <<>>]

Applies(g, base, batch) ==
  g = [s \in SUBSET (DOMAIN batch) |->
         IF s = {} THEN Start(base) ELSE ApplyOne(g[s \ {Max(s)}], batch[Max(s)])]

LEMMA BatchByDefinition ==
  ASSUME NEW base, NEW batch
  PROVE  ApplyBatch(base, batch) = (CHOOSE g : Applies(g, base, batch))[DOMAIN batch]
  BY DEF ApplyBatch, FoldLeft, MapThenFoldSet, Applies, Start

LEMMA MaxIsGreatest ==
  ASSUME NEW n \in Nat
  PROVE  /\ \A s \in SUBSET (1 .. n) : s # {} => Max(s) \in s
         /\ \A i \in 1 .. n : Max(1 .. i) = i
<1> DEFINE P == {s \in SUBSET (1 .. n) : s # {} => \E x \in s : \A y \in s : x >= y}
<1>1. ASSUME NEW s \in SUBSET (1 .. n), s # {}, \A x \in s : s \ {x} \in P
      PROVE  s \in P
  <2>1. PICK x \in s : TRUE
    BY <1>1
  <2>2. CASE s \ {x} = {}
    <3>1. \A y \in s : x >= y
      BY <2>1, <2>2
    <3> QED BY <2>1, <3>1
  <2>3. CASE s \ {x} # {}
    <3>1. PICK z \in s \ {x} : \A y \in s \ {x} : z >= y
      BY <1>1, <2>1, <2>3
    <3>2. CASE z >= x
      BY <3>1, <3>2
    <3>3. CASE ~(z >= x)
      <4>1. \A y \in s : x >= y
        BY <2>1, <3>1, <3>3
      <4> QED BY <2>1, <4>1
    <3> QED BY <3>2, <3>3
  <2> QED BY <2>2, <2>3
<1>2. \A s \in SUBSET (1 .. n) : s \in P
  <2> DEFINE S == 1 .. n
  <2>1. IsFiniteSet(S) /\ {} \in P
    BY FS_Interval
  <2>2. \A s \in SUBSET S : s # {} /\ (\A x \in s : s \ {x} \in P) => s \in P
    <3> HIDE DEF P
    <3> QED BY <1>1
  <2> HIDE DEF P, S
  <2>3. \A s \in SUBSET S : s \in P
    BY <2>1, <2>2, SubsetInduction
  <2> QED BY <2>3 DEF S
<1>3. ASSUME NEW s \in SUBSET (1 .. n), s # {}
      PROVE  Max(s) \in s /\ \A y \in s : Max(s) >= y
  BY <1>2, <1>3 DEF Max
<1>4. ASSUME NEW i \in 1 .. n
      PROVE  Max(1 .. i) = i
  <2>1. i \in 1 .. i /\ 1 .. i \in SUBSET (1 .. n) /\ 1 .. i # {}
    OBVIOUS
  <2>2. Max(1 .. i) \in 1 .. i /\ \A y \in 1 .. i : Max(1 .. i) >= y
    BY <1>3, <2>1
  <2> QED BY <2>1, <2>2
<1> QED BY <1>3, <1>4

LEMMA BatchDefined ==
  ASSUME NEW base, NEW batch \in Seq(Callers)
  PROVE  \E g : Applies(g, base, batch)
<1> DEFINE S == DOMAIN batch
           Upto(n) == {s \in SUBSET S : Cardinality(s) <= n}
           Next1(g, s) == IF s = {} THEN Start(base)
                          ELSE ApplyOne(g[s \ {Max(s)}], batch[Max(s)])
           T == {n \in Nat : \E g : g = [s \in Upto(n) |-> Next1(g, s)]}
<1>1. IsFiniteSet(S) /\ \A s \in SUBSET S : s # {} => Max(s) \in s
  <2>1. Len(batch) \in Nat /\ S = 1 .. Len(batch)
    OBVIOUS
  <2>2. IsFiniteSet(S)
    BY <2>1, FS_Interval
  <2> QED BY <2>1, <2>2, MaxIsGreatest
<1> HIDE DEF S
<1>2. \A s \in SUBSET S :
        IsFiniteSet(s) /\ Cardinality(s) \in Nat /\ Cardinality(s) <= Cardinality(S)
  BY <1>1, FS_Subset, FS_CardinalityType
<1>3. 0 \in T
  <2>1. \A s \in Upto(0) : s = {}
    BY <1>2, FS_EmptySet
  <2> DEFINE g == [s \in Upto(0) |-> Start(base)]
  <2>2. g = [s \in Upto(0) |-> Next1(g, s)]
    BY <2>1
  <2> QED BY <2>2
<1>4. ASSUME NEW n \in Nat, n \in T
      PROVE  n + 1 \in T
  <2>1. PICK g : g = [s \in Upto(n) |-> Next1(g, s)]
    BY <1>4
  <2> DEFINE h == [s \in Upto(n + 1) |-> Next1(g, s)]
  <2>2. ASSUME NEW s \in Upto(n + 1), s # {}
        PROVE  h[s \ {Max(s)}] = g[s \ {Max(s)}]
    <3> DEFINE r == s \ {Max(s)}
    <3>1. Max(s) \in s
      BY <1>1, <2>2
    <3>2. r \in Upto(n)
      BY <1>2, <3>1, FS_RemoveElement
    <3>3. r \in Upto(n + 1)
      BY <1>2, <3>2
    <3> HIDE DEF r, Upto, Next1
    <3>4. g[r] = Next1(g, r)
      BY <2>1, <3>2
    <3>5. h[r] = Next1(g, r)
      BY <3>3
    <3> QED BY <3>4, <3>5 DEF r
  <2>3. h = [s \in Upto(n + 1) |-> Next1(h, s)]
    <3>1. \A s \in Upto(n + 1) : Next1(h, s) = Next1(g, s)
      <4> HIDE DEF Upto, h
      <4> QED BY <2>2
    <3> HIDE DEF Upto, Next1
    <3> QED BY <3>1
  <2> HIDE DEF h, Upto, Next1
  <2> QED BY <2>3
<1>5. Cardinality(S) \in T
  <2> HIDE DEF T
  <2>1. Cardinality(S) \in Nat
    BY <1>1, FS_CardinalityType
  <2> QED BY <1>3, <1>4, <2>1, NaturalInduction
<1>6. Upto(Cardinality(S)) = SUBSET S
  BY <1>2
<1> QED BY <1>5, <1>6 DEF Applies, S

(* The working copy and the outcomes after the first i updates.            *)
LEMMA BatchUnfolds ==
  ASSUME NEW base, NEW batch \in Seq(Callers)
  PROVE  \E at : /\ at[0] = Start(base)
                 /\ \A i \in 1 .. Len(batch) : at[i] = ApplyOne(at[i - 1], batch[i])
                 /\ ApplyBatch(base, batch) = at[Len(batch)]
<1> DEFINE n == Len(batch)
           g == CHOOSE h : Applies(h, base, batch)
           at == [i \in 0 .. n |-> g[1 .. i]]
<1>1. n \in Nat /\ DOMAIN batch = 1 .. n
  OBVIOUS
<1>2. Applies(g, base, batch)
  BY BatchDefined
<1>3. ApplyBatch(base, batch) = g[1 .. n]
  BY <1>1, BatchByDefinition
<1> HIDE DEF g, n
<1>4. \A s \in SUBSET (1 .. n) :
        g[s] = IF s = {} THEN Start(base) ELSE ApplyOne(g[s \ {Max(s)}], batch[Max(s)])
  BY <1>1, <1>2 DEF Applies
<1>5. at[0] = Start(base)
  <2>1. 1 .. 0 = {} /\ 1 .. 0 \in SUBSET (1 .. n) /\ 0 \in 0 .. n
    BY <1>1
  <2>2. g[1 .. 0] = Start(base)
    BY <1>4, <2>1
  <2> QED BY <2>1, <2>2
<1>6. ASSUME NEW i \in 1 .. n
      PROVE  at[i] = ApplyOne(at[i - 1], batch[i])
  <2>1. /\ 1 .. i # {} /\ 1 .. i \in SUBSET (1 .. n)
        /\ (1 .. i) \ {i} = 1 .. (i - 1)
        /\ i \in 0 .. n /\ i - 1 \in 0 .. n
    <3>1. i \in Nat /\ 1 <= i /\ i <= n
      BY <1>1
    <3>2. i \in 1 .. i
      BY <3>1
    <3>3. 1 .. i \in SUBSET (1 .. n)
      BY <1>1, <3>1
    <3>4. (1 .. i) \ {i} = 1 .. (i - 1)
      BY <3>1
    <3>5. i \in 0 .. n /\ i - 1 \in 0 .. n
      BY <1>1, <3>1
    <3> QED BY <3>2, <3>3, <3>4, <3>5
  <2>2. Max(1 .. i) = i
    BY <1>1, MaxIsGreatest
  <2>3. g[1 .. i] = ApplyOne(g[1 .. (i - 1)], batch[i])
    BY <1>4, <2>1, <2>2
  <2> QED BY <2>1, <2>3
<1>7. ApplyBatch(base, batch) = at[n]
  BY <1>1, <1>3
<1> HIDE DEF at
<1> QED BY <1>5, <1>6, <1>7 DEF n

(* What the updates of a batch make of the document, one after the other.  *)
Follows(vals, base, batch) ==
  /\ vals \in [0 .. Len(batch) -> Account]
  /\ vals[0] = base
  /\ \A i \in 1 .. Len(batch) :
       vals[i] = IF Rejects(vals[i - 1], batch[i]) THEN vals[i - 1]
                 ELSE Result(vals[i - 1], batch[i])

(* The outcome of the i-th update.                                         *)
OutcomeAt(vals, batch, i) ==
  IF Rejects(vals[i - 1], batch[i]) THEN [how |-> "refused", value |-> NoValue]
  ELSE [how |-> "ok", value |-> vals[i]]

LEMMA ResultIsAccount ==
  ASSUME NEW v \in Account, NEW c \in Callers
  PROVE  Result(v, c) \in Account
<1>1. v.licences_used + Delta[c] \in Int /\ v.max_licence_cap \in Nat
  BY GroupAssumption DEF Account
<1> QED BY <1>1 DEF Account, Result

(* One turn of the loop.                                                   *)
LEMMA TurnOfLoop ==
  ASSUME NEW v \in Account, NEW c \in Callers, NEW applied \in BOOLEAN, NEW outcome
  PROVE  LET state == [working |-> v, applied |-> applied, outcome |-> outcome] IN
           ApplyOne(state, c) =
             IF Rejects(v, c)
             THEN [working |-> v, applied |-> applied,
                   outcome |-> Append(outcome, [how |-> "refused", value |-> NoValue])]
             ELSE [working |-> Result(v, c), applied |-> TRUE,
                   outcome |-> Append(outcome, [how |-> "ok", value |-> Result(v, c)])]
<1> DEFINE state == [working |-> v, applied |-> applied, outcome |-> outcome]
<1>1. state.working = v /\ state.outcome = outcome
  OBVIOUS
<1>2. CASE Rejects(v, c)
  <2> DEFINE o == Append(outcome, [how |-> "refused", value |-> NoValue])
  <2>1. ApplyOne(state, c) = [state EXCEPT !.outcome = o]
    BY <1>1, <1>2, Zenon DEF ApplyOne
  <2> HIDE DEF o
  <2>2. [state EXCEPT !.outcome = o] = [working |-> v, applied |-> applied, outcome |-> o]
    OBVIOUS
  <2> QED BY <1>2, <2>1, <2>2 DEF o
<1>3. CASE ~Rejects(v, c)
  BY <1>1, <1>3, Zenon DEF ApplyOne
<1> QED BY <1>2, <1>3

LEMMA OneMore ==
  ASSUME NEW n \in Nat, NEW f
  PROVE  [k \in 1 .. n + 1 |-> f[k]] = Append([k \in 1 .. n |-> f[k]], f[n + 1])
<1> DEFINE S == {f[k] : k \in 1 .. n + 1}
           s == [k \in 1 .. n |-> f[k]]
           t == [k \in 1 .. n + 1 |-> f[k]]
<1>1. s \in Seq(S) /\ Len(s) = n /\ t \in Seq(S) /\ Len(t) = n + 1 /\ f[n + 1] \in S
  OBVIOUS
<1>2. \A k \in 1 .. n + 1 : t[k] = IF k = n + 1 THEN f[n + 1] ELSE s[k]
  OBVIOUS
<1> HIDE DEF S, s, t
<1>3. Append(s, f[n + 1]) \in Seq(S) /\ Len(Append(s, f[n + 1])) = n + 1
  BY <1>1
<1>4. \A k \in 1 .. n + 1 : t[k] = Append(s, f[n + 1])[k]
  BY <1>1, <1>2
<1> QED BY <1>1, <1>3, <1>4 DEF s, t

LEMMA BatchRuns ==
  ASSUME NEW base \in Account, NEW batch \in Seq(Callers)
  PROVE  \E vals :
           /\ Follows(vals, base, batch)
           /\ LET run == ApplyBatch(base, batch) IN
                /\ run.working = vals[Len(batch)]
                /\ run.applied \in BOOLEAN
                /\ ~run.applied =>
                     /\ run.working = base
                     /\ \A i \in 1 .. Len(batch) : Rejects(vals[i - 1], batch[i])
                /\ \A i \in 1 .. Len(batch) : run.outcome[i] = OutcomeAt(vals, batch, i)
<1> DEFINE n == Len(batch)
<1>1. PICK at : /\ at[0] = Start(base)
                /\ \A i \in 1 .. n : at[i] = ApplyOne(at[i - 1], batch[i])
                /\ ApplyBatch(base, batch) = at[n]
  BY BatchUnfolds
<1> DEFINE vals == [i \in 0 .. n |-> at[i].working]
           Outcome(i) == [k \in 1 .. i |-> OutcomeAt(vals, batch, k)]
           Run(i) == \E applied \in BOOLEAN :
                       /\ at[i] = [working |-> vals[i], applied |-> applied,
                                   outcome |-> Outcome(i)]
                       /\ vals[i] \in Account
                       /\ ~applied =>
                            /\ vals[i] = base
                            /\ \A k \in 1 .. i : Rejects(vals[k - 1], batch[k])
           T == {i \in Nat : i <= n => Run(i)}
<1>2. n \in Nat
  OBVIOUS
<1>3. 0 \in T
  <2>1. vals[0] = base
    BY <1>1, <1>2 DEF Start
  <2>2. Outcome(0) = <<>>
    OBVIOUS
  <2> HIDE DEF vals, Outcome
  <2>3. at[0] = [working |-> vals[0], applied |-> FALSE, outcome |-> Outcome(0)]
    BY <1>1, <2>1, <2>2 DEF Start
  <2>4. \A k \in 1 .. 0 : Rejects(vals[k - 1], batch[k])
    OBVIOUS
  <2>5. Run(0)
    BY <2>1, <2>3, <2>4
  <2> HIDE DEF Run
  <2> QED BY <2>5
<1>4. ASSUME NEW i \in Nat, i + 1 <= n, Run(i)
      PROVE  /\ Run(i + 1)
             /\ vals[i + 1] = IF Rejects(vals[i], batch[i + 1]) THEN vals[i]
                              ELSE Result(vals[i], batch[i + 1])
  <2> DEFINE c == batch[i + 1]
             v == vals[i]
             o == OutcomeAt(vals, batch, i + 1)
  <2>1. PICK applied \in BOOLEAN :
           /\ at[i] = [working |-> v, applied |-> applied, outcome |-> Outcome(i)]
           /\ v \in Account
           /\ ~applied => v = base /\ \A k \in 1 .. i : Rejects(vals[k - 1], batch[k])
    BY <1>4
  <2>2. i + 1 \in 1 .. n /\ i + 1 \in 0 .. n /\ (i + 1) - 1 = i /\ c \in Callers
    BY <1>2, <1>4
  <2>3. at[i + 1] = ApplyOne(at[i], c)
    BY <1>1, <2>2
  <2>4. vals[i + 1] = at[i + 1].working
    BY <2>2
  <2> DEFINE refused == [how |-> "refused", value |-> NoValue]
             trial == Result(v, c)
             ok == [how |-> "ok", value |-> trial]
  <2> HIDE DEF vals, v, c
  <2>5. at[i + 1] = IF Rejects(v, c)
                    THEN [working |-> v, applied |-> applied,
                          outcome |-> Append(Outcome(i), refused)]
                    ELSE [working |-> trial, applied |-> TRUE,
                          outcome |-> Append(Outcome(i), ok)]
    <3> HIDE DEF Outcome
    <3>1. /\ at[i] = [working |-> v, applied |-> applied, outcome |-> Outcome(i)]
          /\ v \in Account
      BY <2>1
    <3> QED BY <2>2, <2>3, <3>1, TurnOfLoop
  <2>6. Outcome(i + 1) = Append(Outcome(i), o)
    <3> DEFINE f == [k \in 1 .. i + 1 |-> OutcomeAt(vals, batch, k)]
    <3>1. /\ Outcome(i + 1) = [k \in 1 .. i + 1 |-> f[k]]
          /\ Outcome(i) = [k \in 1 .. i |-> f[k]]
          /\ f[i + 1] = o
      OBVIOUS
    <3> HIDE DEF f, Outcome, o
    <3>2. [k \in 1 .. i + 1 |-> f[k]] = Append([k \in 1 .. i |-> f[k]], f[i + 1])
      BY OneMore
    <3> QED BY <3>1, <3>2
  <2> HIDE DEF Outcome
  <2>7. CASE Rejects(v, c)
    <3>1. o = refused
      BY <2>2, <2>7 DEF OutcomeAt, v, c
    <3>2. at[i + 1] = [working |-> v, applied |-> applied, outcome |-> Outcome(i + 1)]
      BY <2>5, <2>6, <2>7, <3>1
    <3>3. vals[i + 1] = v
      BY <2>4, <3>2
    <3>4. ~applied => \A k \in 1 .. i + 1 : Rejects(vals[k - 1], batch[k])
      <4>1. \A k \in 1 .. i + 1 : k \in 1 .. i \/ k = i + 1
        OBVIOUS
      <4> QED BY <2>1, <2>2, <2>7, <4>1 DEF v, c
    <3>5. Run(i + 1)
      BY <2>1, <3>2, <3>3, <3>4
    <3> QED BY <2>7, <3>3, <3>5 DEF v, c
  <2>8. CASE ~Rejects(v, c)
    <3> HIDE DEF trial
    <3>1. at[i + 1].working = trial
      BY <2>5, <2>8
    <3>2. vals[i + 1] = trial
      BY <2>4, <3>1
    <3>3. o = ok
      BY <2>2, <2>8, <3>2 DEF OutcomeAt, v, c
    <3>4. at[i + 1] = [working |-> trial, applied |-> TRUE, outcome |-> Outcome(i + 1)]
      BY <2>5, <2>6, <2>8, <3>3
    <3>5. trial \in Account
      BY <2>1, <2>2, ResultIsAccount DEF trial
    <3>6. Run(i + 1)
      BY <3>2, <3>4, <3>5
    <3> QED BY <2>8, <3>2, <3>6 DEF v, c, trial
  <2> QED BY <2>7, <2>8
<1>5. \A i \in Nat : i \in T
  <2>1. ASSUME NEW i \in Nat, i \in T PROVE i + 1 \in T
    <3>1. i + 1 <= n => Run(i)
      <4> HIDE DEF Run, n
      <4> QED BY <1>2, <2>1
    <3>2. i + 1 <= n => Run(i + 1)
      <4> HIDE DEF Run, n, vals
      <4> QED BY <1>4, <3>1
    <3> HIDE DEF Run
    <3> QED BY <3>2
  <2> HIDE DEF T
  <2> QED BY <1>3, <2>1, NaturalInduction
<1>6. \A i \in 0 .. n : Run(i)
  <2> HIDE DEF Run, n
  <2> QED BY <1>2, <1>5
<1>7. Follows(vals, base, batch)
  <2>1. vals[0] = base
    BY <1>1, <1>2 DEF Start
  <2>2. ASSUME NEW i \in 1 .. n
        PROVE  vals[i] = IF Rejects(vals[i - 1], batch[i]) THEN vals[i - 1]
                         ELSE Result(vals[i - 1], batch[i])
    <3> HIDE DEF vals, Run
    <3>1. i - 1 \in Nat /\ (i - 1) + 1 = i /\ (i - 1) + 1 <= n /\ Run(i - 1)
      BY <1>2, <1>6
    <3> DEFINE j == i - 1
    <3>2. j \in Nat /\ j + 1 <= n /\ Run(j) /\ j + 1 = i
      BY <3>1
    <3> HIDE DEF j
    <3>3. vals[j + 1] = IF Rejects(vals[j], batch[j + 1]) THEN vals[j]
                        ELSE Result(vals[j], batch[j + 1])
      BY <1>4, <3>2
    <3> QED BY <3>2, <3>3 DEF j
  <2>3. \A i \in 0 .. n : vals[i] \in Account
    <3> HIDE DEF vals
    <3> QED BY <1>6
  <2>4. vals \in [0 .. n -> Account]
    <3>1. vals = [i \in 0 .. n |-> vals[i]]
      OBVIOUS
    <3> HIDE DEF vals
    <3> QED BY <2>3, <3>1
  <2> HIDE DEF vals
  <2> QED BY <2>1, <2>2, <2>4 DEF Follows
<1>8. PICK applied \in BOOLEAN :
         /\ at[n] = [working |-> vals[n], applied |-> applied, outcome |-> Outcome(n)]
         /\ ~applied =>
              vals[n] = base /\ \A k \in 1 .. n : Rejects(vals[k - 1], batch[k])
  <2>1. Run(n)
    <3> HIDE DEF Run, n
    <3> QED BY <1>2, <1>6
  <2> HIDE DEF vals, Outcome, n
  <2> QED BY <2>1
<1>9. LET run == ApplyBatch(base, batch) IN
        /\ run.working = vals[n]
        /\ run.applied = applied
        /\ run.outcome = Outcome(n)
  <2> HIDE DEF vals, Outcome, n
  <2> QED BY <1>1, <1>8
<1>10. \A i \in 1 .. n : Outcome(n)[i] = OutcomeAt(vals, batch, i)
  OBVIOUS
<1> HIDE DEF vals, Outcome
<1>11. LET run == ApplyBatch(base, batch) IN
         /\ run.working = vals[n]
         /\ run.applied \in BOOLEAN
         /\ ~run.applied =>
              run.working = base /\ \A i \in 1 .. n : Rejects(vals[i - 1], batch[i])
         /\ \A i \in 1 .. n : run.outcome[i] = OutcomeAt(vals, batch, i)
  BY <1>8, <1>9, <1>10
<1> QED BY <1>7, <1>11

-----------------------------------------------------------------------------
(* The abstract document's values are those of the loop.                   *)
LEMMA ValuesFollow ==
  ASSUME NEW batch \in Seq(Callers), NEW vals, Follows(vals, Base(doc), batch)
  PROVE  Document!Values(batch) = vals
<1> DEFINE n == Len(batch)
           Body(at) == [i \in 0 .. n |->
                          IF i = 0 THEN Base(doc)
                          ELSE IF Rejects(at[i - 1], batch[i]) THEN at[i - 1]
                          ELSE Result(at[i - 1], batch[i])]
           at == CHOOSE g : g = Body(g)
<1>1. Document!Values(batch) = at
  BY DEF Document!Values
<1>2. n \in Nat /\ vals = [i \in 0 .. n |-> vals[i]]
  BY DEF Follows
<1>3. vals = Body(vals)
  <2> HIDE DEF n
  <2>1. \A i \in 0 .. n : i # 0 => i \in 1 .. n
    BY <1>2
  <2>2. \A i \in 0 .. n :
          vals[i] = IF i = 0 THEN Base(doc)
                    ELSE IF Rejects(vals[i - 1], batch[i]) THEN vals[i - 1]
                    ELSE Result(vals[i - 1], batch[i])
    BY <2>1 DEF Follows, n
  <2> QED BY <1>2, <2>2
<1>4. at = Body(at)
  <2> HIDE DEF Body
  <2> QED BY <1>3
<1> HIDE DEF at, n
<1> DEFINE T == {i \in Nat : i <= n => at[i] = vals[i]}
<1>5. 0 \in T
  <2>1. ASSUME NEW g, g = Body(g)
        PROVE  g[0] = Base(doc)
    <3>1. 0 \in 0 .. n
      BY <1>2
    <3> QED BY <2>1, <3>1
  <2> HIDE DEF Body
  <2> QED BY <1>3, <1>4, <2>1
<1>6. ASSUME NEW i \in Nat, i \in T PROVE i + 1 \in T
  <2> SUFFICES ASSUME i + 1 <= n PROVE at[i + 1] = vals[i + 1]
    OBVIOUS
  <2>1. i + 1 \in 0 .. n /\ i + 1 # 0 /\ (i + 1) - 1 = i /\ i <= n
    BY <1>2
  <2>2. at[i] = vals[i]
    BY <1>6, <2>1
  <2>3. ASSUME NEW g, g = Body(g)
        PROVE  g[i + 1] = IF Rejects(g[i], batch[i + 1]) THEN g[i]
                          ELSE Result(g[i], batch[i + 1])
    <3> DEFINE c == batch[i + 1]
               j == i + 1
    <3>1. j \in 0 .. n /\ j # 0 /\ j - 1 = i
      BY <2>1
    <3> HIDE DEF j
    <3>2. g[j] = IF j = 0 THEN Base(doc)
                 ELSE IF Rejects(g[j - 1], batch[j]) THEN g[j - 1]
                 ELSE Result(g[j - 1], batch[j])
      BY <2>3, <3>1
    <3>3. g[j] = IF Rejects(g[i], batch[j]) THEN g[i] ELSE Result(g[i], batch[j])
      BY <3>1, <3>2
    <3> QED BY <3>3 DEF j
  <2> HIDE DEF Body
  <2> QED BY <1>3, <1>4, <2>2, <2>3
<1>7. \A i \in Nat : i \in T
  <2> HIDE DEF T
  <2> QED BY <1>5, <1>6, NaturalInduction
<1>8. \A i \in 0 .. n : at[i] = vals[i]
  BY <1>2, <1>7
<1>9. at = [i \in 0 .. n |-> at[i]]
  BY <1>4
<1> QED BY <1>1, <1>2, <1>8, <1>9

-----------------------------------------------------------------------------
(* The types, with the functions and records spelled out.                  *)
Stored == [value : Account \cup {NoValue}, version : Nat]
ThreadRecord ==
  [pc : {"idle", "take", "read", "write", "more", "next"}, drain : BOOLEAN,
   batch : Seq(Callers), seen : Stored, attempt : 0 .. MaxAttempts]
QueueRecord == [pending : Seq(Callers), active : BOOLEAN]
Told == Account \cup {NoValue}

Types ==
  /\ doc \in Stored
  /\ edits \in 0 .. MaxEdits
  /\ setting \in [missing : {Fresh(Missing), NoValue}, lossy : BOOLEAN]
  /\ queue \in [Servers -> QueueRecord]
  /\ thread \in [Callers -> ThreadRecord]
  /\ item \in [Callers -> {"new", "queued"} \cup Outcomes]
  /\ told \in [Callers -> Told]
  /\ answer \in [Callers -> {"none"} \cup Outcomes]
  /\ effects \in [Callers -> Nat]

(* A document that exists has a value; what a thread is about to replace   *)
(* is the document, or an older version of it.                             *)
Seen(c) ==
  thread[c].pc = "write" =>
    /\ Base(thread[c].seen) # NoValue
    /\ thread[c].seen.version <= doc.version
    /\ thread[c].seen.version = doc.version => thread[c].seen = doc

StoreInv ==
  /\ doc.version > 0 => doc.value \in Account
  /\ \A c \in Callers : Seen(c)

(* Who waits in a queue, or is being served, has been queued on this       *)
(* server, once, and has been told nothing.                                *)
Lists(q, s) ==
  /\ \A i, j \in DOMAIN q : q[i] = q[j] => i = j
  /\ \A i \in DOMAIN q : ServerOf[q[i]] = s /\ item[q[i]] = "queued"

Serves(c) ==
  /\ Lists(thread[c].batch, ServerOf[c])
  /\ \A i \in DOMAIN thread[c].batch : \A j \in DOMAIN queue[ServerOf[c]].pending :
       thread[c].batch[i] # queue[ServerOf[c]].pending[j]
  /\ thread[c].pc \notin {"read", "write"} => thread[c].batch = <<>>

WaitInv ==
  /\ \A s \in Servers : Lists(queue[s].pending, s)
  /\ \A c \in Callers : Serves(c)
  /\ \A c \in Callers : item[c] \in {"new", "queued"} => told[c] = NoValue

-----------------------------------------------------------------------------
(* The thread of c is set; the others stay.                                *)
Sets(c, pc, drain, batch, seen, attempt) ==
  thread' = [thread EXCEPT ![c] = [pc |-> pc, drain |-> drain, batch |-> batch,
                                   seen |-> seen, attempt |-> attempt]]

LEMMA SetsDoes ==
  ASSUME Types, NEW c \in Callers,
         NEW pc \in {"idle", "take", "read", "write", "more", "next"}, NEW drain \in BOOLEAN,
         NEW batch \in Seq(Callers), NEW seen \in Stored, NEW attempt \in 0 .. MaxAttempts,
         Sets(c, pc, drain, batch, seen, attempt)
  PROVE  /\ thread' \in [Callers -> ThreadRecord]
         /\ thread'[c].pc = pc /\ thread'[c].batch = batch /\ thread'[c].seen = seen
         /\ \A d \in Callers \ {c} : thread'[d] = thread[d]
<1> DEFINE t == [pc |-> pc, drain |-> drain, batch |-> batch, seen |-> seen,
                 attempt |-> attempt]
<1>1. t \in ThreadRecord /\ t.pc = pc /\ t.batch = batch /\ t.seen = seen
  BY DEF ThreadRecord
<1>2. thread' = [thread EXCEPT ![c] = t]
  BY DEF Sets
<1> HIDE DEF t
<1> QED BY <1>1, <1>2 DEF Types

LEMMA FreshIsAccount == Fresh(Missing) \in Account /\ Fresh(InitialValue) \in Account
  BY GroupAssumption DEF Fresh, Account

LEMMA IdleIsThread ==
  /\ Idle.pc = "idle" /\ Idle.drain = FALSE /\ Idle.batch = <<>> /\ Idle.attempt = 0
  /\ Idle = [pc |-> "idle", drain |-> FALSE, batch |-> <<>>, seen |-> Idle.seen, attempt |-> 0]
  /\ Idle.seen \in Stored /\ Idle \in ThreadRecord
<1>1. /\ Idle.pc = "idle" /\ Idle.drain = FALSE /\ Idle.batch = <<>> /\ Idle.attempt = 0
      /\ Idle.seen = [value |-> NoValue, version |-> 0]
  BY DEF Idle
<1>2. Idle = [pc |-> "idle", drain |-> FALSE, batch |-> <<>>, seen |-> Idle.seen, attempt |-> 0]
  BY DEF Idle
<1>3. Idle.seen \in Stored
  BY <1>1 DEF Stored
<1> HIDE DEF Idle
<1>4. 0 \in 0 .. MaxAttempts /\ <<>> \in Seq(Callers)
  BY GroupAssumption
<1>5. Idle \in ThreadRecord
  <2> DEFINE seen == Idle.seen
  <2>1. seen \in Stored /\ Idle = [pc |-> "idle", drain |-> FALSE, batch |-> <<>>,
                                   seen |-> seen, attempt |-> 0]
    BY <1>2, <1>3
  <2> HIDE DEF seen
  <2> QED BY <1>4, <2>1 DEF ThreadRecord
<1> QED BY <1>1, <1>2, <1>3, <1>5

(* What the steps make of the thread, field by field.                      *)
LEMMA FieldsOf ==
  ASSUME NEW t \in ThreadRecord
  PROVE  t = [pc |-> t.pc, drain |-> t.drain, batch |-> t.batch, seen |-> t.seen,
              attempt |-> t.attempt]
  BY DEF ThreadRecord

LEMMA FinishedFields ==
  ASSUME NEW t \in ThreadRecord, NEW pc, NEW seen
  PROVE  [t EXCEPT !.pc = pc, !.batch = <<>>, !.seen = seen, !.attempt = 0]
           = [pc |-> pc, drain |-> t.drain, batch |-> <<>>, seen |-> seen, attempt |-> 0]
<1> DEFINE t1 == [t EXCEPT !.pc = pc]
           t2 == [t1 EXCEPT !.batch = <<>>]
           t3 == [t2 EXCEPT !.seen = seen]
           t4 == [t3 EXCEPT !.attempt = 0]
<1>1. [t EXCEPT !.pc = pc, !.batch = <<>>, !.seen = seen, !.attempt = 0] = t4
  OBVIOUS
<1>2. t1 = [pc |-> pc, drain |-> t.drain, batch |-> t.batch, seen |-> t.seen,
            attempt |-> t.attempt]
  BY FieldsOf
<1> HIDE DEF t1
<1>3. t2 = [pc |-> pc, drain |-> t.drain, batch |-> <<>>, seen |-> t.seen,
            attempt |-> t.attempt]
  BY <1>2
<1> HIDE DEF t2
<1>4. t3 = [pc |-> pc, drain |-> t.drain, batch |-> <<>>, seen |-> seen,
            attempt |-> t.attempt]
  BY <1>3
<1> HIDE DEF t3
<1>5. t4 = [pc |-> pc, drain |-> t.drain, batch |-> <<>>, seen |-> seen, attempt |-> 0]
  BY <1>4
<1> HIDE DEF t4
<1> QED BY <1>1, <1>5

LEMMA TakenFields ==
  ASSUME NEW t \in ThreadRecord, NEW batch
  PROVE  [t EXCEPT !.pc = "read", !.batch = batch, !.attempt = 1]
           = [pc |-> "read", drain |-> t.drain, batch |-> batch, seen |-> t.seen, attempt |-> 1]
<1> DEFINE t1 == [t EXCEPT !.pc = "read"]
           t2 == [t1 EXCEPT !.batch = batch]
           t3 == [t2 EXCEPT !.attempt = 1]
<1>1. [t EXCEPT !.pc = "read", !.batch = batch, !.attempt = 1] = t3
  OBVIOUS
<1>2. t1 = [pc |-> "read", drain |-> t.drain, batch |-> t.batch, seen |-> t.seen,
            attempt |-> t.attempt]
  BY FieldsOf
<1> HIDE DEF t1
<1>3. t2 = [pc |-> "read", drain |-> t.drain, batch |-> batch, seen |-> t.seen,
            attempt |-> t.attempt]
  BY <1>2
<1> HIDE DEF t2
<1>4. t3 = [pc |-> "read", drain |-> t.drain, batch |-> batch, seen |-> t.seen, attempt |-> 1]
  BY <1>3
<1> HIDE DEF t3
<1> QED BY <1>1, <1>4

LEMMA RetriedFields ==
  ASSUME NEW t \in ThreadRecord, NEW pc, NEW seen, NEW attempt
  PROVE  /\ [t EXCEPT !.pc = pc, !.seen = seen]
              = [pc |-> pc, drain |-> t.drain, batch |-> t.batch, seen |-> seen,
                 attempt |-> t.attempt]
         /\ [t EXCEPT !.pc = pc, !.seen = seen, !.attempt = attempt]
              = [pc |-> pc, drain |-> t.drain, batch |-> t.batch, seen |-> seen,
                 attempt |-> attempt]
<1> DEFINE t1 == [t EXCEPT !.pc = pc]
           t2 == [t1 EXCEPT !.seen = seen]
           t3 == [t2 EXCEPT !.attempt = attempt]
<1>1. [t EXCEPT !.pc = pc, !.seen = seen] = t2
      /\ [t EXCEPT !.pc = pc, !.seen = seen, !.attempt = attempt] = t3
  OBVIOUS
<1>2. t1 = [pc |-> pc, drain |-> t.drain, batch |-> t.batch, seen |-> t.seen,
            attempt |-> t.attempt]
  BY FieldsOf
<1> HIDE DEF t1
<1>3. t2 = [pc |-> pc, drain |-> t.drain, batch |-> t.batch, seen |-> seen,
            attempt |-> t.attempt]
  BY <1>2
<1> HIDE DEF t2
<1>4. t3 = [pc |-> pc, drain |-> t.drain, batch |-> t.batch, seen |-> seen,
            attempt |-> attempt]
  BY <1>3
<1> HIDE DEF t3
<1> QED BY <1>1, <1>3, <1>4

LEMMA AfterBatchSets ==
  ASSUME Types, NEW c \in Callers, thread' = AfterBatch(c)
  PROVE  \E pc \in {"next", "more"} : Sets(c, pc, thread[c].drain, <<>>, Idle.seen, 0)
<1> DEFINE t == thread[c]
           pc == IF t.drain THEN "next" ELSE "more"
           z == Idle.seen
<1>1. t \in ThreadRecord
  BY DEF Types
<1>2. thread' = [thread EXCEPT ![c] = [t EXCEPT !.pc = pc, !.batch = <<>>, !.seen = z,
                                                !.attempt = 0]]
  BY Zenon DEF AfterBatch
<1> HIDE DEF t, pc, z
<1>3. [t EXCEPT !.pc = pc, !.batch = <<>>, !.seen = z, !.attempt = 0]
        = [pc |-> pc, drain |-> t.drain, batch |-> <<>>, seen |-> z, attempt |-> 0]
  BY <1>1, FinishedFields
<1>4. Sets(c, pc, t.drain, <<>>, z, 0)
  BY <1>2, <1>3 DEF Sets
<1>5. pc \in {"next", "more"}
  BY DEF pc
<1> QED BY <1>4, <1>5 DEF t, z

LEMMA TakeSets ==
  ASSUME Types, NEW c \in Callers, TakeBatch(c)
  PROVE  /\ Sets(c, "read", thread[c].drain, queue[ServerOf[c]].pending, thread[c].seen, 1)
         /\ queue' \in [Servers -> QueueRecord]
         /\ queue'[ServerOf[c]].pending = <<>>
         /\ \A s \in Servers \ {ServerOf[c]} : queue'[s] = queue[s]
<1> DEFINE t == thread[c]
           s == ServerOf[c]
           b == queue[s].pending
<1>1. t \in ThreadRecord /\ s \in Servers /\ queue[s] \in QueueRecord
  BY GroupAssumption DEF Types
<1>2. thread' = [thread EXCEPT ![c] = [t EXCEPT !.pc = "read", !.batch = b, !.attempt = 1]]
  BY Zenon DEF TakeBatch
<1>3. queue' = [queue EXCEPT ![s] = [queue[s] EXCEPT !.pending = <<>>]]
  BY DEF TakeBatch
<1>4. /\ queue' \in [Servers -> QueueRecord] /\ queue'[s].pending = <<>>
      /\ \A r \in Servers \ {s} : queue'[r] = queue[r]
  <2> DEFINE q == [queue[s] EXCEPT !.pending = <<>>]
  <2>1. q \in QueueRecord /\ q.pending = <<>>
    <3> DEFINE r == queue[s]
    <3>1. r \in QueueRecord /\ <<>> \in Seq(Callers)
      BY <1>1
    <3> HIDE DEF r
    <3>2. [r EXCEPT !.pending = <<>>] \in QueueRecord /\ [r EXCEPT !.pending = <<>>].pending = <<>>
      BY <3>1 DEF QueueRecord
    <3> QED BY <3>2 DEF r
  <2> HIDE DEF q
  <2>2. queue' = [queue EXCEPT ![s] = q]
    BY <1>3 DEF q
  <2> HIDE DEF s
  <2> QED BY <1>1, <2>1, <2>2 DEF Types
<1> HIDE DEF t, b
<1>5. [t EXCEPT !.pc = "read", !.batch = b, !.attempt = 1]
        = [pc |-> "read", drain |-> t.drain, batch |-> b, seen |-> t.seen, attempt |-> 1]
  BY <1>1, TakenFields
<1>6. Sets(c, "read", t.drain, b, t.seen, 1)
  BY <1>2, <1>5 DEF Sets
<1> QED BY <1>4, <1>6 DEF t, b

LEMMA ThreadFacts ==
  ASSUME Types, NEW c \in Callers
  PROVE  /\ thread[c] \in ThreadRecord
         /\ thread[c].batch \in Seq(Callers) /\ thread[c].drain \in BOOLEAN
         /\ thread[c].seen \in Stored /\ thread[c].attempt \in 0 .. MaxAttempts
         /\ thread[c].pc \in {"idle", "take", "read", "write", "more", "next"}
  BY DEF Types, ThreadRecord

LEMMA WriteSets ==
  ASSUME Types, NEW c \in Callers, NEW seen,
         thread' = [thread EXCEPT ![c] = [@ EXCEPT !.pc = "write", !.seen = seen]]
  PROVE  Sets(c, "write", thread[c].drain, thread[c].batch, seen, thread[c].attempt)
<1> DEFINE t == thread[c]
<1>1. t \in ThreadRecord
  BY ThreadFacts
<1>2. thread' = [thread EXCEPT ![c] = [t EXCEPT !.pc = "write", !.seen = seen]]
  BY Zenon
<1> HIDE DEF t
<1>3. [t EXCEPT !.pc = "write", !.seen = seen]
        = [pc |-> "write", drain |-> t.drain, batch |-> t.batch, seen |-> seen,
           attempt |-> t.attempt]
  BY <1>1, RetriedFields
<1> QED BY <1>2, <1>3 DEF Sets, t

LEMMA LostRaceSets ==
  ASSUME Types, NEW c \in Callers, LostRace(c)
  PROVE  \/ /\ thread[c].attempt < MaxAttempts
            /\ Sets(c, "read", thread[c].drain, thread[c].batch, Idle.seen, thread[c].attempt + 1)
            /\ UNCHANGED <<item, told>>
         \/ FinishAll(thread[c].batch, "error") /\ thread' = AfterBatch(c)
<1> DEFINE t == thread[c]
           z == Idle.seen
           n == t.attempt + 1
<1>1. t \in ThreadRecord
  BY ThreadFacts
<1>2. CASE t.attempt < MaxAttempts
  <2>1. thread' = [thread EXCEPT ![c] = [t EXCEPT !.pc = "read", !.seen = z, !.attempt = n]]
        /\ UNCHANGED <<item, told>>
    BY <1>2, Zenon DEF LostRace
  <2> HIDE DEF t, z, n
  <2>2. [t EXCEPT !.pc = "read", !.seen = z, !.attempt = n]
          = [pc |-> "read", drain |-> t.drain, batch |-> t.batch, seen |-> z, attempt |-> n]
    BY <1>1, RetriedFields
  <2>3. Sets(c, "read", t.drain, t.batch, z, n)
    BY <2>1, <2>2 DEF Sets
  <2> QED BY <1>2, <2>1, <2>3 DEF t, z, n
<1>3. CASE ~(t.attempt < MaxAttempts)
  BY <1>3, Zenon DEF LostRace
<1> QED BY <1>2, <1>3

LEMMA CallSets ==
  ASSUME Types, NEW c \in Callers, thread' = [thread EXCEPT ![c].pc = "take"]
  PROVE  Sets(c, "take", thread[c].drain, thread[c].batch, thread[c].seen, thread[c].attempt)
<1> DEFINE t == thread[c]
<1>1. t \in ThreadRecord
  BY ThreadFacts
<1>2. thread' = [thread EXCEPT ![c] = [t EXCEPT !.pc = "take"]]
  OBVIOUS
<1> HIDE DEF t
<1>3. [t EXCEPT !.pc = "take"]
        = [pc |-> "take", drain |-> t.drain, batch |-> t.batch, seen |-> t.seen,
           attempt |-> t.attempt]
  BY <1>1, FieldsOf
<1> QED BY <1>2, <1>3 DEF Sets, t

LEMMA StopSets ==
  ASSUME Types, NEW c \in Callers
  PROVE  /\ thread' = [thread EXCEPT ![c] = Idle] =>
              Sets(c, "idle", FALSE, <<>>, Idle.seen, 0)
         /\ thread' = [thread EXCEPT ![c] = [Idle EXCEPT !.pc = "next", !.drain = TRUE]] =>
              Sets(c, "next", TRUE, <<>>, Idle.seen, 0)
<1> DEFINE idle == Idle
           z == Idle.seen
           no == FALSE
           yes == TRUE
<1>1. idle = [pc |-> "idle", drain |-> no, batch |-> <<>>, seen |-> z, attempt |-> 0]
  BY IdleIsThread
<1>2. thread' = [thread EXCEPT ![c] = idle] => Sets(c, "idle", no, <<>>, z, 0)
  <2> HIDE DEF idle, z, no
  <2> QED BY <1>1 DEF Sets
<1>3. thread' = [thread EXCEPT ![c] = [idle EXCEPT !.pc = "next", !.drain = yes]] =>
        Sets(c, "next", yes, <<>>, z, 0)
  <2> HIDE DEF idle, z, no, yes
  <2> DEFINE t1 == [idle EXCEPT !.pc = "next"]
             t2 == [t1 EXCEPT !.drain = yes]
  <2>1. [idle EXCEPT !.pc = "next", !.drain = yes] = t2
    OBVIOUS
  <2>2. t1 = [pc |-> "next", drain |-> no, batch |-> <<>>, seen |-> z, attempt |-> 0]
    BY <1>1
  <2> HIDE DEF t1
  <2>3. t2 = [pc |-> "next", drain |-> yes, batch |-> <<>>, seen |-> z, attempt |-> 0]
    BY <2>2
  <2> HIDE DEF t2
  <2> QED BY <2>1, <2>3 DEF Sets
<1> QED BY <1>2, <1>3

(* _Item.finish.                                                           *)
LEMMA FinishDoes ==
  ASSUME Types, NEW batch \in Seq(Callers), NEW outcome, FinishWith(batch, outcome),
         \A i, j \in DOMAIN batch : batch[i] = batch[j] => i = j,
         \A i \in DOMAIN batch : outcome[i].how \in Outcomes /\ outcome[i].value \in Told
  PROVE  /\ item' \in [Callers -> {"new", "queued"} \cup Outcomes]
         /\ told' \in [Callers -> Told]
         /\ \A k \in Callers \ ToSet(batch) : item'[k] = item[k] /\ told'[k] = told[k]
         /\ \A k \in ToSet(batch) :
              /\ Turn(batch, k) \in DOMAIN batch /\ batch[Turn(batch, k)] = k
              /\ item'[k] = outcome[Turn(batch, k)].how
              /\ told'[k] = outcome[Turn(batch, k)].value
<1>1. ASSUME NEW k \in ToSet(batch)
      PROVE  /\ k \in Callers
             /\ Turn(batch, k) \in DOMAIN batch /\ batch[Turn(batch, k)] = k
  <2>1. \E i \in DOMAIN batch : batch[i] = k
    BY DEF ToSet
  <2>2. k \in Callers
    BY <2>1
  <2> QED BY <2>1, <2>2 DEF Turn
<1> HIDE DEF ToSet
<1>2. /\ item' = [k \in Callers |-> IF k \in ToSet(batch) THEN outcome[Turn(batch, k)].how
                                    ELSE item[k]]
      /\ told' = [k \in Callers |-> IF k \in ToSet(batch) THEN outcome[Turn(batch, k)].value
                                    ELSE told[k]]
  BY DEF FinishWith
<1> HIDE DEF Turn
<1>3. item' \in [Callers -> {"new", "queued"} \cup Outcomes] /\ told' \in [Callers -> Told]
  BY <1>1, <1>2 DEF Types
<1> QED BY <1>1, <1>2, <1>3

-----------------------------------------------------------------------------
(* What a caller's step does to those who wait and to the document.        *)
Cells ==
  /\ doc \in Stored
  /\ queue \in [Servers -> QueueRecord]
  /\ thread \in [Callers -> ThreadRecord]
  /\ item \in [Callers -> {"new", "queued"} \cup Outcomes]
  /\ told \in [Callers -> Told]

Alone(c) == \A d \in Callers \ {c} : thread'[d] = thread[d]
SamePending == \A s \in Servers : queue'[s].pending = queue[s].pending
AtWork(c) == thread[c].pc \in {"read", "write"}

Rests == UNCHANGED <<doc, setting, thread, item, told>> /\ SamePending

Joins(c) ==
  /\ item[c] = "new" /\ item' = [item EXCEPT ![c] = "queued"]
  /\ UNCHANGED <<doc, setting, told>>
  /\ queue'[ServerOf[c]].pending = Append(queue[ServerOf[c]].pending, c)
  /\ \A s \in Servers \ {ServerOf[c]} : queue'[s] = queue[s]
  /\ Alone(c)
  /\ thread'[c].batch = thread[c].batch
  /\ \/ thread'[c] = thread[c]
     \/ thread[c].pc = "idle" /\ thread'[c].pc = "take"

Collects(c) ==
  /\ UNCHANGED <<doc, setting, item, told>>
  /\ Alone(c) /\ ~AtWork(c)
  /\ thread'[c].pc = "read" /\ thread'[c].batch = queue[ServerOf[c]].pending
  /\ queue'[ServerOf[c]].pending = <<>>
  /\ \A s \in Servers \ {ServerOf[c]} : queue'[s] = queue[s]

Stops(c) ==
  /\ UNCHANGED <<doc, setting, item, told>> /\ SamePending
  /\ Alone(c) /\ ~AtWork(c)
  /\ thread'[c].pc \in {"idle", "next"} /\ thread'[c].batch = <<>>

(* The save of what c has worked out on the document that is there.        *)
Saves(c) ==
  /\ thread[c].pc = "write" /\ Base(doc) \in Account
  /\ doc' = [value |-> ApplyBatch(Base(doc), thread[c].batch).working,
             version |-> doc.version + 1]

Retries(c) ==
  /\ UNCHANGED <<queue, setting, item, told>>
  /\ Alone(c) /\ AtWork(c) /\ thread'[c].batch = thread[c].batch
  /\ \/ doc' = doc /\ thread'[c].pc = "read"
     \/ /\ doc' = doc /\ thread'[c].pc = "write" /\ thread'[c].seen = doc
        /\ Base(doc) # NoValue
     \/ setting.lossy /\ Saves(c) /\ thread'[c].pc = "read"

Ends(c) ==
  /\ UNCHANGED <<queue, setting>>
  /\ Alone(c) /\ AtWork(c)
  /\ thread'[c].pc \in {"next", "more"} /\ thread'[c].batch = <<>>

Breaks(c) ==
  /\ Ends(c) /\ FinishAll(thread[c].batch, "error")
  /\ doc' = doc \/ (setting.lossy /\ Saves(c))

Commits(c) ==
  LET run == ApplyBatch(Base(doc), thread[c].batch) IN
  /\ Ends(c) /\ FinishWith(thread[c].batch, run.outcome)
  /\ Base(doc) \in Account
  /\ (doc' = doc /\ ~run.applied) \/ Saves(c)

LEMMA BaseTypes ==
  ASSUME Types
  PROVE  /\ \A d \in Stored : Base(d) \in Told
         /\ Base(doc) \in Told /\ (Base(doc) # NoValue => Base(doc) \in Account)
<1>1. \A d \in Stored : Base(d) \in Told
  BY FreshIsAccount DEF Types, Stored, Told, Base
<1> QED BY <1>1 DEF Types, Told

(* A batch that c has read and can save is the batch on the document.      *)
LEMMA SavesOnTop ==
  ASSUME Types, StoreInv, NEW c \in Callers, thread[c].pc = "write", Unchanged(c)
  PROVE  /\ Working(c) = ApplyBatch(Base(doc), thread[c].batch)
         /\ Save(c) => Saves(c)
<1>1. thread[c].seen = doc /\ Base(doc) # NoValue
  BY DEF StoreInv, Seen, Unchanged
<1>2. Working(c) = ApplyBatch(Base(doc), thread[c].batch)
  BY <1>1 DEF Working
<1> QED BY <1>1, <1>2, BaseTypes DEF Save, Saves

LEMMA SavesTypes ==
  ASSUME Types, NEW c \in Callers, Saves(c)
  PROVE  doc' \in Stored /\ doc'.value \in Account /\ doc'.version = doc.version + 1
<1> DEFINE batch == thread[c].batch
           w == ApplyBatch(Base(doc), batch).working
<1>1. batch \in Seq(Callers) /\ Base(doc) \in Account
  BY ThreadFacts DEF Saves
<1>2. PICK vals : Follows(vals, Base(doc), batch) /\ w = vals[Len(batch)]
  <2> HIDE DEF batch
  <2> QED BY <1>1, BatchRuns
<1>3. Len(batch) \in 0 .. Len(batch)
  BY <1>1
<1>4. w \in Account
  BY <1>2, <1>3 DEF Follows
<1>5. doc' = [value |-> w, version |-> doc.version + 1] /\ doc.version \in Nat
  BY DEF Saves, Types, Stored
<1> HIDE DEF w
<1> QED BY <1>4, <1>5 DEF Stored

LEMMA AfterBatchEnds ==
  ASSUME Types, NEW c \in Callers, AtWork(c), thread' = AfterBatch(c), UNCHANGED <<queue, setting>>
  PROVE  Ends(c) /\ thread' \in [Callers -> ThreadRecord]
<1>1. PICK pc \in {"next", "more"} : Sets(c, pc, thread[c].drain, <<>>, Idle.seen, 0)
  BY AfterBatchSets
<1>2. /\ pc \in {"idle", "take", "read", "write", "more", "next"} /\ thread[c].drain \in BOOLEAN
      /\ <<>> \in Seq(Callers) /\ Idle.seen \in Stored /\ 0 \in 0 .. MaxAttempts
  BY ThreadFacts, IdleIsThread, GroupAssumption
<1>3. /\ thread' \in [Callers -> ThreadRecord]
      /\ thread'[c].pc = pc /\ thread'[c].batch = <<>> /\ Alone(c)
  <2> DEFINE drain == thread[c].drain
             batch == <<>>
             seen == Idle.seen
             attempt == 0
  <2>1. /\ drain \in BOOLEAN /\ batch \in Seq(Callers) /\ seen \in Stored
        /\ attempt \in 0 .. MaxAttempts /\ Sets(c, pc, drain, batch, seen, attempt)
    BY <1>1, <1>2
  <2> HIDE DEF drain, batch, seen, attempt
  <2>2. /\ thread' \in [Callers -> ThreadRecord]
        /\ thread'[c].pc = pc /\ thread'[c].batch = batch /\ Alone(c)
    BY <1>2, <2>1, SetsDoes DEF Alone
  <2> QED BY <2>2 DEF batch
<1> QED BY <1>3 DEF Ends

LEMMA CallerStepDoes ==
  ASSUME Types, StoreInv, WaitInv, OneDrainerPerServer, NEW c \in Callers, CallerStep(c)
  PROVE  /\ \/ Rests \/ Joins(c) \/ Collects(c) \/ Stops(c) \/ Retries(c) \/ Breaks(c)
            \/ Commits(c)
         /\ queue' \in [Servers -> QueueRecord]
         /\ thread' \in [Callers -> ThreadRecord]
<1> DEFINE s == ServerOf[c]
           t == thread[c]
<1>0. /\ s \in Servers /\ queue[s] \in QueueRecord /\ queue[s].pending \in Seq(Callers)
      /\ t.batch \in Seq(Callers) /\ t.drain \in BOOLEAN
      /\ t.seen \in Stored /\ t.attempt \in 0 .. MaxAttempts /\ 1 \in 0 .. MaxAttempts
      /\ queue \in [Servers -> QueueRecord] /\ thread \in [Callers -> ThreadRecord]
  BY ThreadFacts, GroupAssumption DEF Types, QueueRecord
<1>1. CASE Call(c)
  <2> DEFINE q == [pending |-> Append(queue[s].pending, c), active |-> TRUE]
  <2>1. q \in QueueRecord /\ q.pending = Append(queue[s].pending, c)
    BY <1>0 DEF QueueRecord
  <2>2. queue' = [queue EXCEPT ![s] = q]
    BY <1>1 DEF Call
  <2> HIDE DEF q
  <2>3. /\ queue' \in [Servers -> QueueRecord] /\ queue'[s] = q
        /\ \A r \in Servers \ {s} : queue'[r] = queue[r]
    BY <1>0, <2>1, <2>2
  <2>4. /\ thread' \in [Callers -> ThreadRecord] /\ Alone(c)
        /\ thread'[c].batch = t.batch
        /\ thread'[c] = t \/ (t.pc = "idle" /\ thread'[c].pc = "take")
    <3>1. CASE queue[s].active
      BY <1>0, <1>1, <3>1 DEF Call, Alone
    <3>2. CASE ~queue[s].active
      <4>1. t.pc = "idle"
        BY <1>0, <3>2 DEF OneDrainerPerServer
      <4>2. thread' = [thread EXCEPT ![c].pc = "take"]
        BY <1>1, <3>2 DEF Call
      <4>3. Sets(c, "take", t.drain, t.batch, t.seen, t.attempt)
        BY <4>2, CallSets
      <4> DEFINE pc == "take"
      <4>4. pc \in {"idle", "take", "read", "write", "more", "next"}
        OBVIOUS
      <4>5. /\ thread' \in [Callers -> ThreadRecord] /\ Alone(c)
            /\ thread'[c].batch = t.batch /\ thread'[c].pc = "take"
        BY <1>0, <4>3, <4>4, SetsDoes DEF Alone
      <4> QED BY <4>1, <4>5
    <3> QED BY <3>1, <3>2
  <2>5. Joins(c)
    BY <1>1, <2>1, <2>3, <2>4 DEF Joins, Call
  <2> QED BY <2>3, <2>4, <2>5
<1>2. ASSUME TakeBatch(c), ~AtWork(c)
      PROVE  /\ Collects(c)
             /\ queue' \in [Servers -> QueueRecord] /\ thread' \in [Callers -> ThreadRecord]
  <2>1. /\ Sets(c, "read", t.drain, queue[s].pending, t.seen, 1)
        /\ queue' \in [Servers -> QueueRecord]
        /\ queue'[s].pending = <<>>
        /\ \A r \in Servers \ {s} : queue'[r] = queue[r]
    BY <1>2, TakeSets
  <2> DEFINE pc == "read"
  <2>2. pc \in {"idle", "take", "read", "write", "more", "next"}
    OBVIOUS
  <2>3. /\ thread' \in [Callers -> ThreadRecord] /\ Alone(c)
        /\ thread'[c].batch = queue[s].pending /\ thread'[c].pc = "read"
    BY <1>0, <2>1, <2>2, SetsDoes DEF Alone
  <2> QED BY <1>2, <2>1, <2>3 DEF Collects, TakeBatch
<1>3. CASE Take(c) \/ (DrainNext(c) /\ TakeBatch(c))
  BY <1>2, <1>3 DEF Take, DrainNext, AtWork
<1>4. ASSUME NEW active \in BOOLEAN, queue' = [queue EXCEPT ![s].active = active],
             thread' = [thread EXCEPT ![c] = Idle]
             \/ thread' = [thread EXCEPT ![c] = [Idle EXCEPT !.pc = "next", !.drain = TRUE]],
             UNCHANGED <<doc, setting, item, told>>, ~AtWork(c)
      PROVE  /\ Stops(c)
             /\ queue' \in [Servers -> QueueRecord] /\ thread' \in [Callers -> ThreadRecord]
  <2> DEFINE q == [queue[s] EXCEPT !.active = active]
  <2>1. q \in QueueRecord /\ q.pending = queue[s].pending
    BY <1>0 DEF QueueRecord
  <2>2. queue' = [queue EXCEPT ![s] = q]
    BY <1>4
  <2> HIDE DEF q
  <2>3. queue' \in [Servers -> QueueRecord] /\ SamePending
    BY <1>0, <2>1, <2>2 DEF SamePending
  <2>4. PICK pc \in {"idle", "next"}, drain \in BOOLEAN :
           Sets(c, pc, drain, <<>>, Idle.seen, 0)
    BY <1>4, StopSets
  <2>5. /\ thread' \in [Callers -> ThreadRecord] /\ Alone(c)
        /\ thread'[c].batch = <<>> /\ thread'[c].pc = pc
    <3> DEFINE batch == <<>>
               seen == Idle.seen
               attempt == 0
    <3>1. /\ pc \in {"idle", "take", "read", "write", "more", "next"}
          /\ batch \in Seq(Callers) /\ seen \in Stored
          /\ attempt \in 0 .. MaxAttempts /\ Sets(c, pc, drain, batch, seen, attempt)
      BY <2>4, IdleIsThread, GroupAssumption
    <3> HIDE DEF batch, seen, attempt
    <3>2. /\ thread' \in [Callers -> ThreadRecord]
          /\ thread'[c].pc = pc /\ thread'[c].batch = batch /\ Alone(c)
      BY <3>1, SetsDoes DEF Alone
    <3> QED BY <3>2 DEF batch
  <2> QED BY <1>4, <2>3, <2>5 DEF Stops
<1>5. CASE DrainNext(c) /\ ~TakeBatch(c)
  BY <1>4, <1>5 DEF DrainNext, AtWork
<1>6. CASE More(c)
  <2>1. CASE queue[s].pending = <<>>
    BY <1>4, <1>6, <2>1 DEF More, AtWork
  <2>2. CASE queue[s].pending # <<>>
    BY <1>4, <1>6, <2>2 DEF More, AtWork
  <2> QED BY <2>1, <2>2
<1>7. CASE Read(c)
  <2> DEFINE run == ApplyBatch(Base(doc), t.batch)
  <2>0. AtWork(c) /\ UNCHANGED <<doc, setting, queue>>
    BY <1>7 DEF Read, AtWork
  <2>1. CASE /\ Base(doc) # NoValue /\ run.applied
             /\ thread' = [thread EXCEPT ![c] = [@ EXCEPT !.pc = "write", !.seen = doc]]
             /\ UNCHANGED <<item, told>>
    <3>1. Sets(c, "write", t.drain, t.batch, doc, t.attempt)
      BY <2>1, WriteSets
    <3> DEFINE pc == "write"
    <3>2. pc \in {"idle", "take", "read", "write", "more", "next"} /\ doc \in Stored
      BY DEF Types
    <3>3. /\ thread' \in [Callers -> ThreadRecord] /\ Alone(c)
          /\ thread'[c].batch = t.batch /\ thread'[c].pc = "write" /\ thread'[c].seen = doc
      BY <1>0, <3>1, <3>2, SetsDoes DEF Alone
    <3>4. Retries(c)
      BY <2>0, <2>1, <3>3 DEF Retries
    <3> QED BY <1>0, <2>0, <3>3, <3>4
  <2>2. CASE FinishAll(t.batch, "error") /\ thread' = AfterBatch(c)
    <3>1. Ends(c) /\ thread' \in [Callers -> ThreadRecord]
      BY <2>0, <2>2, AfterBatchEnds
    <3>2. doc' = doc /\ queue' = queue
      BY <2>0
    <3>3. queue' \in [Servers -> QueueRecord]
      BY <1>0, <3>2
    <3>4. Breaks(c)
      BY <2>2, <3>1, <3>2 DEF Breaks
    <3> QED BY <3>1, <3>3, <3>4
  <2>3. CASE /\ Base(doc) # NoValue /\ ~run.applied
             /\ FinishWith(t.batch, run.outcome) /\ thread' = AfterBatch(c)
    BY <1>0, <2>0, <2>3, AfterBatchEnds, BaseTypes DEF Commits
  <2> HIDE DEF run
  <2> QED BY <1>7, <2>1, <2>2, <2>3 DEF Read, run
<1>8. ASSUME LostRace(c), UNCHANGED <<queue, setting>>, AtWork(c),
             doc' = doc \/ (setting.lossy /\ Saves(c))
      PROVE  /\ Retries(c) \/ Breaks(c)
             /\ queue' \in [Servers -> QueueRecord] /\ thread' \in [Callers -> ThreadRecord]
  <2>1. CASE FinishAll(t.batch, "error") /\ thread' = AfterBatch(c)
    BY <1>0, <1>8, <2>1, AfterBatchEnds DEF Breaks
  <2>2. CASE /\ t.attempt < MaxAttempts
             /\ Sets(c, "read", t.drain, t.batch, Idle.seen, t.attempt + 1)
             /\ UNCHANGED <<item, told>>
    <3> DEFINE pc == "read"
               seen == Idle.seen
               attempt == t.attempt + 1
    <3>1. /\ pc \in {"idle", "take", "read", "write", "more", "next"} /\ seen \in Stored
          /\ attempt \in 0 .. MaxAttempts /\ Sets(c, pc, t.drain, t.batch, seen, attempt)
      BY <1>0, <2>2, IdleIsThread, GroupAssumption
    <3> HIDE DEF pc, seen, attempt
    <3>2. /\ thread' \in [Callers -> ThreadRecord] /\ Alone(c)
          /\ thread'[c].batch = t.batch /\ thread'[c].pc = pc
      BY <1>0, <3>1, SetsDoes DEF Alone
    <3>3. Retries(c)
      BY <1>8, <2>2, <3>2 DEF Retries, pc
    <3> QED BY <1>0, <1>8, <3>2, <3>3
  <2> QED BY <1>8, <2>1, <2>2, LostRaceSets
<1>9. CASE Write(c)
  <2>0. AtWork(c) /\ UNCHANGED <<queue, setting>> /\ t.pc = "write"
    BY <1>9 DEF Write, AtWork
  <2>1. CASE /\ Unchanged(c) /\ Save(c)
             /\ FinishWith(t.batch, Working(c).outcome) /\ thread' = AfterBatch(c)
    <3>1. Saves(c) /\ Working(c) = ApplyBatch(Base(doc), t.batch)
      BY <2>0, <2>1, SavesOnTop
    <3>2. Ends(c) /\ thread' \in [Callers -> ThreadRecord]
      BY <2>0, <2>1, AfterBatchEnds
    <3>3. Base(doc) \in Account /\ queue' = queue
      BY <2>0, <3>1 DEF Saves
    <3>4. FinishWith(t.batch, ApplyBatch(Base(doc), t.batch).outcome)
      BY <2>1, <3>1
    <3>5. Commits(c)
      BY <3>1, <3>2, <3>3, <3>4 DEF Commits
    <3>6. queue' \in [Servers -> QueueRecord]
      BY <1>0, <3>3
    <3> QED BY <3>2, <3>5, <3>6
  <2>2. CASE LostRace(c) /\ UNCHANGED doc
    BY <1>8, <2>0, <2>2
  <2>3. \/ /\ Unchanged(c) /\ Save(c)
           /\ FinishWith(t.batch, Working(c).outcome) /\ thread' = AfterBatch(c)
        \/ LostRace(c) /\ UNCHANGED doc
    BY <1>9 DEF Write
  <2> QED BY <2>1, <2>2, <2>3, Zenon
<1>10. CASE WriteAnswerLost(c)
  <2>0. /\ AtWork(c) /\ UNCHANGED <<queue, setting>> /\ t.pc = "write" /\ setting.lossy
        /\ Unchanged(c) /\ Save(c)
    BY <1>10 DEF WriteAnswerLost, AtWork
  <2>1. Saves(c)
    BY <2>0, SavesOnTop
  <2>2. CASE LostRace(c)
    BY <1>8, <2>0, <2>1, <2>2
  <2>3. CASE FinishAll(t.batch, "error") /\ thread' = AfterBatch(c)
    <3>1. Ends(c) /\ thread' \in [Callers -> ThreadRecord]
      BY <2>0, <2>3, AfterBatchEnds
    <3>2. Breaks(c)
      BY <2>0, <2>1, <2>3, <3>1 DEF Breaks
    <3>3. queue' \in [Servers -> QueueRecord]
      BY <1>0, <2>0
    <3> QED BY <3>1, <3>2, <3>3
  <2>4. LostRace(c) \/ (FinishAll(t.batch, "error") /\ thread' = AfterBatch(c))
    BY <1>10 DEF WriteAnswerLost
  <2> QED BY <2>2, <2>3, <2>4, Zenon
<1>11. CASE StoreRaises(c)
  <2>1. /\ AtWork(c) /\ UNCHANGED <<queue, setting, doc>>
        /\ FinishAll(t.batch, "error") /\ thread' = AfterBatch(c)
    BY <1>11 DEF StoreRaises, AtWork
  <2> QED BY <1>0, <2>1, AfterBatchEnds DEF Breaks
<1>12. CASE Return(c) \/ TimeOut(c)
  BY <1>0, <1>12 DEF Return, TimeOut, Rests, SamePending
<1> QED BY <1>1, <1>3, <1>5, <1>6, <1>7, <1>9, <1>10, <1>11, <1>12 DEF CallerStep, ThreadStep

(* The finish of a batch, by an error and after a save.                    *)
LEMMA BreaksDoes ==
  ASSUME Types, WaitInv, NEW c \in Callers, FinishAll(thread[c].batch, "error")
  PROVE  /\ item' \in [Callers -> {"new", "queued"} \cup Outcomes]
         /\ told' \in [Callers -> Told]
         /\ \A k \in Callers \ ToSet(thread[c].batch) : item'[k] = item[k] /\ told'[k] = told[k]
         /\ \A k \in ToSet(thread[c].batch) : item'[k] = "error" /\ told'[k] = NoValue
<1> DEFINE batch == thread[c].batch
           failed == [how |-> "error", value |-> NoValue]
           outcome == [i \in DOMAIN batch |-> failed]
<1>1. batch \in Seq(Callers)
  BY ThreadFacts
<1>2. \A i, j \in DOMAIN batch : batch[i] = batch[j] => i = j
  BY DEF WaitInv, Serves, Lists
<1>3. failed.how = "error" /\ failed.value = NoValue
      /\ failed.how \in Outcomes /\ failed.value \in Told
  BY DEF Outcomes, Told
<1>4. FinishWith(batch, outcome)
  BY DEF FinishAll
<1> HIDE DEF batch, failed
<1>5. \A i \in DOMAIN batch : outcome[i] = failed
  OBVIOUS
<1> HIDE DEF outcome
<1>6. \A i \in DOMAIN batch : outcome[i].how \in Outcomes /\ outcome[i].value \in Told
  BY <1>3, <1>5
<1>7. /\ item' \in [Callers -> {"new", "queued"} \cup Outcomes]
      /\ told' \in [Callers -> Told]
      /\ \A k \in Callers \ ToSet(batch) : item'[k] = item[k] /\ told'[k] = told[k]
      /\ \A k \in ToSet(batch) :
           /\ Turn(batch, k) \in DOMAIN batch /\ batch[Turn(batch, k)] = k
           /\ item'[k] = outcome[Turn(batch, k)].how
           /\ told'[k] = outcome[Turn(batch, k)].value
  BY <1>1, <1>2, <1>4, <1>6, FinishDoes
<1>8. \A k \in ToSet(batch) : item'[k] = "error" /\ told'[k] = NoValue
  BY <1>3, <1>5, <1>7
<1> QED BY <1>7, <1>8 DEF batch

LEMMA CommitsDoes ==
  ASSUME Types, WaitInv, NEW c \in Callers, Commits(c)
  PROVE  \E vals :
           LET batch == thread[c].batch IN
           /\ Follows(vals, Base(doc), batch)
           /\ item' \in [Callers -> {"new", "queued"} \cup Outcomes]
           /\ told' \in [Callers -> Told]
           /\ \A k \in Callers \ ToSet(batch) : item'[k] = item[k] /\ told'[k] = told[k]
           /\ \A k \in ToSet(batch) :
                /\ Turn(batch, k) \in DOMAIN batch /\ batch[Turn(batch, k)] = k
                /\ item'[k] = OutcomeAt(vals, batch, Turn(batch, k)).how
                /\ told'[k] = OutcomeAt(vals, batch, Turn(batch, k)).value
                /\ item'[k] \in Outcomes
           /\ \/ doc' = doc /\ Base(doc) = vals[Len(batch)]
              \/ doc' = [value |-> vals[Len(batch)], version |-> doc.version + 1]
<1> DEFINE batch == thread[c].batch
           run == ApplyBatch(Base(doc), batch)
<1>1. batch \in Seq(Callers) /\ Base(doc) \in Account /\ FinishWith(batch, run.outcome)
      /\ ((doc' = doc /\ ~run.applied)
          \/ doc' = [value |-> run.working, version |-> doc.version + 1])
  BY ThreadFacts DEF Commits, Saves
<1>2. \A i, j \in DOMAIN batch : batch[i] = batch[j] => i = j
  BY DEF WaitInv, Serves, Lists
<1> HIDE DEF batch
<1>3. PICK vals :
         /\ Follows(vals, Base(doc), batch)
         /\ run.working = vals[Len(batch)]
         /\ ~run.applied => run.working = Base(doc)
         /\ \A i \in 1 .. Len(batch) : run.outcome[i] = OutcomeAt(vals, batch, i)
  BY <1>1, BatchRuns
<1> DEFINE outcome == run.outcome
<1> HIDE DEF run
<1>4. DOMAIN batch = 1 .. Len(batch)
  BY <1>1
<1>5. ASSUME NEW i \in DOMAIN batch
      PROVE  outcome[i].how \in Outcomes /\ outcome[i].value \in Told
  <2>1. outcome[i] = OutcomeAt(vals, batch, i) /\ vals[i] \in Account
    BY <1>3, <1>4, <1>5 DEF Follows
  <2> DEFINE refused == [how |-> "refused", value |-> NoValue]
             ok == [how |-> "ok", value |-> vals[i]]
  <2>2. /\ refused.how = "refused" /\ refused.value = NoValue
        /\ ok.how = "ok" /\ ok.value = vals[i]
    OBVIOUS
  <2>3. OutcomeAt(vals, batch, i) \in {refused, ok}
    BY DEF OutcomeAt
  <2> HIDE DEF refused, ok
  <2> QED BY <2>1, <2>2, <2>3 DEF Outcomes, Told
<1> HIDE DEF outcome
<1>6. FinishWith(batch, outcome)
  BY <1>1 DEF outcome
<1>7. /\ item' \in [Callers -> {"new", "queued"} \cup Outcomes]
      /\ told' \in [Callers -> Told]
      /\ \A k \in Callers \ ToSet(batch) : item'[k] = item[k] /\ told'[k] = told[k]
      /\ \A k \in ToSet(batch) :
           /\ Turn(batch, k) \in DOMAIN batch /\ batch[Turn(batch, k)] = k
           /\ item'[k] = outcome[Turn(batch, k)].how
           /\ told'[k] = outcome[Turn(batch, k)].value
  BY <1>1, <1>2, <1>5, <1>6, FinishDoes
<1>8. \A i \in DOMAIN batch : outcome[i] = OutcomeAt(vals, batch, i)
  BY <1>3, <1>4 DEF outcome
<1>9. \A k \in ToSet(batch) :
        /\ Turn(batch, k) \in DOMAIN batch /\ batch[Turn(batch, k)] = k
        /\ item'[k] = OutcomeAt(vals, batch, Turn(batch, k)).how
        /\ told'[k] = OutcomeAt(vals, batch, Turn(batch, k)).value
        /\ item'[k] \in Outcomes
  BY <1>5, <1>7, <1>8
<1>10. \/ doc' = doc /\ Base(doc) = vals[Len(batch)]
       \/ doc' = [value |-> vals[Len(batch)], version |-> doc.version + 1]
  BY <1>1, <1>3
<1>11. Follows(vals, Base(doc), batch)
  BY <1>3
<1> QED BY <1>7, <1>9, <1>10, <1>11 DEF batch

(* What both have in common.                                               *)
Finishes(c) ==
  /\ UNCHANGED queue /\ Alone(c) /\ AtWork(c)
  /\ thread'[c].pc \in {"next", "more"} /\ thread'[c].batch = <<>>
  /\ \A k \in Callers \ ToSet(thread[c].batch) : item'[k] = item[k] /\ told'[k] = told[k]
  /\ \A k \in ToSet(thread[c].batch) : item'[k] \in Outcomes

LEMMA EndsFinishes ==
  ASSUME Types, WaitInv, NEW c \in Callers, Breaks(c) \/ Commits(c)
  PROVE  /\ Finishes(c)
         /\ item' \in [Callers -> {"new", "queued"} \cup Outcomes]
         /\ told' \in [Callers -> Told]
<1>1. CASE Breaks(c)
  <2>1. Ends(c) /\ FinishAll(thread[c].batch, "error") /\ "error" \in Outcomes
    BY <1>1 DEF Breaks, Outcomes
  <2>2. /\ item' \in [Callers -> {"new", "queued"} \cup Outcomes]
        /\ told' \in [Callers -> Told]
        /\ \A k \in Callers \ ToSet(thread[c].batch) : item'[k] = item[k] /\ told'[k] = told[k]
        /\ \A k \in ToSet(thread[c].batch) : item'[k] = "error"
    BY <2>1, BreaksDoes
  <2> QED BY <2>1, <2>2 DEF Finishes, Ends
<1>2. CASE Commits(c)
  <2>1. Ends(c)
    BY <1>2 DEF Commits
  <2>2. /\ item' \in [Callers -> {"new", "queued"} \cup Outcomes]
        /\ told' \in [Callers -> Told]
        /\ \A k \in Callers \ ToSet(thread[c].batch) : item'[k] = item[k] /\ told'[k] = told[k]
        /\ \A k \in ToSet(thread[c].batch) : item'[k] \in Outcomes
    BY <1>2, CommitsDoes
  <2> QED BY <2>1, <2>2 DEF Finishes, Ends
<1> QED BY <1>1, <1>2

-----------------------------------------------------------------------------
(* Who waits stays in line, on one server, once.                           *)
Kinds(c) ==
  Rests \/ Joins(c) \/ Collects(c) \/ Stops(c) \/ Retries(c) \/ Breaks(c) \/ Commits(c)

LEMMA WaitJoins ==
  ASSUME Types, WaitInv, NEW c \in Callers, Joins(c)
  PROVE  WaitInv'
<1> DEFINE s == ServerOf[c]
<1>0. /\ s \in Servers /\ queue[s].pending \in Seq(Callers)
      /\ \A d \in Callers : ServerOf[d] \in Servers
      /\ \A d \in Callers : thread[d].batch \in Seq(Callers)
      /\ \A r \in Servers : queue[r].pending \in Seq(Callers)
  BY GroupAssumption, ThreadFacts DEF Types, QueueRecord
<1>1. /\ item[c] = "new" /\ item'[c] = "queued"
      /\ \A d \in Callers \ {c} : item'[d] = item[d]
  BY DEF Joins, Types
<1>2. ASSUME NEW q \in Seq(Callers), NEW r \in Servers, Lists(q, r)
      PROVE  \A i \in DOMAIN q : item'[q[i]] = "queued" /\ q[i] # c
  <2>1. \A i \in DOMAIN q : q[i] \in Callers /\ q[i] # c
    BY <1>1, <1>2 DEF Lists
  <2>2. \A i \in DOMAIN q : item'[q[i]] = "queued"
    BY <1>1, <1>2, <2>1 DEF Lists
  <2> QED BY <2>1, <2>2
<1>3. ASSUME NEW r \in Servers
      PROVE  Lists(queue[r].pending, r)'
  <2>1. CASE r # s
    <3>1. queue'[r].pending = queue[r].pending /\ Lists(queue[r].pending, r)
      BY <2>1 DEF Joins, WaitInv
    <3> DEFINE q == queue[r].pending
    <3>2. \A i \in DOMAIN q : item'[q[i]] = "queued"
      BY <1>0, <1>2, <3>1
    <3> QED BY <3>1, <3>2 DEF Lists
  <2>2. CASE r = s
    <3> DEFINE q == queue[s].pending
               p == Append(q, c)
    <3>1. queue'[r].pending = p /\ q \in Seq(Callers) /\ Lists(q, s)
      BY <1>0, <2>2 DEF Joins, WaitInv
    <3> HIDE DEF q
    <3>2. \A i \in DOMAIN q : item'[q[i]] = "queued" /\ q[i] # c
      <4> HIDE DEF s
      <4> QED BY <1>0, <1>2, <3>1
    <3>3. /\ DOMAIN p = 1 .. Len(q) + 1 /\ DOMAIN q = 1 .. Len(q) /\ Len(q) \in Nat
          /\ p[Len(q) + 1] = c /\ \A i \in DOMAIN q : p[i] = q[i]
      BY <3>1
    <3> HIDE DEF p
    <3>4. \A i \in DOMAIN p : i \in DOMAIN q \/ i = Len(q) + 1
      BY <3>3
    <3>5. \A i, j \in DOMAIN p : p[i] = p[j] => i = j
      BY <3>1, <3>2, <3>3, <3>4 DEF Lists
    <3>6. \A i \in DOMAIN p : ServerOf[p[i]] = r /\ item'[p[i]] = "queued"
      BY <1>1, <2>2, <3>1, <3>2, <3>3, <3>4 DEF Lists
    <3> QED BY <3>1, <3>5, <3>6 DEF Lists
  <2> QED BY <2>1, <2>2
<1>4. ASSUME NEW d \in Callers
      PROVE  Serves(d)'
  <2> DEFINE b == thread[d].batch
             r == ServerOf[d]
             q == queue[r].pending
  <2>1. b \in Seq(Callers) /\ r \in Servers /\ q \in Seq(Callers) /\ Serves(d)
    BY <1>0 DEF WaitInv
  <2>2. thread'[d].batch = b
    BY DEF Joins, Alone
  <2>3. thread'[d].pc \notin {"read", "write"} => b = <<>>
    <3>1. thread'[d].pc = thread[d].pc \/ (thread[d].pc = "idle" /\ d = c)
      BY DEF Joins, Alone
    <3> QED BY <2>1, <3>1 DEF Serves
  <2>4. Lists(b, r)' /\ \A i \in DOMAIN b : b[i] # c
    <3>1. Lists(b, r)
      BY <2>1 DEF Serves
    <3>2. \A i \in DOMAIN b : item'[b[i]] = "queued" /\ b[i] # c
      <4> HIDE DEF b, r
      <4> QED BY <1>0, <1>2, <2>1, <3>1
    <3> QED BY <2>2, <3>1, <3>2 DEF Lists
  <2>5. \A i \in DOMAIN b : \A j \in DOMAIN queue'[r].pending : b[i] # queue'[r].pending[j]
    <3>1. \A i \in DOMAIN b : \A j \in DOMAIN q : b[i] # q[j]
      BY <2>1 DEF Serves
    <3>2. \/ queue'[r].pending = q
          \/ queue'[r].pending = Append(q, c)
      BY <2>1 DEF Joins
    <3> HIDE DEF b, q
    <3>3. \A j \in DOMAIN Append(q, c) :
            Append(q, c)[j] = c \/ (j \in DOMAIN q /\ Append(q, c)[j] = q[j])
      <4> HIDE DEF r
      <4> QED BY <2>1
    <3>4. \A j \in DOMAIN queue'[r].pending : queue'[r].pending[j] = c
            \/ (j \in DOMAIN q /\ queue'[r].pending[j] = q[j])
      BY <3>2, <3>3
    <3> QED BY <2>4, <3>1, <3>4
  <2> QED BY <2>2, <2>3, <2>4, <2>5 DEF Serves
<1>5. \A d \in Callers : item'[d] \in {"new", "queued"} => told'[d] = NoValue
  BY <1>1 DEF Joins, WaitInv
<1> QED BY <1>3, <1>4, <1>5 DEF WaitInv

LEMMA WaitRests ==
  ASSUME WaitInv, NEW c \in Callers, Rests \/ Stops(c) \/ Retries(c), Types
  PROVE  WaitInv'
<1>1. /\ UNCHANGED <<item, told>> /\ SamePending
      /\ \A d \in Callers : ServerOf[d] \in Servers
  BY GroupAssumption DEF Rests, Stops, Retries, SamePending
<1>2. \A s \in Servers : Lists(queue[s].pending, s)'
  BY <1>1 DEF WaitInv, Lists, SamePending
<1>3. ASSUME NEW d \in Callers
      PROVE  Serves(d)'
  <2>1. \/ thread'[d].batch = thread[d].batch
           /\ (thread'[d].pc = thread[d].pc \/ thread'[d].pc \in {"read", "write"})
        \/ thread'[d].batch = <<>>
    BY DEF Rests, Stops, Retries, Alone
  <2>2. Serves(d) /\ queue'[ServerOf[d]].pending = queue[ServerOf[d]].pending
    BY <1>1 DEF WaitInv, SamePending
  <2>3. CASE thread'[d].batch = thread[d].batch
             /\ (thread'[d].pc = thread[d].pc \/ thread'[d].pc \in {"read", "write"})
    BY <1>1, <2>2, <2>3 DEF Serves, Lists
  <2>4. CASE thread'[d].batch = <<>>
    BY <2>4 DEF Serves, Lists
  <2> QED BY <2>1, <2>3, <2>4
<1>4. \A d \in Callers : item'[d] \in {"new", "queued"} => told'[d] = NoValue
  BY <1>1 DEF WaitInv
<1> QED BY <1>2, <1>3, <1>4 DEF WaitInv

LEMMA WaitCollects ==
  ASSUME WaitInv, NEW c \in Callers, Collects(c)
  PROVE  WaitInv'
<1> DEFINE s == ServerOf[c]
<1>1. /\ UNCHANGED <<item, told>> /\ queue'[s].pending = <<>>
      /\ \A r \in Servers \ {s} : queue'[r] = queue[r]
      /\ \A d \in Callers : ServerOf[d] \in Servers
  BY GroupAssumption DEF Collects
<1>2. ASSUME NEW r \in Servers
      PROVE  Lists(queue[r].pending, r)'
  <2>1. CASE r = s
    BY <1>1, <2>1 DEF Lists
  <2>2. CASE r # s
    BY <1>1, <2>2 DEF WaitInv, Lists
  <2> QED BY <2>1, <2>2
<1>3. ASSUME NEW d \in Callers
      PROVE  Serves(d)'
  <2>1. CASE d = c
    <3>1. thread'[c].pc = "read" /\ thread'[c].batch = queue[s].pending
      BY DEF Collects
    <3>2. Lists(thread[c].batch, s)'
      BY <1>1, <3>1 DEF WaitInv, Lists
    <3> QED BY <1>1, <2>1, <3>1, <3>2 DEF Serves
  <2>2. CASE d # c
    <3>1. thread'[d] = thread[d] /\ Serves(d)
      BY <2>2 DEF Collects, Alone, WaitInv
    <3>2. queue'[ServerOf[d]].pending = queue[ServerOf[d]].pending
          \/ queue'[ServerOf[d]].pending = <<>>
      BY <1>1
    <3> QED BY <1>1, <3>1, <3>2 DEF Serves, Lists
  <2> QED BY <2>1, <2>2
<1>4. \A d \in Callers : item'[d] \in {"new", "queued"} => told'[d] = NoValue
  BY <1>1 DEF WaitInv
<1> QED BY <1>2, <1>3, <1>4 DEF WaitInv

LEMMA WaitFinishes ==
  ASSUME Types, WaitInv, OneDrainerPerServer, NEW c \in Callers, Finishes(c)
  PROVE  WaitInv'
<1> DEFINE s == ServerOf[c]
           b == thread[c].batch
<1>0. /\ s \in Servers /\ b \in Seq(Callers)
      /\ \A d \in Callers : ServerOf[d] \in Servers /\ thread[d].batch \in Seq(Callers)
      /\ \A r \in Servers : queue[r].pending \in Seq(Callers)
  BY GroupAssumption, ThreadFacts DEF Types, QueueRecord
<1>1. /\ \A k \in ToSet(b) : ServerOf[k] = s /\ item'[k] \in Outcomes
      /\ \A k \in Callers \ ToSet(b) : item'[k] = item[k] /\ told'[k] = told[k]
  BY DEF Finishes, WaitInv, Serves, Lists, ToSet
<1>2. ASSUME NEW q \in Seq(Callers), NEW r, Lists(q, r), \A i \in DOMAIN q : q[i] \notin ToSet(b)
      PROVE  \A i \in DOMAIN q : item'[q[i]] = "queued"
  BY <1>1, <1>2 DEF Lists
<1>3. ASSUME NEW r \in Servers
      PROVE  Lists(queue[r].pending, r)'
  <2> DEFINE q == queue[r].pending
  <2>1. q \in Seq(Callers) /\ Lists(q, r) /\ queue'[r].pending = q
    BY <1>0 DEF WaitInv, Finishes
  <2>2. \A i \in DOMAIN q : q[i] \notin ToSet(b)
    <3>1. CASE r = s
      <4>1. \A j \in DOMAIN b : \A i \in DOMAIN q : b[j] # q[i]
        BY <3>1 DEF WaitInv, Serves
      <4> QED BY <4>1 DEF ToSet
    <3>2. CASE r # s
      BY <1>1, <2>1, <3>2 DEF Lists
    <3> QED BY <3>1, <3>2
  <2>3. \A i \in DOMAIN q : item'[q[i]] = "queued"
    <3> HIDE DEF q
    <3> QED BY <1>2, <2>1, <2>2
  <2> QED BY <2>1, <2>3 DEF Lists
<1>4. ASSUME NEW d \in Callers
      PROVE  Serves(d)'
  <2>1. CASE d = c
    BY <2>1 DEF Finishes, Serves, Lists
  <2>2. CASE d # c
    <3> DEFINE q == thread[d].batch
               r == ServerOf[d]
    <3>1. /\ thread'[d] = thread[d] /\ Serves(d) /\ q \in Seq(Callers)
          /\ Lists(q, r) /\ UNCHANGED queue
      BY <1>0, <2>2 DEF Finishes, Alone, WaitInv, Serves
    <3>2. \A i \in DOMAIN q : q[i] \notin ToSet(b)
      <4>1. CASE r = s
        <5>1. thread[c].pc \in {"read", "write"}
          BY DEF Finishes, AtWork
        <5>2. thread[d].pc = "idle"
          BY <1>0, <2>2, <4>1, <5>1 DEF OneDrainerPerServer
        <5>3. q = <<>>
          BY <3>1, <5>2 DEF Serves
        <5> QED BY <5>3
      <4>2. CASE r # s
        BY <1>1, <3>1, <4>2 DEF Lists
      <4> QED BY <4>1, <4>2
    <3>3. \A i \in DOMAIN q : item'[q[i]] = "queued"
      <4> HIDE DEF q, r
      <4> QED BY <1>2, <3>1, <3>2
    <3>4. Lists(thread[d].batch, ServerOf[d])'
      BY <3>1, <3>3 DEF Lists
    <3> QED BY <3>1, <3>4 DEF Serves
  <2> QED BY <2>1, <2>2
<1>5. ASSUME NEW d \in Callers, item'[d] \in {"new", "queued"}
      PROVE  told'[d] = NoValue
  <2>1. d \notin ToSet(b)
    BY <1>1, <1>5 DEF Outcomes
  <2> QED BY <1>1, <1>5, <2>1 DEF WaitInv
<1> QED BY <1>3, <1>4, <1>5 DEF WaitInv

-----------------------------------------------------------------------------
(* The document only gets newer, whoever writes it.                        *)
LEMMA EditDoes ==
  ASSUME Types, StoreInv, UpdateReseller \/ DeactivateReseller
  PROVE  /\ doc.version > 0 /\ setting.missing = NoValue /\ doc.value \in Account
         /\ doc' \in Stored /\ doc'.value \in Edited(doc.value) /\ doc'.value \in Account
         /\ doc'.version = doc.version + 1
         /\ edits' \in 0 .. MaxEdits
         /\ UNCHANGED <<setting, queue, thread, item, told, answer, effects>>
<1> DEFINE v == doc.value
<1>1. PICK w \in Edited(v) : FieldUpdate(w)
  BY DEF UpdateReseller, DeactivateReseller, Edited
<1>2. doc.version > 0 /\ setting.missing = NoValue /\ v \in Account /\ doc.version \in Nat
  BY <1>1 DEF FieldUpdate, StoreInv, Types, Stored
<1>3. w \in Account
  <2> HIDE DEF v
  <2>1. \A cap \in NewCaps : cap \in Nat
    BY GroupAssumption
  <2>2. \A cap \in NewCaps : [v EXCEPT !.max_licence_cap = cap] \in Account
    BY <1>2, <2>1 DEF Account
  <2> QED BY <1>1, <1>2, <2>2 DEF Edited
<1>4. doc' = [value |-> w, version |-> doc.version + 1] /\ edits < MaxEdits /\ edits' = edits + 1
      /\ UNCHANGED <<setting, queue, thread, item, told, answer, effects>>
  BY <1>1 DEF FieldUpdate
<1>5. doc' \in Stored /\ doc'.value = w /\ doc'.version = doc.version + 1
  <2> HIDE DEF v
  <2> QED BY <1>2, <1>3, <1>4 DEF Stored
<1>6. edits' \in 0 .. MaxEdits
  BY <1>4, GroupAssumption DEF Types
<1> QED BY <1>1, <1>2, <1>3, <1>4, <1>5, <1>6

LEMMA SeenStays ==
  ASSUME Types, StoreInv, NEW d \in Callers, thread'[d] = thread[d], UNCHANGED setting,
         doc' = doc \/ doc'.version = doc.version + 1
  PROVE  Seen(d)'
<1>1. Seen(d) /\ thread[d].seen.version \in Nat /\ doc.version \in Nat
  BY ThreadFacts DEF StoreInv, Types, Stored
<1>2. Base(thread[d].seen)' = Base(thread[d].seen)
  BY DEF Base
<1> QED BY <1>1, <1>2 DEF Seen

LEMMA KindStores ==
  ASSUME Types, StoreInv, NEW c \in Callers, Kinds(c)
  PROVE  /\ doc' \in Stored /\ UNCHANGED setting
         /\ doc' = doc \/ (doc'.version = doc.version + 1 /\ doc'.value \in Account)
<1>1. doc' = doc \/ Saves(c)
  BY DEF Kinds, Rests, Joins, Collects, Stops, Retries, Breaks, Commits
<1>2. UNCHANGED setting
  BY DEF Kinds, Rests, Joins, Collects, Stops, Retries, Breaks, Commits, Ends
<1>3. CASE doc' = doc
  BY <1>2, <1>3 DEF Types
<1>4. CASE Saves(c)
  BY <1>2, <1>4, SavesTypes
<1> QED BY <1>1, <1>3, <1>4

LEMMA StoreStep ==
  ASSUME Types, StoreInv, NEW c \in Callers, Kinds(c)
  PROVE  StoreInv'
<1>1. /\ doc' \in Stored /\ UNCHANGED setting
      /\ doc' = doc \/ (doc'.version = doc.version + 1 /\ doc'.value \in Account)
  BY KindStores
<1>2. doc'.version > 0 => doc'.value \in Account
  BY <1>1 DEF StoreInv
<1>3. \A d \in Callers \ {c} : thread'[d] = thread[d]
  BY DEF Kinds, Rests, Joins, Collects, Stops, Retries, Breaks, Commits, Ends, Alone
<1>4. Seen(c)'
  <2>1. CASE thread'[c] = thread[c]
    BY <1>1, <2>1, SeenStays
  <2>2. CASE thread'[c].pc # "write"
    BY <2>2 DEF Seen
  <2>3. CASE thread'[c].seen = doc /\ doc' = doc /\ Base(doc) # NoValue
    <3>1. Base(thread[c].seen)' = Base(doc)
      BY <1>1, <2>3 DEF Base
    <3>2. doc.version \in Nat
      BY DEF Types, Stored
    <3> QED BY <2>3, <3>1, <3>2 DEF Seen
  <2>4. \/ thread'[c] = thread[c] \/ thread'[c].pc # "write"
        \/ thread'[c].seen = doc /\ doc' = doc /\ Base(doc) # NoValue
    BY DEF Kinds, Rests, Joins, Collects, Stops, Retries, Breaks, Commits, Ends
  <2> QED BY <2>1, <2>2, <2>3, <2>4
<1>5. \A d \in Callers : Seen(d)'
  BY <1>1, <1>3, <1>4, SeenStays
<1> QED BY <1>2, <1>5 DEF StoreInv

LEMMA CallerTypes ==
  ASSUME Types, StoreInv, WaitInv, OneDrainerPerServer, NEW c \in Callers, CallerStep(c)
  PROVE  /\ edits' = edits
         /\ answer' \in [Callers -> {"none"} \cup Outcomes]
         /\ effects' \in [Callers -> Nat]
<1>1. edits' = edits
  BY DEF CallerStep, ThreadStep, Call, Return, TimeOut, Take, TakeBatch, DrainNext, More, Read,
         Write, WriteAnswerLost, StoreRaises
<1>2. answer' \in [Callers -> {"none"} \cup Outcomes]
  <2>1. CASE Return(c) \/ TimeOut(c)
    <3>1. PICK o \in Outcomes : answer' = [answer EXCEPT ![c] = o]
      BY <2>1 DEF Return, TimeOut, Outcomes
    <3> QED BY <3>1 DEF Types
  <2>2. CASE ~(Return(c) \/ TimeOut(c))
    <3>1. answer' = answer
      BY <2>2 DEF CallerStep, ThreadStep, Call, Take, TakeBatch, DrainNext, More, Read,
                  Write, WriteAnswerLost, StoreRaises
    <3> QED BY <3>1 DEF Types
  <2> QED BY <2>1, <2>2
<1>3. effects' \in [Callers -> Nat]
  <2>1. effects' = effects \/ Save(c)
    BY DEF CallerStep, ThreadStep, Call, Return, TimeOut, Take, TakeBatch, DrainNext, More, Read,
           Write, WriteAnswerLost, StoreRaises
  <2>2. CASE effects' = effects
    BY <2>2 DEF Types
  <2>3. CASE Save(c)
    <3>1. effects \in [Callers -> Nat]
      BY DEF Types
    <3>2. PICK saved \in SUBSET Callers :
             effects' = [k \in Callers |-> IF k \in saved THEN effects[k] + 1 ELSE effects[k]]
      <4> DEFINE run == Working(c)
                 batch == thread[c].batch
                 saved == {k \in Callers : k \in ToSet(batch)
                                           /\ run.outcome[Turn(batch, k)].how = "ok"}
      <4>1. effects' = [k \in Callers |-> IF k \in saved THEN effects[k] + 1 ELSE effects[k]]
        <5>1. effects' = [k \in Callers |->
                 IF k \in ToSet(batch) /\ run.outcome[Turn(batch, k)].how = "ok"
                   THEN effects[k] + 1 ELSE effects[k]]
          BY <2>3 DEF Save
        <5> HIDE DEF run, batch
        <5> QED BY <5>1
      <4> HIDE DEF saved
      <4>2. saved \in SUBSET Callers
        BY DEF saved
      <4> QED BY <4>1, <4>2
    <3> QED BY <3>1, <3>2
  <2> QED BY <2>1, <2>2, <2>3
<1> QED BY <1>1, <1>2, <1>3

(* What the proof of the types, and of the refinement, carries along.      *)
Inv == Types /\ StoreInv /\ WaitInv

LEMMA InvStep ==
  ASSUME Inv, OneDrainerPerServer, [Next]_vars
  PROVE  Inv'
<1>1. CASE UNCHANGED vars
  <2>1. Types'
    BY <1>1 DEF Inv, Types, vars
  <2>2. StoreInv'
    BY <1>1 DEF Inv, StoreInv, Seen, Base, vars
  <2>3. WaitInv'
    BY <1>1 DEF Inv, WaitInv, Serves, Lists, vars
  <2> QED BY <2>1, <2>2, <2>3 DEF Inv
<1>2. CASE UpdateReseller \/ DeactivateReseller
  <2>1. /\ doc' \in Stored /\ doc'.value \in Account /\ doc'.version = doc.version + 1
        /\ edits' \in 0 .. MaxEdits
        /\ UNCHANGED <<setting, queue, thread, item, told, answer, effects>>
    BY <1>2, EditDoes DEF Inv
  <2>2. Types'
    BY <2>1 DEF Inv, Types
  <2>3. \A d \in Callers : Seen(d)'
    BY <2>1, SeenStays DEF Inv
  <2>4. StoreInv'
    BY <2>1, <2>3 DEF StoreInv
  <2>5. WaitInv'
    BY <2>1 DEF Inv, WaitInv, Serves, Lists
  <2> QED BY <2>2, <2>4, <2>5 DEF Inv
<1>3. ASSUME NEW c \in Callers, CallerStep(c)
      PROVE  Inv'
  <2>1. /\ Kinds(c)
        /\ queue' \in [Servers -> QueueRecord] /\ thread' \in [Callers -> ThreadRecord]
    BY <1>3, CallerStepDoes DEF Inv, Kinds
  <2>2. StoreInv' /\ doc' \in Stored /\ UNCHANGED setting
    BY <2>1, StoreStep, KindStores DEF Inv
  <2>3. /\ item' \in [Callers -> {"new", "queued"} \cup Outcomes]
        /\ told' \in [Callers -> Told]
    <3>1. CASE Breaks(c) \/ Commits(c)
      BY <3>1, EndsFinishes DEF Inv
    <3>2. CASE Joins(c)
      BY <3>2 DEF Inv, Types, Joins
    <3>3. CASE UNCHANGED <<item, told>>
      BY <3>3 DEF Inv, Types
    <3> QED BY <2>1, <3>1, <3>2, <3>3 DEF Kinds, Rests, Collects, Stops, Retries
  <2>4. WaitInv'
    <3>1. CASE Breaks(c) \/ Commits(c)
      BY <3>1, EndsFinishes, WaitFinishes DEF Inv
    <3> QED BY <2>1, <3>1, WaitRests, WaitJoins, WaitCollects DEF Inv, Kinds
  <2>5. /\ edits' = edits
        /\ answer' \in [Callers -> {"none"} \cup Outcomes]
        /\ effects' \in [Callers -> Nat]
    BY <1>3, CallerTypes DEF Inv
  <2>6. Types'
    BY <2>1, <2>2, <2>3, <2>5 DEF Inv, Types
  <2> QED BY <2>2, <2>4, <2>6 DEF Inv
<1> QED BY <1>1, <1>2, <1>3 DEF Next

LEMMA InvInit == Init => Inv
<1> SUFFICES ASSUME Init PROVE Inv
  OBVIOUS
<1>1. /\ queue = [s \in Servers |-> [pending |-> <<>>, active |-> FALSE]]
      /\ thread = [c \in Callers |-> Idle]
      /\ item = [c \in Callers |-> "new"] /\ told = [c \in Callers |-> NoValue]
      /\ answer = [c \in Callers |-> "none"] /\ effects = [c \in Callers |-> 0] /\ edits = 0
      /\ setting \in [missing : {Fresh(Missing), NoValue}, lossy : {FALSE, "lostAnswer" \in Faults}]
  BY DEF Init
<1>2. doc \in Stored /\ (doc.version > 0 => doc.value \in Account)
  <2>1. CASE doc = [value |-> NoValue, version |-> 0]
    BY <2>1 DEF Stored
  <2>2. CASE doc = [value |-> Fresh(InitialValue), version |-> 1]
    BY <2>2, FreshIsAccount DEF Stored
  <2> QED BY <2>1, <2>2 DEF Init
<1>3. \A c \in Callers : thread[c].pc = "idle" /\ thread[c].batch = <<>>
  BY <1>1, IdleIsThread
<1>4. \A s \in Servers : queue[s].pending = <<>> /\ queue[s] \in QueueRecord
  <2> DEFINE q == [pending |-> <<>>, active |-> FALSE]
  <2>1. q \in QueueRecord /\ q.pending = <<>>
    BY DEF QueueRecord
  <2> HIDE DEF q
  <2>2. \A s \in Servers : queue[s] = q
    BY <1>1 DEF q
  <2> QED BY <2>1, <2>2
<1>5. Types
  <2>1. queue \in [Servers -> QueueRecord]
    BY <1>1, <1>4
  <2>2. thread \in [Callers -> ThreadRecord]
    BY <1>1, IdleIsThread
  <2>3. setting \in [missing : {Fresh(Missing), NoValue}, lossy : BOOLEAN]
    <3>1. ("lostAnswer" \in Faults) \in BOOLEAN
      OBVIOUS
    <3> QED BY <1>1, <3>1
  <2>4. /\ item \in [Callers -> {"new", "queued"} \cup Outcomes]
        /\ told \in [Callers -> Told]
        /\ answer \in [Callers -> {"none"} \cup Outcomes]
        /\ effects \in [Callers -> Nat] /\ edits \in 0 .. MaxEdits
    BY <1>1, GroupAssumption DEF Told
  <2> QED BY <1>2, <2>1, <2>2, <2>3, <2>4 DEF Types
<1>6. StoreInv
  BY <1>2, <1>3 DEF StoreInv, Seen
<1>7. WaitInv
  BY <1>1, <1>3, <1>4 DEF WaitInv, Serves, Lists
<1> QED BY <1>5, <1>6, <1>7 DEF Inv

(* TypeOK for every set of callers and updates, whatever the store does: a *)
(* document that is there stays a number of licences from 0 up and a cap,  *)
(* no batch is tried more than MAX_ATTEMPTS times, and an item that has    *)
(* been told a value was told such a document.                             *)
THEOREM TypeCorrect == Spec => []TypeOK
<1>1. Types => TypeOK
  BY DEF Types, TypeOK, Stored, Told, ThreadRecord, QueueRecord
<1>2. Inv => TypeOK
  BY <1>1 DEF Inv
<1>3. Inv /\ OneDrainerPerServer /\ [Next]_vars => Inv'
  BY InvStep
<1> QED BY <1>2, <1>3, InvInit, OneDrainer, PTL DEF Spec

-----------------------------------------------------------------------------
(* The steps are those of the document that changes in one instant.        *)
LEMMA SameOperators ==
  ASSUME NEW S
  PROVE  /\ Document!ToSet(S) = ToSet(S)
         /\ Document!SetToAllKPermutations(S) = SetToAllKPermutations(S)
<1>1. Document!ToSet(S) = ToSet(S)
  BY DEF Document!ToSet, ToSet
<1>2. Document!SetToAllKPermutations(S) = SetToAllKPermutations(S)
  BY DEF Document!SetToAllKPermutations, SetToAllKPermutations, Document!SetToSeqs, SetToSeqs,
         Document!Cardinality, Cardinality
<1> QED BY <1>1, <1>2

LEMMA BatchIsPending ==
  ASSUME Types, WaitInv, NEW c \in Callers
  PROVE  /\ ToSet(thread[c].batch) \in SUBSET Document!Pending
         /\ thread[c].batch \in Document!SetToAllKPermutations(Document!Pending)
<1> DEFINE b == thread[c].batch
           n == Len(b)
           group == ToSet(b)
<1>1. b \in Seq(Callers) /\ n \in Nat /\ DOMAIN b = 1 .. n
  BY ThreadFacts
<1>2. /\ \A i, j \in DOMAIN b : b[i] = b[j] => i = j
      /\ \A i \in DOMAIN b : item[b[i]] = "queued"
  BY DEF WaitInv, Serves, Lists
<1>3. group = {b[i] : i \in DOMAIN b}
  BY DEF ToSet
<1> HIDE DEF b, n, group
<1>4. group \in SUBSET Document!Pending
  BY <1>1, <1>2, <1>3 DEF Document!Pending
<1>5. Cardinality(group) = n
  <2>1. IsFiniteSet(1 .. n) /\ Cardinality(1 .. n) = n
    BY <1>1, FS_Interval
  <2>2. b \in [1 .. n -> group]
    BY <1>1, <1>3
  <2>3. b \in Surjection(1 .. n, group)
    BY <1>1, <1>3, <2>2 DEF Surjection
  <2>4. b \in Injection(1 .. n, group)
    BY <1>1, <1>2, <2>2 DEF Injection, IsInjective
  <2> QED BY <2>1, <2>3, <2>4, FS_Surjection
<1>6. b \in SetToSeqs(group)
  <2>1. b \in [1 .. n -> group]
    BY <1>1, <1>3
  <2> QED BY <1>1, <1>2, <1>5, <2>1 DEF SetToSeqs
<1>7. b \in Document!SetToAllKPermutations(Document!Pending)
  BY <1>4, <1>6, SameOperators DEF SetToAllKPermutations
<1> QED BY <1>4, <1>7 DEF b, group

LEMMA SavesIsValue ==
  ASSUME Types, NEW c \in Callers, Saves(c)
  PROVE  /\ Base(doc) # NoValue /\ Base(doc)' = doc'.value
         /\ doc'.value = Document!Values(thread[c].batch)[Len(thread[c].batch)]
<1> DEFINE b == thread[c].batch
           w == ApplyBatch(Base(doc), b).working
<1>1. b \in Seq(Callers) /\ Base(doc) \in Account
      /\ doc' = [value |-> w, version |-> doc.version + 1]
  BY ThreadFacts DEF Saves
<1> HIDE DEF b
<1>2. PICK vals : Follows(vals, Base(doc), b) /\ w = vals[Len(b)]
  BY <1>1, BatchRuns
<1>3. Document!Values(b) = vals
  BY <1>1, <1>2, ValuesFollow
<1>4. doc'.value = w
  <2> HIDE DEF w
  <2> QED BY <1>1
<1>5. Base(doc)' = doc'.value /\ Base(doc) # NoValue
  <2>1. doc'.version # 0
    BY SavesTypes DEF Types, Stored
  <2> QED BY <1>1, <2>1, GroupAssumption DEF Base
<1> QED BY <1>2, <1>3, <1>4, <1>5 DEF b

LEMMA EchoIsStep ==
  ASSUME NEW order \in Document!SetToAllKPermutations(Document!Pending),
         NEW group \in SUBSET Document!Pending,
         Base(doc) # NoValue, UNCHANGED setting, Document!Echo(order, group)
  PROVE  Document!DocNext
<1>1. \E g \in SUBSET Document!Pending : Document!Echo(order, g)
  OBVIOUS
<1>2. \E o \in Document!SetToAllKPermutations(Document!Pending) :
        \E g \in SUBSET Document!Pending : Document!Echo(o, g)
  BY <1>1
<1> QED BY <1>2, Zenon DEF Document!DocNext

LEMMA RetriesEchoes ==
  ASSUME Inv, NEW c \in Callers, Retries(c)
  PROVE  [Document!DocNext]_(Document!docVars)
<1>1. UNCHANGED <<setting, item, told>>
  BY DEF Retries
<1>2. CASE doc' = doc
  BY <1>1, <1>2 DEF Document!docVars, Base
<1>3. CASE setting.lossy /\ Saves(c)
  <2> DEFINE b == thread[c].batch
  <2>1. /\ Base(doc) # NoValue /\ Base(doc)' = Document!Values(b)[Len(b)]
    BY <1>3, SavesIsValue DEF Inv
  <2>2. b \in Document!SetToAllKPermutations(Document!Pending)
    BY BatchIsPending DEF Inv
  <2>3. item' = [k \in Callers |-> IF k \in {} THEN "error" ELSE item[k]]
    BY <1>1 DEF Inv, Types
  <2> HIDE DEF b
  <2>4. Document!Echo(b, {})
    BY <1>1, <1>3, <2>1, <2>3 DEF Document!Echo
  <2>5. {} \in SUBSET Document!Pending
    OBVIOUS
  <2> QED BY <1>1, <2>1, <2>2, <2>4, <2>5, EchoIsStep
<1> QED BY <1>2, <1>3 DEF Retries

LEMMA BreaksFails ==
  ASSUME Inv, NEW c \in Callers, Breaks(c)
  PROVE  [Document!DocNext]_(Document!docVars)
<1> DEFINE b == thread[c].batch
           group == ToSet(b)
<1>1. UNCHANGED setting /\ FinishAll(b, "error")
  BY DEF Breaks, Ends
<1>2. /\ item' \in [Callers -> {"new", "queued"} \cup Outcomes]
      /\ told' \in [Callers -> Told]
      /\ \A k \in Callers \ group : item'[k] = item[k] /\ told'[k] = told[k]
      /\ \A k \in group : item'[k] = "error" /\ told'[k] = NoValue
  BY <1>1, BreaksDoes DEF Inv
<1>3. /\ group \in SUBSET Document!Pending
      /\ b \in Document!SetToAllKPermutations(Document!Pending)
  BY BatchIsPending DEF Inv
<1> HIDE DEF group, b
<1>4. \A k \in group : k \in Callers /\ told[k] = NoValue
  BY <1>3 DEF Document!Pending, Inv, WaitInv
<1>5. told' = told
  BY <1>2, <1>4 DEF Inv, Types
<1>6. item' = [k \in Callers |-> IF k \in group THEN "error" ELSE item[k]]
  BY <1>2
<1>7. CASE doc' = doc
  <2>1. Base(doc)' = Base(doc)
    BY <1>1, <1>7 DEF Base
  <2>2. Document!Fail(group)
    BY <1>5, <1>6, <2>1 DEF Document!Fail
  <2> QED BY <1>1, <1>3, <2>2 DEF Document!DocNext
<1>8. CASE setting.lossy /\ Saves(c)
  <2>1. /\ Base(doc) # NoValue /\ Base(doc)' = Document!Values(b)[Len(b)]
    BY <1>8, SavesIsValue DEF Inv, b
  <2>2. Document!Echo(b, group)
    BY <1>5, <1>6, <1>8, <2>1 DEF Document!Echo
  <2> QED BY <1>1, <1>3, <2>1, <2>2, EchoIsStep
<1> QED BY <1>7, <1>8 DEF Breaks

LEMMA CommitsCommits ==
  ASSUME Inv, NEW c \in Callers, Commits(c)
  PROVE  [Document!DocNext]_(Document!docVars)
<1> DEFINE b == thread[c].batch
           group == Document!ToSet(b)
<1>1. UNCHANGED setting /\ Base(doc) \in Account /\ b \in Seq(Callers)
  BY ThreadFacts DEF Commits, Ends, Inv
<1>2. PICK vals :
         /\ Follows(vals, Base(doc), b)
         /\ item' \in [Callers -> {"new", "queued"} \cup Outcomes]
         /\ told' \in [Callers -> Told]
         /\ \A k \in Callers \ group : item'[k] = item[k] /\ told'[k] = told[k]
         /\ \A k \in group :
              /\ Turn(b, k) \in DOMAIN b /\ b[Turn(b, k)] = k
              /\ item'[k] = OutcomeAt(vals, b, Turn(b, k)).how
              /\ told'[k] = OutcomeAt(vals, b, Turn(b, k)).value
         /\ \/ doc' = doc /\ Base(doc) = vals[Len(b)]
            \/ doc' = [value |-> vals[Len(b)], version |-> doc.version + 1]
  BY CommitsDoes, SameOperators DEF Inv
<1>3. /\ group \in SUBSET Document!Pending
      /\ b \in Document!SetToAllKPermutations(Document!Pending)
  BY BatchIsPending, SameOperators DEF Inv
<1> HIDE DEF group, b
<1>4. \A k \in group : k \in Callers /\ told[k] = NoValue
  BY <1>3 DEF Document!Pending, Inv, WaitInv
<1> DEFINE at == Document!Values(b)
           rejected(k) == Rejects(at[Turn(b, k) - 1], k)
<1>5. at = vals
  BY <1>1, <1>2, ValuesFollow
<1> HIDE DEF at
<1>6. Base(doc)' = at[Len(b)]
  <2>1. CASE doc' = doc /\ Base(doc) = vals[Len(b)]
    BY <1>1, <1>5, <2>1 DEF Base
  <2>2. CASE doc' = [value |-> vals[Len(b)], version |-> doc.version + 1]
    <3> DEFINE w == vals[Len(b)]
    <3> HIDE DEF w
    <3>1. doc'.value = w /\ doc'.version # 0
      BY <2>2 DEF w, Inv, Types, Stored
    <3> QED BY <1>5, <3>1 DEF Base, w
  <2> QED BY <1>2, <2>1, <2>2
<1>7. ASSUME NEW k \in group
      PROVE  /\ item'[k] = IF rejected(k) THEN "refused" ELSE "ok"
             /\ told'[k] = IF rejected(k) THEN told[k] ELSE at[Turn(b, k)]
  <2> DEFINE i == Turn(b, k)
             refused == [how |-> "refused", value |-> NoValue]
             ok == [how |-> "ok", value |-> at[i]]
  <2>1. b[i] = k
    BY <1>2
  <2>2. OutcomeAt(at, b, i) = IF rejected(k) THEN refused ELSE ok
    <3> HIDE DEF i
    <3> QED BY <2>1 DEF OutcomeAt, i
  <2>3. /\ refused.how = "refused" /\ refused.value = NoValue
        /\ ok.how = "ok" /\ ok.value = at[i]
    OBVIOUS
  <2>4. told[k] = NoValue
    BY <1>4
  <2>5. item'[k] = OutcomeAt(at, b, i).how /\ told'[k] = OutcomeAt(at, b, i).value
    BY <1>2, <1>5
  <2> HIDE DEF i, refused, ok, rejected
  <2> QED BY <2>2, <2>3, <2>4, <2>5 DEF i
<1>8. item' = [k \in Callers |-> IF k \notin group THEN item[k]
                                 ELSE IF rejected(k) THEN "refused" ELSE "ok"]
  <2> HIDE DEF rejected
  <2> QED BY <1>2, <1>7
<1>9. told' = [k \in Callers |-> IF k \notin group \/ rejected(k) THEN told[k]
                                 ELSE at[Turn(b, k)]]
  <2> HIDE DEF rejected
  <2>1. \A k \in Callers : told'[k] = IF k \notin group \/ rejected(k) THEN told[k]
                                      ELSE at[Turn(b, k)]
    BY <1>2, <1>7
  <2> QED BY <1>2, <2>1
<1>10. Document!Commit(b)
  BY <1>6, <1>8, <1>9, Zenon DEF Document!Commit, Turn, group, at
<1>11. Base(doc) # NoValue
  BY <1>1, GroupAssumption
<1>12. \E order \in Document!SetToAllKPermutations(Document!Pending) : Document!Commit(order)
  BY <1>3, <1>10
<1> QED BY <1>1, <1>11, <1>12, Zenon DEF Document!DocNext

LEMMA RefinementStep ==
  ASSUME Inv, OneDrainerPerServer, [Next]_vars
  PROVE  [Document!DocNext]_(Document!docVars)
<1>1. CASE UNCHANGED <<doc, setting, item, told>>
  BY <1>1 DEF Document!docVars, Base
<1>2. CASE UpdateReseller \/ DeactivateReseller
  <2>1. /\ doc.version > 0 /\ doc.value \in Account /\ doc'.value \in Edited(doc.value)
        /\ doc'.version = doc.version + 1 /\ UNCHANGED <<setting, item, told>>
    BY <1>2, EditDoes DEF Inv
  <2>2. doc.version \in Nat
    BY DEF Inv, Types, Stored
  <2>3. Base(doc) = doc.value /\ Base(doc)' = doc'.value /\ doc.value # NoValue
    BY <2>1, <2>2, GroupAssumption DEF Base
  <2>4. Document!Edit
    BY <2>1, <2>3 DEF Document!Edit
  <2> QED BY <2>1, <2>4 DEF Document!DocNext
<1>3. ASSUME NEW c \in Callers, CallerStep(c)
      PROVE  [Document!DocNext]_(Document!docVars)
  <2>1. Kinds(c)
    BY <1>3, CallerStepDoes DEF Inv, Kinds
  <2>2. CASE Joins(c)
    <3>1. /\ item[c] = "new" /\ item' = [item EXCEPT ![c] = "queued"]
          /\ UNCHANGED <<doc, setting, told>>
      BY <2>2 DEF Joins
    <3>2. Base(doc)' = Base(doc)
      BY <3>1 DEF Base
    <3>3. Document!Invoke(c)
      BY <3>1, <3>2 DEF Document!Invoke
    <3> QED BY <3>1, <3>3 DEF Document!DocNext
  <2>3. CASE Rests \/ Collects(c) \/ Stops(c)
    BY <1>1, <2>3 DEF Rests, Collects, Stops
  <2> QED BY <2>1, <2>2, <2>3, RetriesEchoes, BreaksFails, CommitsCommits DEF Kinds
<1> QED BY <1>1, <1>2, <1>3 DEF Next, vars

(* ImplementsAtomicDocument, for every set of callers, servers, updates,   *)
(* batches and faults: what save_if_version lets through is, item by item  *)
(* in the order of the batch, a change of the document in one instant, and *)
(* what the callers are told is what that instant decided.                 *)
THEOREM DocumentIsAtomic == Spec => ImplementsAtomicDocument
<1>1. Init => Document!DocInit
  BY DEF Init, Document!DocInit
<1>2. Inv /\ OneDrainerPerServer /\ [Next]_vars => [Document!DocNext]_(Document!docVars)
  BY RefinementStep
<1>3. Inv /\ OneDrainerPerServer /\ [Next]_vars => Inv'
  BY InvStep
<1> QED BY <1>1, <1>2, <1>3, InvInit, OneDrainer, PTL
     DEF Spec, ImplementsAtomicDocument, Document!DocSpec

-----------------------------------------------------------------------------
(* Where the promise holds without exception: what the runs refute needs   *)
(* an answer that gets lost, or a caller that stops waiting.               *)
LEMMA ItemsAreFinal ==
  ASSUME Inv, OneDrainerPerServer, [Next]_vars
  PROVE  \A k \in Callers : item[k] \in Outcomes => item'[k] = item[k]
<1>1. CASE UNCHANGED item
  BY <1>1
<1>2. ASSUME NEW c \in Callers, CallerStep(c)
      PROVE  \A k \in Callers : item[k] \in Outcomes => item'[k] = item[k]
  <2>1. Kinds(c)
    BY <1>2, CallerStepDoes DEF Inv, Kinds
  <2>2. CASE Joins(c)
    BY <2>2 DEF Joins, Inv, Types, Outcomes
  <2>3. CASE Breaks(c) \/ Commits(c)
    <3>1. \A k \in Callers \ ToSet(thread[c].batch) : item'[k] = item[k]
      BY <2>3, EndsFinishes DEF Inv, Finishes
    <3>2. \A k \in ToSet(thread[c].batch) : item[k] = "queued"
      BY DEF Inv, WaitInv, Serves, Lists, ToSet
    <3> QED BY <3>1, <3>2 DEF Outcomes
  <2>4. CASE UNCHANGED item
    BY <2>4
  <2> QED BY <2>1, <2>2, <2>3, <2>4 DEF Kinds, Rests, Collects, Stops, Retries
<1> QED BY <1>1, <1>2 DEF Next, vars, UpdateReseller, DeactivateReseller, FieldUpdate

(* An update has been saved once if its item says so, and never otherwise. *)
EffectsInv ==
  /\ setting.lossy = FALSE
  /\ \A k \in Callers : effects[k] = IF item[k] = "ok" THEN 1 ELSE 0

(* Nobody is told anything but what the item says.                         *)
AnswerInv ==
  \A k \in Callers : answer[k] # "none" => answer[k] = item[k] /\ item[k] \in Outcomes

LEMMA EffectsOfError ==
  ASSUME Inv, EffectsInv, NEW c \in Callers, FinishAll(thread[c].batch, "error"),
         UNCHANGED <<setting, effects>>
  PROVE  EffectsInv'
<1> DEFINE b == thread[c].batch
<1>1. /\ \A k \in Callers \ ToSet(b) : item'[k] = item[k]
      /\ \A k \in ToSet(b) : item'[k] = "error"
  BY BreaksDoes DEF Inv
<1>2. \A k \in ToSet(b) : item[k] = "queued"
  BY DEF Inv, WaitInv, Serves, Lists, ToSet
<1> QED BY <1>1, <1>2 DEF EffectsInv

LEMMA EffectsOfRefusals ==
  ASSUME Inv, EffectsInv, NEW c \in Callers, UNCHANGED <<setting, effects>>,
         Base(doc) # NoValue, ~ApplyBatch(Base(doc), thread[c].batch).applied,
         FinishWith(thread[c].batch, ApplyBatch(Base(doc), thread[c].batch).outcome)
  PROVE  EffectsInv'
<1> DEFINE b == thread[c].batch
           run == ApplyBatch(Base(doc), b)
           outcome == run.outcome
           refused == [how |-> "refused", value |-> NoValue]
<1>1. b \in Seq(Callers) /\ Base(doc) \in Account /\ DOMAIN b = 1 .. Len(b)
  BY ThreadFacts, BaseTypes DEF Inv
<1>2. /\ \A i, j \in DOMAIN b : b[i] = b[j] => i = j
      /\ \A k \in ToSet(b) : item[k] = "queued"
  BY DEF Inv, WaitInv, Serves, Lists, ToSet
<1>3. refused.how = "refused" /\ refused.value = NoValue
  OBVIOUS
<1> HIDE DEF b, refused
<1>4. \A i \in DOMAIN b : outcome[i] = refused
  <2>1. PICK vals :
           /\ Follows(vals, Base(doc), b)
           /\ run.working = vals[Len(b)]
           /\ run.applied \in BOOLEAN
           /\ ~run.applied =>
                /\ run.working = Base(doc)
                /\ \A i \in 1 .. Len(b) : Rejects(vals[i - 1], b[i])
           /\ \A i \in 1 .. Len(b) : run.outcome[i] = OutcomeAt(vals, b, i)
    BY <1>1, BatchRuns, Zenon
  <2>2. ~run.applied
    BY DEF b
  <2> HIDE DEF run
  <2> QED BY <1>1, <2>1, <2>2 DEF OutcomeAt, refused
<1>5. FinishWith(b, outcome)
  BY DEF b
<1> HIDE DEF outcome
<1>6. \A i \in DOMAIN b : outcome[i].how \in Outcomes /\ outcome[i].value \in Told
  BY <1>3, <1>4 DEF Outcomes, Told
<1>7. /\ \A k \in Callers \ ToSet(b) : item'[k] = item[k]
      /\ \A k \in ToSet(b) :
           Turn(b, k) \in DOMAIN b /\ item'[k] = outcome[Turn(b, k)].how
  BY <1>1, <1>2, <1>5, <1>6, FinishDoes DEF Inv
<1>8. \A k \in ToSet(b) : item'[k] = "refused"
  BY <1>3, <1>4, <1>7
<1> QED BY <1>2, <1>7, <1>8 DEF EffectsInv

LEMMA EffectsOfSave ==
  ASSUME Inv, EffectsInv, NEW c \in Callers, UNCHANGED setting, Save(c),
         FinishWith(thread[c].batch, Working(c).outcome)
  PROVE  EffectsInv'
<1> DEFINE b == thread[c].batch
           outcome == Working(c).outcome
<1>1. \A k \in ToSet(b) : item[k] = "queued"
  BY DEF Inv, WaitInv, Serves, Lists, ToSet
<1>2. effects' = [k \in Callers |-> IF k \in ToSet(b) /\ outcome[Turn(b, k)].how = "ok"
                                    THEN effects[k] + 1 ELSE effects[k]]
  BY DEF Save
<1>3. item' = [k \in Callers |-> IF k \in ToSet(b) THEN outcome[Turn(b, k)].how ELSE item[k]]
  BY DEF FinishWith
<1> HIDE DEF b, outcome
<1>4. ASSUME NEW k \in Callers
      PROVE  effects'[k] = IF item'[k] = "ok" THEN 1 ELSE 0
  <2>1. effects[k] = IF item[k] = "ok" THEN 1 ELSE 0
    BY DEF EffectsInv
  <2>2. CASE k \in ToSet(b)
    BY <1>1, <1>2, <1>3, <2>1, <2>2
  <2>3. CASE k \notin ToSet(b)
    BY <1>2, <1>3, <2>1, <2>3
  <2> QED BY <2>2, <2>3
<1> QED BY <1>4 DEF EffectsInv

LEMMA EffectsStep ==
  ASSUME Inv, EffectsInv, [Next]_vars
  PROVE  EffectsInv'
<1>1. CASE UNCHANGED <<setting, item, effects>>
  BY <1>1 DEF EffectsInv
<1>2. CASE UpdateReseller \/ DeactivateReseller
  BY <1>1, <1>2 DEF UpdateReseller, DeactivateReseller, FieldUpdate
<1>3. ASSUME NEW c \in Callers, CallerStep(c)
      PROVE  EffectsInv'
  <2>1. CASE Call(c)
    <3>1. /\ item[c] = "new" /\ item' = [item EXCEPT ![c] = "queued"]
          /\ UNCHANGED <<setting, effects>>
      BY <2>1 DEF Call
    <3> QED BY <3>1 DEF EffectsInv, Inv, Types
  <2>2. CASE Return(c) \/ TimeOut(c) \/ Take(c) \/ DrainNext(c) \/ More(c)
    BY <1>1, <2>2 DEF Return, TimeOut, Take, TakeBatch, DrainNext, More
  <2>3. CASE Read(c)
    BY <1>1, <2>3, EffectsOfError, EffectsOfRefusals DEF Read
  <2>4. CASE Write(c)
    <3>1. CASE LostRace(c) /\ UNCHANGED <<effects, setting>>
      BY <1>1, <3>1, EffectsOfError DEF LostRace
    <3> QED BY <2>4, <3>1, EffectsOfSave DEF Write
  <2>5. CASE StoreRaises(c)
    BY <2>5, EffectsOfError DEF StoreRaises
  <2>6. ~WriteAnswerLost(c)
    BY DEF WriteAnswerLost, EffectsInv
  <2> QED BY <1>3, <2>1, <2>2, <2>3, <2>4, <2>5, <2>6 DEF CallerStep, ThreadStep
<1> QED BY <1>1, <1>2, <1>3 DEF Next, vars

LEMMA AnswerStep ==
  ASSUME "timeout" \notin Faults, Inv, OneDrainerPerServer, AnswerInv, [Next]_vars
  PROVE  AnswerInv'
<1>1. \A k \in Callers : item[k] \in Outcomes => item'[k] = item[k]
  BY ItemsAreFinal
<1>2. CASE UNCHANGED answer
  BY <1>1, <1>2 DEF AnswerInv
<1>3. ASSUME NEW c \in Callers, Return(c)
      PROVE  AnswerInv'
  <2>1. item[c] \in Outcomes /\ answer' = [answer EXCEPT ![c] = item[c]] /\ item' = item
    BY <1>3 DEF Return
  <2> QED BY <2>1 DEF AnswerInv, Inv, Types
<1>4. UNCHANGED answer \/ \E c \in Callers : Return(c)
  BY DEF Next, vars, CallerStep, ThreadStep, Call, TimeOut, Take, TakeBatch, DrainNext, More,
         Read, Write, WriteAnswerLost, StoreRaises, UpdateReseller, DeactivateReseller,
         FieldUpdate
<1> QED BY <1>2, <1>3, <1>4

LEMMA EffectsInit ==
  ASSUME "lostAnswer" \notin Faults, Init
  PROVE  EffectsInv
<1>1. setting.lossy \in {FALSE, "lostAnswer" \in Faults}
  BY DEF Init
<1>2. setting.lossy = FALSE
  <2> DEFINE lost == "lostAnswer" \in Faults
             lossy == setting.lossy
  <2>1. lost = FALSE
    OBVIOUS
  <2>2. lossy \in {FALSE, lost}
    BY <1>1
  <2> HIDE DEF lost, lossy
  <2>3. lossy = FALSE
    BY <2>1, <2>2
  <2> QED BY <2>3 DEF lossy
<1>3. \A k \in Callers : effects[k] = 0 /\ item[k] = "new"
  BY DEF Init
<1> QED BY <1>2, <1>3 DEF EffectsInv

(* AppliedAtMostOnce, as long as the store's answers arrive: the version   *)
(* of save_if_version lets no batch be saved twice, whatever is read,      *)
(* refused, raced for or given up.                                         *)
THEOREM UpdatesAreSavedOnce ==
  ASSUME "lostAnswer" \notin Faults
  PROVE  Spec => []AppliedAtMostOnce
<1>1. EffectsInv => AppliedAtMostOnce
  BY DEF EffectsInv, AppliedAtMostOnce
<1>2. Init => EffectsInv
  BY EffectsInit
<1>3. Inv /\ OneDrainerPerServer /\ [Next]_vars => Inv'
  BY InvStep
<1>4. Inv /\ EffectsInv /\ [Next]_vars => EffectsInv'
  BY EffectsStep
<1> QED BY <1>1, <1>2, <1>3, <1>4, InvInit, OneDrainer, PTL DEF Spec

(* ErrorMeansNotApplied, as long as the answers arrive and nobody stops    *)
(* waiting: accept() may then forget a request that was told of an error.  *)
THEOREM ErrorsChangeNothing ==
  ASSUME "lostAnswer" \notin Faults, "timeout" \notin Faults
  PROVE  Spec => []ErrorMeansNotApplied
<1>1. EffectsInv /\ AnswerInv => ErrorMeansNotApplied
  BY DEF EffectsInv, AnswerInv, ErrorMeansNotApplied
<1>2. Init => EffectsInv /\ AnswerInv
  BY EffectsInit DEF Init, AnswerInv
<1>3. Inv /\ OneDrainerPerServer /\ [Next]_vars => Inv'
  BY InvStep
<1>4. Inv /\ EffectsInv /\ [Next]_vars => EffectsInv'
  BY EffectsStep
<1>5. Inv /\ OneDrainerPerServer /\ AnswerInv /\ [Next]_vars => AnswerInv'
  BY AnswerStep
<1> QED BY <1>1, <1>2, <1>3, <1>4, <1>5, InvInit, OneDrainer, PTL DEF Spec
=============================================================================
