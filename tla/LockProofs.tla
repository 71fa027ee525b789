----------------------------- MODULE LockProofs -----------------------------
(***************************************************************************)
(* The domain lock over a store whose versions are unique: it implements   *)
(* the atomic lease lock, for every set of clients, with and without       *)
(* answers that get lost.                                                  *)
(***************************************************************************)
EXTENDS DomainLock, TLAPS

(* What a thread that has read the document knows while the version it     *)
(* read is still the current one, and why a client that has lost a race    *)
(* may be refused.                                                         *)
VersionsGrow ==
  /\ doc.version <= clock
  /\ \A c \in Clients : seen[c] <= clock /\ read[c] <= clock

ReadersKnow ==
  \A c \in Clients :
    /\ pc[c] = "drop" /\ Matches(seen[c]) => doc.token = c
    /\ pc[c] = "over" /\ Matches(seen[c]) => ~doc.live
    /\ beat[c] = "save" /\ Matches(read[c]) => doc.token = c

LosersHaveCause ==
  \A c \in Clients :
    /\ pc[c] = "try" /\ Exists => cause[c]
    /\ pc[c] \in {"look", "again", "over"} => cause[c]

LockInv ==
  /\ doc.live => Exists
  /\ VersionsGrow
  /\ ReadersKnow
  /\ LosersHaveCause

-----------------------------------------------------------------------------
LEMMA DocFields ==
  ASSUME TypeOK
  PROVE  /\ doc.token \in Clients \cup {NoOwner}
         /\ doc.live \in BOOLEAN
         /\ doc.version \in Nat
BY DEF TypeOK

LEMMA SaveTypes ==
  ASSUME TypeOK, NEW c \in Clients, Save(c)
  PROVE  /\ clock' \in Nat
         /\ doc' \in [token: Clients \cup {NoOwner}, live: BOOLEAN, version: Nat]
BY DEF Save, NextVersion, TypeOK

LEMMA SaveEffect ==
  ASSUME Unique, TypeOK, NEW c \in Clients, Save(c)
  PROVE  /\ clock' = clock + 1
         /\ doc' = [token |-> c, live |-> TRUE, version |-> clock + 1]
         /\ clock' \in Nat
         /\ doc' \in [token: Clients \cup {NoOwner}, live: BOOLEAN, version: Nat]
         /\ doc'.token = c /\ doc'.live /\ doc'.version = clock + 1
BY DEF Save, NextVersion, TypeOK

(* A client's write that is accepted, known to it or not.                  *)
Written(c) ==
  \/ Won(c)
  \/ \E step \in {"look", "refused"} : WonUnseen(c, step)

(* The four kinds of steps of acquire(), by what they do to the lock.      *)
LEMMA AcquireSteps ==
  ASSUME NEW c \in Clients, Create(c) \/ Again(c) \/ TakeOver(c)
  PROVE  /\ pc[c] \in {"try", "again", "over"}
         /\ UNCHANGED <<seen, read>>
         /\ \/ Written(c) /\ (~Exists \/ (pc[c] = "over" /\ Matches(seen[c])))
            \/ Lost(c, "look") /\ pc[c] = "try" /\ Exists
            \/ Lost(c, "refused") /\ pc[c] \in {"again", "over"}
BY DEF Create, Again, TakeOver, Written

LEMMA LookSteps ==
  ASSUME TypeOK, NEW c \in Clients, Look(c)
  PROVE  /\ pc[c] = "look"
         /\ UNCHANGED <<doc, clock, beat, read, cause>>
         /\ seen' = [seen EXCEPT ![c] = doc.version]
         /\ \/ pc' = [pc EXCEPT ![c] = "again"]
            \/ pc' = [pc EXCEPT ![c] = "refused"]
            \/ pc' = [pc EXCEPT ![c] = "over"] /\ ~doc.live
BY DEF Look, Goto

LEMMA WrittenEffect ==
  ASSUME TypeOK, NEW c \in Clients, pc[c] \in Asking, Written(c)
  PROVE  /\ Save(c)
         /\ \E step \in {"holding", "look", "refused"} : pc' = [pc EXCEPT ![c] = step]
         /\ \/ beat' = beat
            \/ beat' = [beat EXCEPT ![c] = IF c \in Jobs THEN "idle" ELSE "off"]
               /\ pc' = [pc EXCEPT ![c] = "holding"]
         /\ cause' \in [Clients -> BOOLEAN]
         /\ \A d \in Clients : cause[d] => cause'[d]
         /\ \A d \in Clients \ {c} : pc[d] \in Asking => cause'[d]
         /\ pc'[c] # "holding" => cause'[c]
BY DEF Written, Won, WonUnseen, Goto, TypeOK

(* A heartbeat thread belongs to a job and stops beating with it, and no   *)
(* thread is anywhere but at the steps of LockRepository: over a store of  *)
(* either kind, whether or not answers get lost.                           *)
THEOREM TypeCorrect == Spec => []TypeOK
<1> USE ConstantsAssumption
<1>1. Init => TypeOK
  BY DEF Init, TypeOK, Absent, Steps
<1>2. TypeOK /\ [Next]_vars => TypeOK'
  <2> SUFFICES ASSUME TypeOK, [Next]_vars PROVE TypeOK'
    OBVIOUS
  <2>1. ASSUME NEW c \in Clients, Ask(c) \/ RenewRead(c) \/ Stop(c) \/ ReleaseRead(c)
                                  \/ Crash(c)
        PROVE  TypeOK'
    <3>1. CASE Ask(c)
      BY <3>1 DEF Ask, Goto, TypeOK, Steps, Asking, Exists
    <3>2. CASE RenewRead(c)
      BY <3>2 DEF RenewRead, TypeOK
    <3>3. CASE Stop(c)
      BY <3>3 DEF Stop, Goto, TypeOK, Steps
    <3>4. CASE ReleaseRead(c)
      BY <3>4 DEF ReleaseRead, Goto, TypeOK, Steps
    <3>5. CASE Crash(c)
      BY <3>5 DEF Crash, Goto, TypeOK, Steps
    <3> QED BY <2>1, <3>1, <3>2, <3>3, <3>4, <3>5
  <2>7. ASSUME NEW c \in Clients, Look(c)
        PROVE  TypeOK'
    BY <2>7, LookSteps DEF TypeOK, Steps, Asking
  <2>2. ASSUME NEW c \in Clients, Create(c) \/ Again(c) \/ TakeOver(c)
        PROVE  TypeOK'
    <3>1. CASE Written(c)
      <4>1. pc[c] \in Asking /\ pc[c] # "holding"
        BY <2>2, AcquireSteps DEF Asking
      <4> QED BY <2>2, <3>1, <4>1, AcquireSteps, WrittenEffect, SaveTypes
              DEF TypeOK, Steps, Asking
    <3>2. CASE \E step \in {"look", "refused"} : Lost(c, step)
      <4>1. PICK step \in {"look", "refused"} : Lost(c, step)
        BY <3>2
      <4>2. /\ pc[c] \in Asking /\ pc[c] # "holding"
            /\ UNCHANGED <<seen, read>>
        BY <2>2, AcquireSteps DEF Asking
      <4> QED BY <4>1, <4>2 DEF Lost, Goto, TypeOK, Steps, Asking
    <3> QED BY <2>2, <3>1, <3>2, AcquireSteps
  <2>3. ASSUME NEW c \in Clients, RenewSave(c)
        PROVE  TypeOK'
    BY <2>3, SaveTypes DEF RenewSave, TypeOK, Matches, Exists
  <2>4. ASSUME NEW c \in Clients, Drop(c)
        PROVE  TypeOK'
    BY <2>4 DEF Drop, Goto, TypeOK, Steps, Absent
  <2>5. CASE LeaseEnds
    BY <2>5 DEF LeaseEnds, TypeOK
  <2>6. CASE UNCHANGED vars
    BY <2>6 DEF vars, TypeOK
  <2> QED BY <2>1, <2>2, <2>3, <2>4, <2>5, <2>6, <2>7 DEF Next
<1> QED BY <1>1, <1>2, PTL DEF Spec

-----------------------------------------------------------------------------
(* A write that is accepted carries a version nobody has read yet, so that *)
(* no read that came before it matches any more.                           *)
LEMMA SaveKeepsReaders ==
  ASSUME Unique, TypeOK, VersionsGrow, NEW c \in Clients, Save(c), UNCHANGED <<seen, read>>
  PROVE  /\ VersionsGrow'
         /\ \A d \in Clients : ~Matches(seen[d])' /\ ~Matches(read[d])'
         /\ Exists'
<1>1. clock \in Nat /\ \A d \in Clients : seen[d] \in Nat /\ read[d] \in Nat
  BY DEF TypeOK
<1>2. VersionsGrow'
  BY <1>1, SaveEffect DEF VersionsGrow
<1>3. \A d \in Clients : doc'.version # seen'[d] /\ doc'.version # read'[d]
  BY <1>1, SaveEffect DEF VersionsGrow
<1> QED BY <1>2, <1>3, SaveEffect, ConstantsAssumption DEF Matches, Exists

LEMMA LockInductive ==
  ASSUME Unique, TypeOK, LockInv, [Next]_vars
  PROVE  LockInv'
<1> USE ConstantsAssumption
<1>0. /\ VersionsGrow /\ ReadersKnow /\ LosersHaveCause
      /\ doc.version \in Nat /\ clock \in Nat
      /\ \A c \in Clients : seen[c] \in Nat /\ read[c] \in Nat
  BY DEF LockInv, TypeOK
<1>1. ASSUME NEW c \in Clients, Ask(c)
      PROVE  LockInv'
  BY <1>0, <1>1 DEF Ask, Goto, LockInv, VersionsGrow, ReadersKnow, LosersHaveCause, TypeOK,
                    Matches, Exists
<1>2. ASSUME NEW c \in Clients, Create(c) \/ Again(c) \/ TakeOver(c)
      PROVE  LockInv'
  <2>1. /\ UNCHANGED <<seen, read>>
        /\ pc[c] \in Asking
    BY <1>2, AcquireSteps DEF Asking
  <2>2. CASE Written(c)
    <3>1. Save(c) /\ VersionsGrow' /\ Exists'
          /\ \A d \in Clients : ~Matches(seen[d])' /\ ~Matches(read[d])'
      BY <1>0, <2>1, <2>2, WrittenEffect, SaveKeepsReaders
    <3>2. ReadersKnow'
      BY <3>1 DEF ReadersKnow
    <3>3. LosersHaveCause'
      BY <2>1, <2>2, WrittenEffect DEF LosersHaveCause, TypeOK, Asking
    <3> QED BY <3>1, <3>2, <3>3 DEF LockInv
  <2>3. ASSUME NEW step \in {"look", "refused"}, Lost(c, step),
               step = "look" => pc[c] = "try" /\ Exists
        PROVE  LockInv'
    <3>1. /\ UNCHANGED <<doc, clock, beat, cause, seen, read>>
          /\ pc' = [pc EXCEPT ![c] = step]
      BY <2>1, <2>3 DEF Lost, Goto
    <3>2. VersionsGrow' /\ (doc'.live => Exists')
      BY <3>1 DEF LockInv, VersionsGrow, Exists
    <3>3. ReadersKnow'
      BY <1>0, <3>1 DEF ReadersKnow, TypeOK, Matches, Exists
    <3>4. LosersHaveCause'
      BY <1>0, <2>3, <3>1 DEF LosersHaveCause, TypeOK, Exists
    <3> QED BY <3>2, <3>3, <3>4 DEF LockInv
  <2> QED BY <1>2, <2>2, <2>3, AcquireSteps
<1>3. ASSUME NEW c \in Clients, Look(c)
      PROVE  LockInv'
  BY <1>0, <1>3, LookSteps DEF LockInv, VersionsGrow, ReadersKnow, LosersHaveCause, TypeOK,
                    Matches, Exists
<1>4. ASSUME NEW c \in Clients, RenewRead(c) \/ Stop(c) \/ ReleaseRead(c) \/ Crash(c)
      PROVE  LockInv'
  BY <1>0, <1>4 DEF RenewRead, Stop, ReleaseRead, Crash, Goto, LockInv, VersionsGrow,
                    ReadersKnow, LosersHaveCause, TypeOK, Matches, Exists
<1>5. ASSUME NEW c \in Clients, RenewSave(c)
      PROVE  LockInv'
  <2>1. CASE Matches(read[c])
    <3>1. Save(c) /\ UNCHANGED <<pc, seen, read, cause>> /\ Exists
      BY <1>5, <2>1 DEF RenewSave, Matches
    <3> QED BY <1>0, <3>1, SaveKeepsReaders DEF LockInv, ReadersKnow, LosersHaveCause
  <2>2. CASE ~Matches(read[c])
    BY <1>0, <1>5, <2>2 DEF RenewSave, LockInv, VersionsGrow, ReadersKnow, LosersHaveCause,
                            TypeOK, Matches, Exists
  <2> QED BY <2>1, <2>2
<1>6. ASSUME NEW c \in Clients, Drop(c)
      PROVE  LockInv'
  BY <1>0, <1>6 DEF Drop, Goto, Absent, LockInv, VersionsGrow, ReadersKnow, LosersHaveCause,
                    TypeOK, Matches, Exists
<1>7. CASE LeaseEnds
  <2>1. /\ doc'.token = doc.token /\ doc'.version = doc.version /\ ~doc'.live
        /\ UNCHANGED <<clock, pc, seen, beat, read, cause>>
    BY <1>7 DEF LeaseEnds, TypeOK
  <2> QED BY <1>0, <2>1 DEF LockInv, VersionsGrow, ReadersKnow, LosersHaveCause, Matches, Exists
<1>8. CASE UNCHANGED vars
  BY <1>0, <1>8 DEF vars, LockInv, VersionsGrow, ReadersKnow, LosersHaveCause, Matches, Exists
<1> QED BY <1>1, <1>2, <1>3, <1>4, <1>5, <1>6, <1>7, <1>8 DEF Next

LEMMA LockInvariant ==
  ASSUME Unique
  PROVE  Spec => []LockInv
<1>1. Init => LockInv
  BY DEF Init, LockInv, VersionsGrow, ReadersKnow, LosersHaveCause, Absent, Matches, Exists
<1>2. TypeOK /\ LockInv /\ [Next]_vars => LockInv'
  BY LockInductive
<1> QED BY <1>1, <1>2, TypeCorrect, PTL DEF Spec

-----------------------------------------------------------------------------
(* The steps of the document that are steps of the lease lock.             *)
LEMMA PhaseOf ==
  ASSUME TypeOK, NEW c \in Clients
  PROVE  /\ pc[c] \in Asking => Phase[c] = "asking"
         /\ pc[c] \in {"out", "holding", "refused"} => Phase[c] = pc[c]
         /\ pc[c] \in {"release", "drop", "done", "dead"} => Phase[c] = "gone"
BY DEF Phase, Asking

LEMMA PhaseMoves ==
  ASSUME TypeOK, NEW c \in Clients, NEW step \in Steps, pc' = [pc EXCEPT ![c] = step]
  PROVE  Phase' = [Phase EXCEPT ![c] =
           IF step \in {"out", "holding", "refused"} THEN step
           ELSE IF step \in Asking THEN "asking" ELSE "gone"]
BY DEF Phase, TypeOK

LEMMA PhaseStays ==
  ASSUME TypeOK, NEW c \in Clients, NEW step \in Steps, pc' = [pc EXCEPT ![c] = step],
         \/ pc[c] \in Asking /\ step \in Asking
         \/ /\ pc[c] \in {"release", "drop", "done", "dead"}
            /\ step \in {"release", "drop", "done", "dead"}
  PROVE  Phase' = Phase
BY DEF Phase, Asking, TypeOK

LEMMA WrittenIsGrant ==
  ASSUME Unique, TypeOK, LockInv, NEW c \in Clients, Written(c), pc[c] \in Asking,
         ~Exists \/ ~doc.live
  PROVE  Lease!Grant(c) \/ Lease!GrantUnseen(c)
<1>1. Lease!Take(c)
  BY PhaseOf, WrittenEffect, SaveEffect DEF Lease!Take, Exists
<1>2. \A d \in Clients : (pc[d] \in Asking) <=> (Phase[d] = "asking")
  BY DEF Phase, Asking, TypeOK, Steps
<1>3. CASE Won(c)
  <2>1. Phase' = [Phase EXCEPT ![c] = "holding"]
    BY <1>3, PhaseMoves DEF Won, Goto, Steps
  <2> QED BY <1>1, <1>2, <1>3, <2>1 DEF Won, Lease!Grant
<1>4. ASSUME NEW step \in {"look", "refused"}, WonUnseen(c, step)
      PROVE  Lease!GrantUnseen(c)
  <2>1. Phase' \in {Phase, [Phase EXCEPT ![c] = "refused"]}
    <3>1. CASE step = "look"
      BY <1>4, <3>1, PhaseStays DEF WonUnseen, Goto, Steps, Asking
    <3>2. CASE step = "refused"
      BY <1>4, <3>2, PhaseMoves DEF WonUnseen, Goto, Steps
    <3> QED BY <3>1, <3>2
  <2> QED BY <1>1, <1>2, <1>4, <2>1 DEF WonUnseen, Lease!GrantUnseen
<1> QED BY <1>3, <1>4 DEF Written

LEMMA StepImplementsLease ==
  ASSUME Unique, TypeOK, LockInv, [Next]_vars
  PROVE  [Lease!LeaseNext]_(Lease!leaseVars)
<1> USE ConstantsAssumption
<1>1. ASSUME NEW c \in Clients, Ask(c)
      PROVE  Lease!Ask(c)
  BY <1>1, PhaseOf, PhaseMoves DEF Ask, Goto, Steps, Asking, Exists, Lease!Ask
<1>2. ASSUME NEW c \in Clients, Create(c) \/ Again(c) \/ TakeOver(c)
      PROVE  \/ Lease!Grant(c) \/ Lease!GrantUnseen(c) \/ Lease!Refuse(c)
             \/ UNCHANGED Lease!leaseVars
  <2>1. /\ pc[c] \in Asking
        /\ pc[c] = "over" /\ Matches(seen[c]) => ~doc.live
        /\ pc[c] \in {"again", "over"} => cause[c]
    BY <1>2, AcquireSteps DEF Asking, LockInv, ReadersKnow, LosersHaveCause
  <2>2. CASE Written(c) /\ (~Exists \/ (pc[c] = "over" /\ Matches(seen[c])))
    BY <2>1, <2>2, WrittenIsGrant
  <2>3. CASE Lost(c, "look")
    BY <2>1, <2>3, PhaseStays DEF Lost, Goto, Steps, Asking, Lease!leaseVars
  <2>4. CASE Lost(c, "refused") /\ pc[c] \in {"again", "over"}
    BY <2>1, <2>4, PhaseOf, PhaseMoves DEF Lost, Goto, Steps, Asking, Lease!Refuse
  <2> QED BY <1>2, <2>2, <2>3, <2>4, AcquireSteps
<1>3. ASSUME NEW c \in Clients, Look(c)
      PROVE  Lease!Refuse(c) \/ UNCHANGED Lease!leaseVars
  <2>1. pc[c] = "look" /\ cause[c]
    BY <1>3, LookSteps DEF LockInv, LosersHaveCause
  <2>2. CASE pc' = [pc EXCEPT ![c] = "refused"]
    BY <1>3, <2>1, <2>2, LookSteps, PhaseOf, PhaseMoves DEF Steps, Asking, Lease!Refuse
  <2>3. ASSUME NEW step \in {"again", "over"}, pc' = [pc EXCEPT ![c] = step]
        PROVE  UNCHANGED Lease!leaseVars
    BY <1>3, <2>1, <2>3, LookSteps, PhaseStays DEF Steps, Asking, Lease!leaseVars
  <2> QED BY <1>3, <2>2, <2>3, LookSteps
<1>4. ASSUME NEW c \in Clients, RenewRead(c) \/ ReleaseRead(c)
      PROVE  UNCHANGED Lease!leaseVars
  <2>1. CASE RenewRead(c)
    BY <2>1 DEF RenewRead, Lease!leaseVars, Phase
  <2>2. CASE ReleaseRead(c)
    BY <2>2, PhaseStays DEF ReleaseRead, Goto, Steps, Lease!leaseVars
  <2> QED BY <1>4, <2>1, <2>2
<1>5. ASSUME NEW c \in Clients, RenewSave(c)
      PROVE  Lease!Renew(c) \/ UNCHANGED Lease!leaseVars
  <2>1. UNCHANGED <<Phase, cause>>
    BY <1>5 DEF RenewSave, Phase
  <2>2. CASE Matches(read[c])
    <3>1. Save(c) /\ doc.token = c
      BY <1>5, <2>2 DEF RenewSave, LockInv, ReadersKnow
    <3> QED BY <2>1, <3>1, SaveEffect DEF Lease!Renew
  <2>3. CASE ~Matches(read[c])
    BY <1>5, <2>1, <2>3 DEF RenewSave, Lease!leaseVars
  <2> QED BY <2>2, <2>3
<1>6. ASSUME NEW c \in Clients, Stop(c) \/ Crash(c)
      PROVE  Lease!Part(c) \/ UNCHANGED Lease!leaseVars
  <2>1. /\ UNCHANGED <<doc, cause>>
        /\ pc[c] \in Asking \cup {"holding", "release", "drop"}
        /\ \E step \in {"release", "dead"} : pc' = [pc EXCEPT ![c] = step]
    BY <1>6 DEF Stop, Crash, Goto, TypeOK, Steps
  <2>2. Phase' = [Phase EXCEPT ![c] = "gone"]
    BY <2>1, PhaseMoves DEF Steps, Asking
  <2>3. CASE pc[c] \in Asking \cup {"holding"}
    BY <2>1, <2>2, <2>3, PhaseOf DEF Lease!Part
  <2>4. CASE pc[c] \in {"release", "drop"}
    BY <2>1, <2>2, <2>4, PhaseOf DEF Lease!leaseVars, Phase
  <2> QED BY <2>1, <2>3, <2>4
<1>7. ASSUME NEW c \in Clients, Drop(c)
      PROVE  Lease!Free(c) \/ UNCHANGED Lease!leaseVars
  <2>1. /\ Phase[c] = "gone" /\ cause' = cause
        /\ Phase' = Phase
    BY <1>7, PhaseOf, PhaseStays DEF Drop, Goto, Steps
  <2>2. CASE Matches(seen[c])
    BY <1>7, <2>1, <2>2 DEF Drop, Absent, LockInv, ReadersKnow, Lease!Free
  <2>3. CASE ~Matches(seen[c])
    BY <1>7, <2>1, <2>3 DEF Drop, Lease!leaseVars
  <2> QED BY <2>2, <2>3
<1>8. CASE LeaseEnds
  <2>1. /\ doc'.token = doc.token /\ doc'.live = FALSE
        /\ UNCHANGED <<pc, cause>>
    BY <1>8 DEF LeaseEnds, TypeOK
  <2> QED BY <2>1 DEF Lease!Lapse, Lease!LeaseNext, Phase
<1>9. CASE UNCHANGED vars
  BY <1>9 DEF vars, Phase, Lease!leaseVars
<1> QED BY <1>1, <1>2, <1>3, <1>4, <1>5, <1>6, <1>7, <1>8, <1>9 DEF Next, Lease!LeaseNext

(* The reads and compare-and-swap writes of LockRepository amount to an    *)
(* atomic lock with a lease, as long as the store never uses a version     *)
(* twice.                                                                  *)
THEOREM LockIsALease ==
  ASSUME Unique
  PROVE  Spec => ImplementsLeaseLock
<1>1. Init => Lease!LeaseInit
  BY DEF Init, Absent, Phase, Lease!LeaseInit
<1>2. TypeOK /\ LockInv /\ [Next]_vars => [Lease!LeaseNext]_(Lease!leaseVars)
  BY StepImplementsLease
<1> QED BY <1>1, <1>2, TypeCorrect, LockInvariant, PTL
        DEF Spec, ImplementsLeaseLock, Lease!LeaseSpec

(* A renewal that is under way while the job's own thread releases the     *)
(* lock writes nothing.                                                    *)
THEOREM ReleaseIsFinal ==
  ASSUME Unique
  PROVE  Spec => ReleasedForGood
<1>1. ASSUME TypeOK, LockInv, [Next]_vars, NEW c \in Clients, pc[c] = "done", doc.token # c
      PROVE  doc'.token # c
  <2> USE <1>1, ConstantsAssumption
  <2>1. ASSUME NEW d \in Clients, Create(d) \/ Again(d) \/ TakeOver(d)
        PROVE  doc'.token # c
    <3>1. d # c
      BY <2>1, AcquireSteps
    <3>2. pc[d] \in Asking
      BY <2>1, AcquireSteps DEF Asking
    <3> QED BY <2>1, <3>1, <3>2, AcquireSteps, WrittenEffect, SaveEffect DEF Lost
  <2>2. ASSUME NEW d \in Clients, RenewSave(d)
        PROVE  doc'.token # c
    <3>1. CASE Matches(read[d])
      BY <2>2, <3>1, SaveEffect DEF RenewSave, LockInv, ReadersKnow
    <3>2. CASE ~Matches(read[d])
      BY <2>2, <3>2 DEF RenewSave
    <3> QED BY <3>1, <3>2
  <2>3. ASSUME NEW d \in Clients, Drop(d)
        PROVE  doc'.token # c
    BY <2>3 DEF Drop, Absent
  <2>4. CASE LeaseEnds
    BY <2>4 DEF LeaseEnds, TypeOK
  <2>5. CASE doc' = doc
    BY <2>5
  <2> QED BY <2>1, <2>2, <2>3, <2>4, <2>5
          DEF Next, vars, Ask, Look, RenewRead, Stop, ReleaseRead, Crash
<1>2. TypeOK /\ LockInv /\ [Next]_vars
      => [\A c \in Clients : pc[c] = "done" /\ doc.token # c => doc'.token # c]_vars
  BY <1>1
<1> QED BY <1>2, TypeCorrect, LockInvariant, PTL DEF Spec, ReleasedForGood
=============================================================================
