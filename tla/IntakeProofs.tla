---------------------------- MODULE IntakeProofs ----------------------------
(***************************************************************************)
(* Idempotency-Keys and domain locks of the intake, for every set of       *)
(* calls, keys and domains, and whatever the calls ask for.                *)
(***************************************************************************)
EXTENDS IntakeProperties, Sums

(* As much of the types as the arguments below need.                       *)
ItemFields == {"pc", "seats", "slot"}
JobFields == {"status", "settled", "reserved", "added", "commit", "key", "left"}
HasFields(g, fields) == g = [f \in fields |-> g[f]]

Shape ==
  /\ call \in Scenarios
  /\ pc = [c \in Calls |-> pc[c]]
  /\ item = [x \in Items |-> item[x]]
  /\ \A x \in Items : HasFields(item[x], ItemFields)
  /\ job = [x \in Items |-> job[x]]
  /\ \A x \in Items : HasFields(job[x], JobFields) /\ job[x].settled \in BOOLEAN
  /\ keys = [s \in Scopes |-> keys[s]]
  /\ lock \in [Domains -> Items \cup {NoItem}]

(* Partners' calls, as opposed to the legacy routes.                       *)
Partner(c) == Kind(c) \in {"single", "bulk"}

(* How far a call is, and which of its items may have begun.               *)
Calling ==
  /\ \A c \in Calls : /\ pc[c] = "slots" => Kind(c) = "bulk"
                      /\ pc[c] \in {"active", "new"} => Kind(c) = "legacy"
  /\ \A x \in Items :
       /\ item[x].pc # "none" => /\ Partner(x[1]) /\ x \in Entries(x[1])
                                 /\ pc[x[1]] \notin {"start", "read", "slots"}
                                 /\ Kind(x[1]) = "single" => x = OwnId(x[1])

(* An item has a job from "dispatch" on; a legacy job owes nothing.        *)
Working ==
  \A x \in Items :
    /\ Exists(x) /\ Partner(x[1]) => item[x].pc \in {"dispatch", "accepted", "dead"}
    /\ Exists(x) /\ ~Partner(x[1]) => job[x].settled /\ job[x].left = {}
    /\ item[x].pc \in {"dispatch", "accepted"} => Exists(x)

(* A key that a call has claimed stays its own until the call is refused.  *)
Owns(c) == keys[Scope(c)].result = OwnId(c)
Claims ==
  /\ \A c \in Calls : pc[c] = "slots" /\ Keyed(c) => Owns(c)
  /\ \A x \in Items :
       Keyed(x[1]) /\ item[x].pc \in Active \cup {"accepted", "dead"} => Owns(x[1])

(* Who may have a lock, and who must.                                      *)
MayHold(x) ==
  IF Exists(x) THEN ~job[x].settled \/ "lock" \in job[x].left
  ELSE item[x].pc \in {"reserve", "unlock", "dead", "broken"} \cup Holding
MustHold(x) ==
  item[x].pc \in {"reserve", "slot", "cut", "create"} \/ (Exists(x) /\ ~job[x].settled)

IntakeInv == Calling /\ Working /\ Claims /\ LocksFollowJobs

-----------------------------------------------------------------------------
(* What a step does to one item, to one job, and to nothing.               *)
ItemOnly(x) ==
  /\ item' = [y \in Items |-> item'[y]]
  /\ HasFields(item'[x], ItemFields)
  /\ \A y \in Items \ {x} : item'[y] = item[y]

LEMMA ItemTo ==
  ASSUME Shape, NEW x \in Items, NEW step, At(x, step)
  PROVE  ItemOnly(x) /\ item'[x].pc = step
<1> DEFINE g == [item[x] EXCEPT !.pc = step]
<1>1. item' = [item EXCEPT ![x] = g]
  BY DEF At
<1>2. HasFields(g, ItemFields) /\ g.pc = step
  BY DEF Shape, HasFields, ItemFields
<1> HIDE DEF g
<1> QED BY <1>1, <1>2 DEF Shape, ItemOnly

LEMMA ItemPut ==
  ASSUME Shape, NEW x \in Items, NEW step, NEW f \in {"seats", "slot"}, NEW v,
         item' = [item EXCEPT ![x] = [@ EXCEPT !.pc = step, ![f] = v]]
  PROVE  ItemOnly(x) /\ item'[x].pc = step
<1> DEFINE g == [item[x] EXCEPT !.pc = step, ![f] = v]
<1>1. item' = [item EXCEPT ![x] = g]
  OBVIOUS
<1>2. HasFields(g, ItemFields) /\ g.pc = step
  BY DEF Shape, HasFields, ItemFields
<1> HIDE DEF g
<1> QED BY <1>1, <1>2 DEF Shape, ItemOnly

(* The steps of accept() by what they do to documents, keys and locks.     *)
Goes(x, from, to) == item[x].pc \in from /\ item'[x].pc \in to

Plain(x) ==
  /\ UNCHANGED <<keys, job, lock>>
  /\ \/ Goes(x, {"reserve", "slot", "cut"}, {"slot", "cut", "create"})
     \/ Goes(x, {"lock"}, {"forget"})
     \/ Goes(x, {"reserve", "slot", "cut", "create", "undo"}, {"unlock", "undo", "broken"})
     \/ Goes(x, {"dispatch"}, {"accepted"})
     \/ Goes(x, {"lock", "unlock", "forget"}, {"broken"})
Takes(x) ==
  /\ UNCHANGED <<keys, job>> /\ Goes(x, {"lock"}, {"reserve"})
  /\ lock[DomainOf(x)] = NoItem
  /\ lock' = [lock EXCEPT ![DomainOf(x)] = x]
Makes(x) ==
  /\ UNCHANGED <<keys, lock>> /\ Goes(x, {"create"}, {"dispatch"})
  /\ job' = [y \in Items |-> job'[y]]
  /\ HasFields(job'[x], JobFields) /\ job'[x].status # "NONE" /\ job'[x].settled = FALSE
  /\ \A y \in Items \ {x} : job'[y] = job[y]
Releases(x) ==
  /\ UNCHANGED <<keys, job>> /\ Goes(x, {"unlock"}, {"forget"})
  /\ lock' = [lock EXCEPT ![DomainOf(x)] =
                IF lock[DomainOf(x)] = x THEN NoItem ELSE lock[DomainOf(x)]]
Forgets(x) ==
  /\ UNCHANGED <<job, lock>> /\ Goes(x, {"forget"}, {"refused"})
  /\ keys' = IF Kind(x[1]) = "single" THEN WithoutClaim(x[1]) ELSE keys

LEMMA StepKinds ==
  ASSUME Shape, NEW x \in Items, ItemStep(x)
  PROVE  /\ UNCHANGED <<call, pc>> /\ ItemOnly(x)
         /\ Plain(x) \/ Takes(x) \/ Makes(x) \/ Releases(x) \/ Forgets(x)
<1>1. CASE AcquireLock(x)
  BY <1>1, ItemTo DEF AcquireLock, Plain, Takes, Goes
<1>2. CASE ReserveBusy(x) \/ AcceptRaises(x) \/ UndoRaises(x) \/ Dispatch(x) \/ Escapes(x)
  BY <1>2, ItemTo DEF ReserveBusy, AcceptRaises, UndoRaises, Dispatch, Escapes, Plain, Goes
<1>3. CASE Reserve(x)
  <2>1. CASE At(x, "unlock")
    BY <1>3, <2>1, ItemTo DEF Reserve, Plain, Goes
  <2>2. CASE item' = [item EXCEPT ![x].pc = "slot", ![x].seats = EntryOf(x).seats]
    <3>1. item' = [item EXCEPT ![x] = [@ EXCEPT !.pc = "slot", !.seats = EntryOf(x).seats]]
      BY <2>2 DEF Shape
    <3> QED BY <1>3, <3>1, ItemPut DEF Reserve, Plain, Goes
  <2> QED BY <1>3, <2>1, <2>2 DEF Reserve
<1>4. CASE TakeSlot(x)
  <2>1. CASE At(x, "cut")
    BY <1>4, <2>1, ItemTo DEF TakeSlot, Plain, Goes
  <2>2. CASE item' = [item EXCEPT ![x].pc = "cut", ![x].slot = counter + 1]
    <3>1. item' = [item EXCEPT ![x] = [@ EXCEPT !.pc = "cut", !.slot = counter + 1]]
      BY <2>2 DEF Shape
    <3> QED BY <1>4, <3>1, ItemPut DEF TakeSlot, Plain, Goes
  <2> QED BY <1>4, <2>1, <2>2 DEF TakeSlot
<1>5. CASE Cut(x)
  <2>1. PICK v : item' = [item EXCEPT ![x] = [@ EXCEPT !.pc = "create", !.seats = v]]
    BY <1>5 DEF Cut, Shape
  <2>2. ItemOnly(x) /\ item'[x].pc = "create"
    BY <2>1, ItemPut
  <2> QED BY <1>5, <2>2 DEF Cut, Plain, Goes
<1>6. CASE Undo(x)
  <2>1. item' = [item EXCEPT ![x] = [@ EXCEPT !.pc = "unlock", !.seats = 0]]
    BY <1>6 DEF Undo, Shape
  <2>2. ItemOnly(x) /\ item'[x].pc = "unlock"
    BY <2>1, ItemPut
  <2> QED BY <1>6, <2>2 DEF Undo, Plain, Goes
<1>7. CASE Create(x)
  <2> DEFINE g == [NoJob EXCEPT !.status = "PENDING", !.settled = FALSE,
                                !.reserved = item[x].seats,
                                !.commit = IsCommitment(item[x].slot)]
  <2>1. job' = [job EXCEPT ![x] = g]
    BY <1>7 DEF Create
  <2>2. HasFields(g, JobFields) /\ g.status # "NONE" /\ g.settled = FALSE
    BY DEF NoJob, HasFields, JobFields
  <2> HIDE DEF g
  <2>3. /\ job' = [y \in Items |-> job'[y]] /\ job'[x] = g
        /\ \A y \in Items \ {x} : job'[y] = job[y]
    BY <2>1 DEF Shape
  <2> QED BY <1>7, <2>2, <2>3, ItemTo DEF Create, Makes, Goes
<1>8. CASE Unlock(x)
  BY <1>8, ItemTo DEF Unlock, Releases, Goes
<1>9. CASE Forget(x)
  BY <1>9, ItemTo DEF Forget, Forgets, Goes
<1> QED BY <1>1, <1>2, <1>3, <1>4, <1>5, <1>6, <1>7, <1>8, <1>9 DEF ItemStep

-----------------------------------------------------------------------------
(* What calls ask for does not change.                                     *)
LEMMA SameCall ==
  ASSUME call' = call
  PROVE  /\ \A c \in Calls : /\ Kind(c)' = Kind(c) /\ Partner(c)' = Partner(c)
                             /\ Keyed(c)' = Keyed(c) /\ Scope(c)' = Scope(c)
                             /\ Entries(c)' = Entries(c)
         /\ \A x \in Items : DomainOf(x)' = DomainOf(x)
BY DEF Kind, Partner, Keyed, Scope, Entries, DomainOf, EntryOf

LEMMA Names ==
  /\ \A x \in Items : x[1] \in Calls
  /\ \A c \in Calls : OwnId(c) \in Items /\ OwnId(c)[1] = c
  /\ \A c, d \in Calls : OwnId(c) = OwnId(d) => c = d
BY ConstantsAssumption DEF Items, OwnId

(* An entry's domain has a lock, a partner's key has a record.             *)
LEMMA Places ==
  ASSUME Shape
  PROVE  /\ \A x \in Items : x \in Entries(x[1]) => DomainOf(x) \in Domains
         /\ \A c \in Calls : Partner(c) /\ Keyed(c) => Scope(c) \in Scopes
<1>1. \A c \in Calls : call[c] \in CallRecord
  BY ConstantsAssumption DEF Shape
<1>2. ASSUME NEW x \in Items, x \in Entries(x[1]) PROVE DomainOf(x) \in Domains
  <2>1. x[2] \in 1 .. Len(call[x[1]].body) /\ call[x[1]].body \in Seq(Entry)
    BY <1>1, <1>2, Names DEF Entries, CallRecord, Bodies, Items
  <2>2. EntryOf(x) \in Entry
    BY <2>1 DEF EntryOf
  <2> QED BY <2>2 DEF Entry, DomainOf
<1>3. ASSUME NEW c \in Calls, Partner(c), Keyed(c) PROVE Scope(c) \in Scopes
  BY <1>1, <1>3 DEF Partner, Keyed, Scope, Scopes, Kind, CallRecord
<1> QED BY <1>2, <1>3

(* LocksFollowJobs, item by item.                                          *)
LEMMA LocksNow ==
  ASSUME Shape, IntakeInv
  PROVE  /\ \A d \in Domains, y \in Items : lock[d] = y => DomainOf(y) = d /\ MayHold(y)
         /\ \A y \in Items : MustHold(y) => lock[DomainOf(y)] = y
         /\ \A y \in Items : MustHold(y) => DomainOf(y) \in Domains
<1>1. LocksFollowJobs
  BY DEF IntakeInv
<1>2. \A d \in Domains, y \in Items : lock[d] = y => DomainOf(y) = d /\ MayHold(y)
  BY <1>1, ConstantsAssumption DEF LocksFollowJobs, MayHold
<1>3. \A y \in Items : MustHold(y) => lock[DomainOf(y)] = y
  BY <1>1 DEF LocksFollowJobs, MustHold
<1>4. \A y \in Items : MustHold(y) => item[y].pc # "none"
  BY DEF MustHold, IntakeInv, Working
<1> QED BY <1>2, <1>3, <1>4, Places DEF IntakeInv, Calling

LEMMA LocksNext ==
  ASSUME lock' \in [Domains -> Items \cup {NoItem}],
         \A d \in Domains, y \in Items : lock'[d] = y => DomainOf(y)' = d /\ MayHold(y)',
         \A y \in Items : MustHold(y)' => lock'[DomainOf(y)'] = y
  PROVE  LocksFollowJobs'
BY DEF LocksFollowJobs, MayHold, MustHold, DomainOf, EntryOf

LEMMA ItemStepKeeps ==
  ASSUME Shape, IntakeInv, NEW x \in Items, ItemStep(x)
  PROVE  Shape' /\ IntakeInv'
<1>1. /\ UNCHANGED <<call, pc>> /\ ItemOnly(x)
      /\ Plain(x) \/ Takes(x) \/ Makes(x) \/ Releases(x) \/ Forgets(x)
  BY StepKinds
<1>2. item[x].pc \notin {"none", "accepted", "dead", "refused"}
  BY <1>1 DEF Plain, Takes, Makes, Releases, Forgets, Goes
<1>3. /\ Partner(x[1]) /\ x \in Entries(x[1])
      /\ Kind(x[1]) = "single" => x = OwnId(x[1])
      /\ DomainOf(x) \in Domains
  BY <1>2, Places DEF IntakeInv, Calling
<1>4. Shape'
  <2>1. /\ job' = [y \in Items |-> job'[y]]
        /\ \A y \in Items : HasFields(job[y], JobFields)' /\ job'[y].settled \in BOOLEAN
    BY <1>1 DEF Shape, Plain, Takes, Makes, Releases, Forgets
  <2>2. lock' \in [Domains -> Items \cup {NoItem}]
    BY <1>1 DEF Shape, Plain, Takes, Makes, Releases, Forgets
  <2>3. keys' = [s \in Scopes |-> keys'[s]]
    BY <1>1 DEF Shape, Plain, Takes, Makes, Releases, Forgets, WithoutClaim
  <2>4. \A y \in Items : HasFields(item[y], ItemFields)'
    BY <1>1 DEF Shape, ItemOnly
  <2> QED BY <1>1, <2>1, <2>2, <2>3, <2>4 DEF Shape, ItemOnly
<1>5. Calling'
  BY <1>1, <1>2, <1>3, SameCall, Names DEF IntakeInv, Calling, ItemOnly
<1>6. Working'
  <2>1. \A y \in Items \ {x} : item'[y] = item[y] /\ job'[y] = job[y]
    BY <1>1 DEF ItemOnly, Plain, Takes, Makes, Releases, Forgets
  <2>2. /\ Exists(x)' => item'[x].pc \in {"dispatch", "accepted", "dead"}
        /\ item'[x].pc \in {"dispatch", "accepted"} => Exists(x)'
    BY <1>1, <1>3
       DEF IntakeInv, Working, Exists, Plain, Takes, Makes, Releases, Forgets, Goes
  <2> QED BY <1>1, <1>3, <2>1, <2>2, SameCall, Names DEF IntakeInv, Working, Exists
<1>7. Claims'
  <2>1. item[x].pc \in Active
    BY <1>1 DEF Plain, Takes, Makes, Releases, Forgets, Goes, Active, Holding
  <2>2. CASE keys' = keys
    BY <1>1, <2>1, <2>2, SameCall, Names DEF IntakeInv, Claims, Owns, ItemOnly
  <2>3. CASE Forgets(x) /\ Kind(x[1]) = "single" /\ keys' # keys
    <3> DEFINE c == x[1]
    <3>1. /\ c \in Calls /\ x = OwnId(c) /\ item'[x].pc = "refused"
          /\ Keyed(c) /\ keys' = [keys EXCEPT ![Scope(c)] = NoRecord]
          /\ keys[Scope(c)].result = OwnId(c)
      BY <1>3, <2>3, Names DEF Forgets, WithoutClaim, Goes
    <3>2. \A d \in Calls \ {c} : Partner(d) /\ Keyed(d) /\ Owns(d) => Owns(d)'
      BY <1>1, <3>1, SameCall, Names, Places DEF Owns, Shape
    <3>3. \A y \in Items : y[1] = c /\ item[y].pc # "none" => y = x
      BY <2>3, <3>1, Names DEF IntakeInv, Calling
    <3>4. \A d \in Calls : pc[d] = "slots" => d # c /\ Partner(d)
      BY <2>3 DEF IntakeInv, Calling, Partner
    <3>5. \A y \in Items \ {x} : item[y].pc \in Active \cup {"accepted", "dead"} =>
            y[1] # c /\ Partner(y[1])
      BY <3>3 DEF IntakeInv, Calling, Active, Holding
    <3> QED BY <1>1, <3>1, <3>2, <3>4, <3>5, SameCall, Names
            DEF IntakeInv, Claims, ItemOnly, Active, Holding
  <2> QED BY <1>1, <2>2, <2>3 DEF Plain, Takes, Makes, Releases, Forgets
<1>8. LocksFollowJobs'
  <2>1. \A y \in Items \ {x} : MayHold(y)' = MayHold(y) /\ MustHold(y)' = MustHold(y)
    BY <1>1 DEF ItemOnly, Plain, Takes, Makes, Releases, Forgets, MayHold, MustHold, Exists
  <2>2. \A y \in Items : DomainOf(y)' = DomainOf(y)
    BY <1>1, SameCall
  <2>3. item[x].pc # "dispatch" => ~Exists(x)
    BY <1>2, <1>3 DEF IntakeInv, Working
  <2>4. lock' \in [Domains -> Items \cup {NoItem}]
    BY <1>4 DEF Shape
  <2>5. CASE Takes(x)
    <3>1. MayHold(x)'
      BY <2>3, <2>5 DEF Takes, Goes, MayHold, Exists
    <3>2. \A d \in Domains : lock'[d] = IF d = DomainOf(x) THEN x ELSE lock[d]
      BY <2>5 DEF Takes, Shape
    <3>3. \A y \in Items \ {x} : MustHold(y) => DomainOf(y) # DomainOf(x)
      BY <2>5, ConstantsAssumption, LocksNow DEF Takes
    <3>4. \A d \in Domains, y \in Items : lock'[d] = y => DomainOf(y)' = d /\ MayHold(y)'
      BY <2>1, <2>2, <3>1, <3>2, LocksNow
    <3>5. \A y \in Items : MustHold(y)' => lock'[DomainOf(y)'] = y
      BY <1>3, <2>1, <2>2, <3>2, <3>3, LocksNow
    <3> QED BY <2>4, <3>4, <3>5, LocksNext
  <2>6. CASE Releases(x)
    <3>1. ~MustHold(x)'
      BY <2>3, <2>6 DEF Releases, Goes, MustHold, Exists
    <3>2. \A d \in Domains :
            lock'[d] = IF d = DomainOf(x) /\ lock[d] = x THEN NoItem ELSE lock[d]
      BY <2>6 DEF Releases, Shape
    <3>3. \A d \in Domains, y \in Items : lock'[d] = y => lock[d] = y /\ y # x
      BY <3>2, ConstantsAssumption, LocksNow
    <3>4. \A d \in Domains, y \in Items : lock'[d] = y => DomainOf(y)' = d /\ MayHold(y)'
      BY <2>1, <2>2, <3>3, LocksNow
    <3>5. \A y \in Items : MustHold(y)' => lock'[DomainOf(y)'] = y
      BY <2>1, <2>2, <3>1, <3>2, LocksNow
    <3> QED BY <2>4, <3>4, <3>5, LocksNext
  <2>7. CASE Plain(x) \/ Makes(x) \/ Forgets(x)
    <3>1. lock' = lock
      BY <2>7 DEF Plain, Makes, Forgets
    <3>2. (MayHold(x) => MayHold(x)') /\ (MustHold(x)' => MustHold(x))
      BY <2>3, <2>7 DEF IntakeInv, Working, Plain, Makes, Forgets, Goes, MayHold, MustHold,
         Exists, Holding
    <3> QED BY <2>1, <2>2, <2>4, <3>1, <3>2, LocksNow, LocksNext
  <2> QED BY <1>1, <2>5, <2>6, <2>7
<1> QED BY <1>4, <1>5, <1>6, <1>7, <1>8 DEF IntakeInv

-----------------------------------------------------------------------------
(* The steps of a call's own thread, in the same way.                      *)
CallOnly(c) ==
  /\ UNCHANGED <<call, lock>>
  /\ pc' = [d \in Calls |-> pc'[d]]
  /\ \A d \in Calls \ {c} : pc'[d] = pc[d]

Rests(c) ==
  /\ UNCHANGED <<item, job, keys>>
  /\ \/ pc'[c] = "answered"
     \/ pc'[c] = "read" /\ pc[c] = "start"
     \/ pc'[c] \in {"active", "new"} /\ Kind(c) = "legacy"
(* A claim whose call goes no further.                                     *)
Spends(c) ==
  /\ UNCHANGED <<item, job>>
  /\ Partner(c) /\ Keyed(c) /\ pc[c] = "start" /\ pc'[c] \in {"read", "answered"}
  /\ keys[Scope(c)] = NoRecord
  /\ keys' = [keys EXCEPT ![Scope(c)] = [result |-> OwnId(c), body |-> call[c].body]]
Withdraws(c) ==
  /\ UNCHANGED <<item, job>>
  /\ pc[c] = "slots" /\ pc'[c] = "answered"
  /\ keys' = WithoutClaim(c)
Begins(c) ==
  /\ UNCHANGED job
  /\ Partner(c)
  /\ pc[c] \in {"start", "slots"}
  /\ \/ pc'[c] = "items"
     \/ pc'[c] = "slots" /\ Kind(c) = "bulk" /\ item' = item
  /\ item' = [y \in Items |-> item'[y]]
  /\ \A y \in Items : HasFields(item'[y], ItemFields)
  /\ \A y \in Items : y[1] # c => item'[y] = item[y]
  /\ \A y \in Items : y[1] = c => /\ item'[y].pc \in {"none", "lock", "invalid"}
                                  /\ item'[y].pc # "none" =>
                                       y \in Entries(c) /\ (Kind(c) = "single" => y = OwnId(c))
  /\ \/ keys' = keys /\ (pc[c] = "slots" \/ ~Keyed(c))
     \/ /\ Keyed(c) /\ keys[Scope(c)] = NoRecord
        /\ keys' = [keys EXCEPT ![Scope(c)] = [result |-> OwnId(c), body |-> call[c].body]]
CreatesLegacy(c) ==
  /\ UNCHANGED <<item, keys>>
  /\ ~Partner(c) /\ pc'[c] = "answered"
  /\ job' = [y \in Items |-> job'[y]]
  /\ HasFields(job'[OwnId(c)], JobFields) /\ job'[OwnId(c)].settled = TRUE
  /\ job'[OwnId(c)].left = {}
  /\ \A y \in Items \ {OwnId(c)} : job'[y] = job[y]

LEMMA CallKinds ==
  ASSUME Shape, IntakeInv, NEW c \in Calls, CallStep(c)
  PROVE  CallOnly(c) /\ (Rests(c) \/ Spends(c) \/ Withdraws(c) \/ Begins(c) \/ CreatesLegacy(c))
<1>1. ASSUME NEW step, Goto(c, step)
      PROVE  /\ pc' = [d \in Calls |-> pc'[d]] /\ pc'[c] = step
             /\ \A d \in Calls \ {c} : pc'[d] = pc[d]
  BY <1>1 DEF Goto, Shape
<1>2. CASE Invalid(c) \/ Replay(c) \/ BlockRaises(c) \/ Respond(c) \/ RespondRaises(c)
  BY <1>1, <1>2 DEF Invalid, Replay, BlockRaises, Respond, RespondRaises, Answer, CallOnly, Rests
<1>3. CASE BlockBusy(c)
  BY <1>1, <1>3 DEF BlockBusy, Answer, CallOnly, Withdraws
<1>4. CASE LegacyKey(c)
  BY <1>1, <1>4 DEF LegacyKey, Answer, CallOnly, Rests
<1>5. CASE LegacyActive(c)
  BY <1>1, <1>5 DEF LegacyActive, Answer, CallOnly, Rests, IntakeInv, Calling
<1>6. CASE LegacyCreate(c)
  <2> DEFINE g == [NoJob EXCEPT !.status = "PENDING", !.key = call[c].key]
  <2>1. job' = [job EXCEPT ![OwnId(c)] = g]
    BY <1>6 DEF LegacyCreate, LegacyJob
  <2>2. HasFields(g, JobFields) /\ g.settled = TRUE /\ g.left = {}
    BY DEF NoJob, HasFields, JobFields
  <2> HIDE DEF g
  <2>3. /\ job' = [y \in Items |-> job'[y]] /\ job'[OwnId(c)] = g
        /\ \A y \in Items \ {OwnId(c)} : job'[y] = job[y]
    BY <2>1, Names DEF Shape
  <2>4. ~Partner(c)
    BY <1>6 DEF LegacyCreate, IntakeInv, Calling, Partner
  <2> QED BY <1>1, <1>6, <2>2, <2>3, <2>4 DEF LegacyCreate, Answer, CallOnly, CreatesLegacy
<1>7. CASE TakeBlock(c)
  <2>1. Kind(c) = "bulk" /\ Partner(c)
    BY <1>7 DEF TakeBlock, IntakeInv, Calling, Partner
  <2>2. \A y \in Entries(c) : item[y].pc = "none"
    BY <1>7 DEF TakeBlock, IntakeInv, Calling, Entries
  <2>3. \A y \in Items :
          \/ y \notin Entries(c) /\ item'[y] = item[y]
          \/ /\ y \in Entries(c)
             /\ \E v : \/ item'[y] = [item[y] EXCEPT !.pc = "lock", !.slot = v]
                       \/ item'[y] = [item[y] EXCEPT !.pc = "invalid"]
    <3> DEFINE valid == {x \in Entries(c) : Valid(x)}
    <3>1. item' = [x \in Items |->
            IF x \in valid THEN [item[x] EXCEPT !.pc = "lock", !.slot = counter + Position(x)]
            ELSE IF x \in Entries(c) THEN [item[x] EXCEPT !.pc = "invalid"] ELSE item[x]]
      BY <1>7 DEF TakeBlock
    <3>2. valid \subseteq Entries(c)
      OBVIOUS
    <3> HIDE DEF valid
    <3> QED BY <3>1, <3>2
  <2>4. \A y \in Items :
          HasFields(item'[y], ItemFields)
          /\ (y \in Entries(c) => item'[y].pc \in {"lock", "invalid"})
    <3>1. ASSUME NEW y \in Items, NEW v
          PROVE  /\ HasFields([item[y] EXCEPT !.pc = "lock", !.slot = v], ItemFields)
                 /\ [item[y] EXCEPT !.pc = "lock", !.slot = v].pc = "lock"
                 /\ HasFields([item[y] EXCEPT !.pc = "invalid"], ItemFields)
                 /\ [item[y] EXCEPT !.pc = "invalid"].pc = "invalid"
      BY DEF Shape, HasFields, ItemFields
    <3>2. \A y \in Items : HasFields(item[y], ItemFields)
      BY DEF Shape
    <3> SUFFICES ASSUME NEW y \in Items
                 PROVE  /\ HasFields(item'[y], ItemFields)
                        /\ y \in Entries(c) => item'[y].pc \in {"lock", "invalid"}
      OBVIOUS
    <3>3. CASE y \in Entries(c)
      <4>1. PICK v : \/ item'[y] = [item[y] EXCEPT !.pc = "lock", !.slot = v]
                     \/ item'[y] = [item[y] EXCEPT !.pc = "invalid"]
        BY <2>3, <3>3
      <4>2. CASE item'[y] = [item[y] EXCEPT !.pc = "lock", !.slot = v]
        <5> DEFINE g == [item[y] EXCEPT !.pc = "lock", !.slot = v]
        <5>1. HasFields(g, ItemFields) /\ g.pc = "lock"
          BY <3>1
        <5>2. item'[y] = g
          BY <4>2
        <5> HIDE DEF g
        <5> QED BY <5>1, <5>2
      <4>3. CASE item'[y] = [item[y] EXCEPT !.pc = "invalid"]
        <5> DEFINE g == [item[y] EXCEPT !.pc = "invalid"]
        <5>1. HasFields(g, ItemFields) /\ g.pc = "invalid"
          BY <3>1
        <5>2. item'[y] = g
          BY <4>3
        <5> HIDE DEF g
        <5> QED BY <5>1, <5>2
      <4> QED BY <4>1, <4>2, <4>3
    <3> QED BY <2>3, <3>2, <3>3
  <2>5. \A y \in Entries(c) : item'[y].pc \in {"lock", "invalid"}
    BY <2>4 DEF Entries
  <2>6. \A y \in Items \ Entries(c) : item'[y] = item[y] /\ (y[1] = c => item[y].pc = "none")
    BY <1>7, <2>3 DEF TakeBlock, IntakeInv, Calling
  <2>7. item' = [y \in Items |-> item'[y]]
    BY <1>7 DEF TakeBlock
  <2> QED BY <1>1, <1>7, <2>1, <2>4, <2>5, <2>6, <2>7
          DEF TakeBlock, CallOnly, Begins, Entries
<1>8. CASE Start(c)
  <2>1. Partner(c) /\ pc[c] = "start"
    BY <1>8 DEF Start, Claiming, Partner
  <2>2. CASE Taken(c)
    BY <1>1, <1>8, <2>1, <2>2 DEF Start, CallOnly, Rests
  <2>3. CASE ~Taken(c)
    <3>1. \A y \in Items : y[1] = c => item[y].pc = "none"
      BY <2>1 DEF IntakeInv, Calling
    <3>2. /\ Begin(c) /\ UNCHANGED <<call, lock, job>>
          /\ keys' = IF Keyed(c)
                     THEN [keys EXCEPT ![Scope(c)] = [result |-> OwnId(c), body |-> call[c].body]]
                     ELSE keys
      BY <1>8, <2>3 DEF Start, Claimed
    <3>3. Keyed(c) => keys[Scope(c)] = NoRecord
      BY <2>3 DEF Taken
    <3>4. CASE Kind(c) = "single"
      <4>1. Goto(c, "items") /\ ItemOnly(OwnId(c)) /\ item'[OwnId(c)].pc = "lock"
        BY <3>2, <3>4, ItemTo, Names DEF Begin
      <4>2. OwnId(c) \in Entries(c)
        BY Names, ConstantsAssumption DEF Entries, OwnId, Shape
      <4>3. \A y \in Items : /\ HasFields(item'[y], ItemFields)
                             /\ y # OwnId(c) => item'[y] = item[y]
        BY <4>1 DEF Shape, ItemOnly
      <4> QED BY <1>1, <2>1, <3>1, <3>2, <3>3, <3>4, <4>1, <4>2, <4>3, Names
              DEF CallOnly, Begins, ItemOnly
    <3>5. CASE Kind(c) = "bulk"
      <4>1. Goto(c, "slots") /\ item' = item
        BY <3>2, <3>5 DEF Begin
      <4> QED BY <1>1, <2>1, <3>1, <3>2, <3>3, <3>5, <4>1 DEF CallOnly, Begins, Shape
    <3> QED BY <2>1, <3>4, <3>5 DEF Partner
  <2> QED BY <2>2, <2>3
<1>9. CASE ClaimLost(c)
  BY <1>1, <1>9 DEF ClaimLost, Claiming, Claimed, Taken, Partner, CallOnly, Spends
<1>10. CASE ClaimRaises(c)
  <2>1. /\ Goto(c, "answered") /\ UNCHANGED <<call, item, lock, job>>
        /\ Partner(c) /\ Keyed(c) /\ pc[c] = "start"
        /\ \/ keys' = keys
           \/ ~Taken(c) /\ keys' = Claimed(c)
    BY <1>10 DEF ClaimRaises, Claiming, Partner, Answer
  <2> QED BY <1>1, <2>1 DEF Claimed, Taken, CallOnly, Rests, Spends
<1> QED BY <1>2, <1>3, <1>4, <1>5, <1>6, <1>7, <1>8, <1>9, <1>10 DEF CallStep

(* A call that begins or ends leaves what the other calls own, and every   *)
(* lock, as they were.                                                     *)
LEMMA CallStepKeeps ==
  ASSUME Shape, IntakeInv, NEW c \in Calls, CallStep(c)
  PROVE  Shape' /\ IntakeInv'
<1>1. CallOnly(c) /\ (Rests(c) \/ Spends(c) \/ Withdraws(c) \/ Begins(c) \/ CreatesLegacy(c))
  BY CallKinds
<1>2. /\ \A d \in Calls \ {c} : pc'[d] = pc[d]
      /\ \A y \in Items : y[1] # c => item'[y] = item[y]
      /\ ~Begins(c) => item' = item
      /\ ~CreatesLegacy(c) => job' = job
  BY <1>1 DEF CallOnly, Rests, Spends, Withdraws, Begins, CreatesLegacy
<1>3. Shape'
  <2>1. /\ item' = [y \in Items |-> item'[y]]
        /\ \A y \in Items : HasFields(item'[y], ItemFields)
    <3>1. CASE Begins(c)
      BY <3>1 DEF Begins
    <3>2. CASE ~Begins(c)
      BY <1>2, <3>2 DEF Shape
    <3> QED BY <3>1, <3>2
  <2>2. /\ job' = [y \in Items |-> job'[y]]
        /\ \A y \in Items : HasFields(job'[y], JobFields) /\ job'[y].settled \in BOOLEAN
    <3>1. CASE CreatesLegacy(c)
      <4>1. \A y \in Items : y = OwnId(c) \/ job'[y] = job[y]
        BY <3>1 DEF CreatesLegacy
      <4> QED BY <3>1, <4>1 DEF CreatesLegacy, Shape
    <3>2. CASE ~CreatesLegacy(c)
      BY <1>2, <3>2 DEF Shape
    <3> QED BY <3>1, <3>2
  <2>3. keys' = [s \in Scopes |-> keys'[s]]
    BY <1>1 DEF Shape, Rests, Spends, Withdraws, Begins, CreatesLegacy, WithoutClaim
  <2> QED BY <1>1, <2>1, <2>2, <2>3 DEF Shape, CallOnly
<1>4. Begins(c) \/ Spends(c) \/ Withdraws(c) \/ ~Partner(c) =>
        \A y \in Items : y[1] = c => item[y].pc = "none" /\ (Partner(c) => ~Exists(y))
  BY DEF Begins, Spends, Withdraws, IntakeInv, Calling, Working
<1>5. Calling'
  <2>1. \A d \in Calls : /\ pc'[d] = "slots" => Kind(d) = "bulk"
                         /\ pc'[d] \in {"active", "new"} => Kind(d) = "legacy"
    BY <1>1, <1>2 DEF IntakeInv, Calling, Rests, Spends, Withdraws, Begins, CreatesLegacy
  <2>2. ASSUME NEW y \in Items, item'[y].pc # "none"
        PROVE  /\ Partner(y[1]) /\ y \in Entries(y[1])
               /\ pc'[y[1]] \notin {"start", "read", "slots"}
               /\ Kind(y[1]) = "single" => y = OwnId(y[1])
    <3>1. CASE y[1] # c
      BY <1>2, <2>2, <3>1, Names DEF IntakeInv, Calling
    <3>2. CASE y[1] = c /\ Begins(c)
      BY <1>4, <2>2, <3>2 DEF Begins
    <3>3. CASE y[1] = c /\ ~Begins(c)
      BY <1>1, <1>2, <1>4, <2>2, <3>3
         DEF IntakeInv, Calling, Rests, Spends, Withdraws, CreatesLegacy
    <3> QED BY <3>1, <3>2, <3>3
  <2>3. /\ \A d \in Calls : Kind(d)' = Kind(d) /\ Partner(d)' = Partner(d)
        /\ \A y \in Items : Kind(y[1])' = Kind(y[1]) /\ Partner(y[1])' = Partner(y[1])
                            /\ Entries(y[1])' = Entries(y[1])
    BY <1>1, SameCall, Names DEF CallOnly
  <2> QED BY <2>1, <2>2, <2>3 DEF Calling, OwnId
<1>6. Working'
  <2>1. ASSUME NEW y \in Items
        PROVE  /\ Exists(y)' /\ Partner(y[1]) => item'[y].pc \in {"dispatch", "accepted", "dead"}
               /\ Exists(y)' /\ ~Partner(y[1]) => job'[y].settled /\ job'[y].left = {}
               /\ item'[y].pc \in {"dispatch", "accepted"} => Exists(y)'
    <3>1. CASE Begins(c)
      BY <1>2, <1>4, <3>1 DEF IntakeInv, Working, Begins, CreatesLegacy, Exists
    <3>2. CASE CreatesLegacy(c)
      BY <1>1, <1>4, <3>2, Names DEF IntakeInv, Working, CreatesLegacy, Exists
    <3>3. CASE ~Begins(c) /\ ~CreatesLegacy(c)
      BY <1>2, <3>3 DEF IntakeInv, Working, Exists
    <3> QED BY <3>1, <3>2, <3>3
  <2> QED BY <1>1, <2>1, SameCall, Names DEF Working, CallOnly
<1>7. Claims'
  <2>1. ASSUME NEW d \in Calls, d # c, Partner(d), Keyed(d), Owns(d)
        PROVE  Owns(d)'
    <3>1. OwnId(d) # OwnId(c) /\ OwnId(d) # NoItem /\ Scope(d) \in Scopes
      BY <2>1, Names, Places, ConstantsAssumption
    <3>2. CASE keys' = keys
      BY <1>1, <2>1, <3>2, SameCall DEF CallOnly, Owns
    <3>3. CASE keys[Scope(c)] = NoRecord
      BY <1>1, <2>1, <3>1, <3>3, SameCall
         DEF CallOnly, Owns, Shape, NoRecord, Rests, Spends, Withdraws, Begins,
             CreatesLegacy, WithoutClaim
    <3>4. CASE keys[Scope(c)].result = OwnId(c)
      BY <1>1, <2>1, <3>1, <3>4, SameCall
         DEF CallOnly, Owns, Shape, NoRecord, Rests, Spends, Withdraws, Begins,
             CreatesLegacy, WithoutClaim
    <3> QED BY <1>1, <3>2, <3>3, <3>4
            DEF Rests, Spends, Withdraws, Begins, CreatesLegacy, WithoutClaim
  <2>2. Begins(c) /\ Keyed(c) => Owns(c)'
    <3> SUFFICES ASSUME Begins(c), Keyed(c) PROVE Owns(c)'
      OBVIOUS
    <3>1. Scope(c) \in Scopes
      BY Places DEF Begins
    <3>2. CASE keys' = keys /\ pc[c] = "slots"
      BY <1>1, <3>2, SameCall DEF CallOnly, Owns, IntakeInv, Claims
    <3>3. CASE keys' = [keys EXCEPT ![Scope(c)] = [result |-> OwnId(c), body |-> call[c].body]]
      BY <1>1, <3>1, <3>3, SameCall DEF CallOnly, Owns, Shape
    <3> QED BY <3>2, <3>3 DEF Begins
  <2>3. ASSUME NEW d \in Calls, pc'[d] = "slots", Keyed(d) PROVE Owns(d)'
    <3>1. CASE d = c
      BY <1>1, <2>2, <2>3, <3>1 DEF Rests, Spends, Withdraws, CreatesLegacy
    <3>2. CASE d # c
      BY <1>2, <2>1, <2>3, <3>2 DEF IntakeInv, Calling, Claims, Partner
    <3> QED BY <3>1, <3>2
  <2>4. ASSUME NEW y \in Items, Keyed(y[1]),
               item'[y].pc \in Active \cup {"accepted", "dead"}
        PROVE  Owns(y[1])'
    <3>1. CASE y[1] # c
      <4>1. item[y].pc \in Active \cup {"accepted", "dead"}
        BY <1>2, <2>4, <3>1
      <4> QED BY <2>1, <2>4, <3>1, <4>1, Names
              DEF IntakeInv, Calling, Claims, Active, Holding
    <3>2. CASE y[1] = c /\ Begins(c)
      BY <2>2, <2>4, <3>2
    <3>3. CASE y[1] = c /\ ~Begins(c)
      <4>1. item[y].pc \in Active \cup {"accepted", "dead"}
        BY <1>2, <2>4, <3>3
      <4>2. Owns(c) /\ item[y].pc # "none"
        BY <2>4, <3>3, <4>1 DEF IntakeInv, Claims, Active, Holding
      <4>3. keys' = keys
        BY <1>1, <1>4, <3>3, <4>2 DEF Rests, Spends, CreatesLegacy
      <4> QED BY <1>1, <3>3, <4>2, <4>3, SameCall DEF CallOnly, Owns
    <3> QED BY <3>1, <3>2, <3>3
  <2> QED BY <1>1, <2>3, <2>4, SameCall, Names DEF Claims, CallOnly
<1>8. LocksFollowJobs'
  <2>1. \A y \in Items : DomainOf(y)' = DomainOf(y)
    BY <1>1, SameCall DEF CallOnly
  <2>2. lock' = lock /\ lock' \in [Domains -> Items \cup {NoItem}]
    BY <1>1, <1>3 DEF CallOnly, Shape
  <2>3. ASSUME NEW y \in Items
        PROVE  (MayHold(y) => MayHold(y)') /\ (MustHold(y)' => MustHold(y))
    <3>1. CASE item'[y] = item[y] /\ job'[y] = job[y]
      BY <3>1 DEF MayHold, MustHold, Exists
    <3>2. CASE y[1] = c /\ Begins(c)
      <4>1. item[y].pc = "none" /\ ~Exists(y) /\ ~Exists(y)'
        BY <1>2, <1>4, <3>2 DEF Begins, CreatesLegacy, Exists
      <4>2. item'[y].pc \in {"none", "lock", "invalid"}
        BY <3>2 DEF Begins
      <4> QED BY <4>1, <4>2 DEF MayHold, MustHold, Holding
    <3>3. CASE y = OwnId(c) /\ CreatesLegacy(c)
      <4>1. /\ item[y].pc = "none" /\ item'[y] = item[y]
            /\ Exists(y) => job[y].settled /\ job[y].left = {}
        BY <1>4, <3>3, Names DEF CreatesLegacy, IntakeInv, Working
      <4>2. job'[y].settled = TRUE
        BY <3>3 DEF CreatesLegacy
      <4> QED BY <4>1, <4>2 DEF MayHold, MustHold, Exists, Holding
    <3> QED BY <1>2, <3>1, <3>2, <3>3 DEF CreatesLegacy
  <2> QED BY <2>1, <2>2, <2>3, LocksNow, LocksNext
<1> QED BY <1>3, <1>5, <1>6, <1>7, <1>8 DEF IntakeInv

-----------------------------------------------------------------------------
(* A crash, and what becomes of jobs and of the locks of the dead.         *)
LEMMA CrashKeeps ==
  ASSUME Shape, IntakeInv, NEW c \in Calls, Crash(c)
  PROVE  Shape' /\ IntakeInv'
<1>1. /\ UNCHANGED <<call, keys, lock, job>>
      /\ pc' = [d \in Calls |-> pc'[d]] /\ pc'[c] = "dead" /\ pc[c] # "start"
      /\ \A d \in Calls \ {c} : pc'[d] = pc[d]
  BY DEF Crash, Goto, Shape
<1>2. /\ item' = [y \in Items |-> item'[y]]
      /\ \A y \in Items : IF y \in Entries(c) /\ item[y].pc \in Active
                          THEN item'[y] = [item[y] EXCEPT !.pc = "dead"]
                          ELSE item'[y] = item[y]
  BY DEF Crash
<1>3. ASSUME NEW y \in Items
      PROVE  /\ HasFields(item'[y], ItemFields)
             /\ IF y \in Entries(c) /\ item[y].pc \in Active
                THEN item'[y].pc = "dead" ELSE item'[y] = item[y]
  <2>1. CASE y \in Entries(c) /\ item[y].pc \in Active
    <3> DEFINE g == [item[y] EXCEPT !.pc = "dead"]
    <3>1. HasFields(g, ItemFields) /\ g.pc = "dead"
      BY DEF Shape, HasFields, ItemFields
    <3>2. item'[y] = g
      BY <1>2, <2>1
    <3> HIDE DEF g
    <3> QED BY <2>1, <3>1, <3>2
  <2>2. CASE ~(y \in Entries(c) /\ item[y].pc \in Active)
    BY <1>2, <2>2 DEF Shape
  <2> QED BY <2>1, <2>2
<1>4. Shape'
  BY <1>1, <1>2, <1>3 DEF Shape
<1>5. Calling'
  <2>1. ASSUME NEW y \in Items, item'[y].pc # "none"
        PROVE  item[y].pc # "none"
    BY <1>3, <2>1 DEF Active, Holding
  <2>2. /\ \A d \in Calls : Kind(d)' = Kind(d) /\ Partner(d)' = Partner(d)
        /\ \A y \in Items : Kind(y[1])' = Kind(y[1]) /\ Partner(y[1])' = Partner(y[1])
                            /\ Entries(y[1])' = Entries(y[1])
    BY <1>1, SameCall, Names
  <2>3. \A d \in Calls : pc'[d] = "dead" \/ pc'[d] = pc[d]
    BY <1>1
  <2> QED BY <2>1, <2>2, <2>3, Names DEF IntakeInv, Calling, OwnId
<1>6. Working'
  <2>1. \A y \in Items : item'[y] = item[y] \/ (item'[y].pc = "dead" /\ item[y].pc # "none")
    BY <1>3 DEF Active, Holding
  <2> QED BY <1>1, <2>1, SameCall, Names DEF IntakeInv, Working, Exists
<1>7. Claims'
  <2>1. \A y \in Items : item'[y].pc \in Active \cup {"accepted", "dead"} =>
                           item[y].pc \in Active \cup {"accepted", "dead"}
    BY <1>3
  <2> QED BY <1>1, <2>1, SameCall, Names DEF IntakeInv, Claims, Owns
<1>8. LocksFollowJobs'
  <2>1. ASSUME NEW y \in Items
        PROVE  (MayHold(y) => MayHold(y)') /\ (MustHold(y)' => MustHold(y))
    BY <1>1, <1>3 DEF MayHold, MustHold, Exists
  <2> QED BY <1>1, <1>4, <2>1, SameCall, LocksNow, LocksNext DEF Shape
<1> QED BY <1>4, <1>5, <1>6, <1>7, <1>8 DEF IntakeInv

LEMMA JobStepKeeps ==
  ASSUME Shape, IntakeInv, NEW x \in Items, JobStarts(x) \/ JobEnds(x) \/ LegacyEnds(x)
  PROVE  Shape' /\ IntakeInv'
<1>1. /\ UNCHANGED <<call, pc, item, keys>> /\ Exists(x)
      /\ job' = [y \in Items |-> job'[y]]
      /\ HasFields(job'[x], JobFields) /\ job'[x].status # "NONE"
      /\ job'[x].settled \in BOOLEAN /\ (job[x].settled => job'[x].settled)
      /\ \A y \in Items \ {x} : job'[y] = job[y]
      /\ \/ /\ lock' = lock /\ job'[x].settled = job[x].settled
            /\ job'[x].left = job[x].left
         \/ /\ job'[x].settled = TRUE /\ ~job[x].settled
            /\ \/ lock' = lock /\ "lock" \in job'[x].left
               \/ lock' = [lock EXCEPT ![DomainOf(x)] =
                             IF lock[DomainOf(x)] = x THEN NoItem ELSE lock[DomainOf(x)]]
  <2>1. CASE JobStarts(x)
    <3> DEFINE g == [job[x] EXCEPT !.status = "ACTIVE"]
    <3>1. job' = [job EXCEPT ![x] = g]
      BY <2>1 DEF JobStarts
    <3>2. HasFields(g, JobFields) /\ g.status # "NONE"
          /\ g.settled = job[x].settled /\ g.left = job[x].left
      BY DEF Shape, HasFields, JobFields
    <3> HIDE DEF g
    <3> QED BY <2>1, <3>1, <3>2 DEF JobStarts, Shape, Exists
  <2>2. CASE LegacyEnds(x)
    <3>1. PICK status \in {"COMPLETED", "FAILED"} : job' = [job EXCEPT ![x].status = status]
      BY <2>2 DEF LegacyEnds
    <3> DEFINE g == [job[x] EXCEPT !.status = status]
    <3>2. job' = [job EXCEPT ![x] = g]
      BY <3>1
    <3>3. HasFields(g, JobFields) /\ g.status = status
          /\ g.settled = job[x].settled /\ g.left = job[x].left
      <4>1. HasFields(job[x], JobFields)
        BY DEF Shape
      <4> QED BY <4>1 DEF HasFields, JobFields
    <3> HIDE DEF g
    <3> QED BY <2>2, <3>2, <3>3 DEF LegacyEnds, Shape, Exists
  <2>3. CASE JobEnds(x)
    <3>1. PICK status \in {"COMPLETED", "FAILED"}, charge \in 0 .. job[x].reserved,
               left \in SUBSET {"refund", "lock"} :
            /\ job' = [job EXCEPT ![x].status = status, ![x].settled = TRUE, ![x].added = charge,
                                  ![x].left = left]
            /\ lock' = IF "lock" \in left THEN lock
                       ELSE [lock EXCEPT ![DomainOf(x)] = IF @ = x THEN NoItem ELSE @]
      BY <2>3 DEF JobEnds
    <3> DEFINE g == [job[x] EXCEPT !.status = status, !.settled = TRUE, !.added = charge,
                                   !.left = left]
    <3>2. job' = [job EXCEPT ![x] = g]
      BY <3>1 DEF Shape
    <3>3. HasFields(g, JobFields) /\ g.status = status /\ g.settled = TRUE /\ g.left = left
      <4>1. HasFields(job[x], JobFields)
        BY DEF Shape
      <4> QED BY <4>1 DEF HasFields, JobFields
    <3> HIDE DEF g
    <3> QED BY <2>3, <3>1, <3>2, <3>3 DEF JobEnds, Running, Shape, Exists
  <2> QED BY <2>1, <2>2, <2>3
<1>2. \A y \in Items : /\ Exists(y)' = Exists(y)
                       /\ job[y].settled => job'[y].settled
  BY <1>1 DEF Exists
<1>3. Shape'
  <2>1. lock' \in [Domains -> Items \cup {NoItem}]
    BY <1>1 DEF Shape
  <2>2. \A y \in Items : HasFields(job'[y], JobFields) /\ job'[y].settled \in BOOLEAN
    <3>1. \A y \in Items : y = x \/ job'[y] = job[y]
      BY <1>1
    <3> QED BY <1>1, <3>1 DEF Shape
  <2> QED BY <1>1, <2>1, <2>2 DEF Shape
<1>4. Calling' /\ Claims'
  BY <1>1, SameCall, Names DEF IntakeInv, Calling, Claims, Owns
<1>5. Working'
  BY <1>1, <1>2, SameCall, Names DEF IntakeInv, Working
<1>6. LocksFollowJobs'
  <2>1. \A y \in Items \ {x} : MayHold(y)' = MayHold(y) /\ MustHold(y)' = MustHold(y)
    BY <1>1, <1>2 DEF MayHold, MustHold
  <2>2. \A y \in Items : DomainOf(y)' = DomainOf(y)
    BY <1>1, SameCall
  <2>3. lock' \in [Domains -> Items \cup {NoItem}]
    BY <1>3 DEF Shape
  <2>4. CASE /\ lock' = lock
             /\ \/ job'[x].settled = job[x].settled /\ job'[x].left = job[x].left
                \/ job'[x].settled = TRUE /\ "lock" \in job'[x].left
    <3>1. (MayHold(x) => MayHold(x)') /\ (MustHold(x)' => MustHold(x))
      BY <1>1, <1>2, <2>4 DEF MayHold, MustHold
    <3> QED BY <2>1, <2>2, <2>3, <2>4, <3>1, LocksNow, LocksNext
  <2>5. CASE job'[x].settled = TRUE /\ ~job[x].settled
             /\ lock' = [lock EXCEPT ![DomainOf(x)] =
                           IF lock[DomainOf(x)] = x THEN NoItem ELSE lock[DomainOf(x)]]
    <3>1. item[x].pc \in {"dispatch", "accepted", "dead"} /\ ~MustHold(x)'
      BY <1>1, <2>5 DEF IntakeInv, Working, MustHold
    <3>2. \A d \in Domains :
            lock'[d] = IF d = DomainOf(x) /\ lock[d] = x THEN NoItem ELSE lock[d]
      BY <2>5 DEF Shape
    <3>3. \A d \in Domains, y \in Items : lock'[d] = y => lock[d] = y /\ y # x
      BY <3>2, ConstantsAssumption, LocksNow
    <3>4. \A d \in Domains, y \in Items : lock'[d] = y => DomainOf(y)' = d /\ MayHold(y)'
      BY <2>1, <2>2, <3>3, LocksNow
    <3>5. \A y \in Items : MustHold(y)' => lock'[DomainOf(y)'] = y
      BY <2>1, <2>2, <3>1, <3>2, LocksNow
    <3> QED BY <2>3, <3>4, <3>5, LocksNext
  <2> QED BY <1>1, <2>4, <2>5
<1> QED BY <1>3, <1>4, <1>5, <1>6 DEF IntakeInv

LEMMA ExpiryKeeps ==
  ASSUME Shape, IntakeInv, NEW d \in Domains, LockExpires(d)
  PROVE  Shape' /\ IntakeInv'
<1>1. /\ UNCHANGED <<call, pc, item, keys, job>>
      /\ lock' = [lock EXCEPT ![d] = NoItem]
      /\ lock[d] # NoItem /\ ~MustHold(lock[d])
  <2>1. lock[d] \in Items
    BY DEF LockExpires, Shape
  <2>2. CASE Exists(lock[d])
    <3>1. item[lock[d]].pc \in {"none", "dispatch", "accepted", "dead"}
      BY <2>1, <2>2, Names DEF IntakeInv, Calling, Working
    <3> QED BY <2>2, <3>1 DEF LockExpires, MustHold
  <2>3. CASE ~Exists(lock[d])
    BY <2>3 DEF LockExpires, MustHold
  <2> QED BY <2>2, <2>3 DEF LockExpires
<1>2. Shape'
  BY <1>1 DEF Shape
<1>3. Calling' /\ Working' /\ Claims'
  BY <1>1, SameCall, Names DEF IntakeInv, Calling, Working, Claims, Owns, Exists
<1>4. \A y \in Items : /\ DomainOf(y)' = DomainOf(y)
                       /\ MayHold(y)' = MayHold(y) /\ MustHold(y)' = MustHold(y)
  BY <1>1, SameCall DEF MayHold, MustHold, Exists
<1>5. \A e \in Domains : lock'[e] = IF e = d THEN NoItem ELSE lock[e]
  BY <1>1 DEF Shape
<1>6. \A e \in Domains, y \in Items : lock'[e] = y => DomainOf(y)' = e /\ MayHold(y)'
  BY <1>4, <1>5, ConstantsAssumption, LocksNow
<1>7. \A y \in Items : MustHold(y)' => lock'[DomainOf(y)'] = y
  <2>1. \A y \in Items : MustHold(y) => lock[d] # y
    BY <1>1
  <2> QED BY <1>4, <1>5, <2>1, LocksNow
<1>8. lock' \in [Domains -> Items \cup {NoItem}]
  BY <1>2 DEF Shape
<1>9. LocksFollowJobs'
  BY <1>6, <1>7, <1>8, LocksNext
<1> QED BY <1>2, <1>3, <1>9 DEF IntakeInv

LEMMA Initially == Init => Shape /\ IntakeInv
<1> SUFFICES ASSUME Init PROVE Shape /\ IntakeInv
  OBVIOUS
<1>1. \A x \in Items : /\ item[x] = [pc |-> "none", seats |-> 0, slot |-> 0]
                       /\ job[x] = NoJob
  BY DEF Init
<1>2. Shape
  <2>1. HasFields([pc |-> "none", seats |-> 0, slot |-> 0], ItemFields)
    BY DEF HasFields, ItemFields
  <2>2. HasFields(NoJob, JobFields) /\ NoJob.settled \in BOOLEAN
    BY DEF HasFields, JobFields, NoJob
  <2> QED BY <1>1, <2>1, <2>2 DEF Init, Shape
<1>3. \A x \in Items : item[x].pc = "none" /\ ~Exists(x)
  BY <1>1 DEF Exists, NoJob
<1>4. Calling /\ Working /\ Claims
  BY <1>3 DEF Init, Calling, Working, Claims, Active, Holding
<1>5. LocksFollowJobs
  BY <1>3 DEF Init, LocksFollowJobs, Holding
<1> QED BY <1>2, <1>4, <1>5 DEF IntakeInv

LEMMA Inductive == Spec => [](Shape /\ IntakeInv)
<1>1. ASSUME Shape /\ IntakeInv, [Next]_vars PROVE (Shape /\ IntakeInv)'
  <2>1. CASE UNCHANGED vars
    <3>1. UNCHANGED <<call, pc, item, keys, lock, job>>
      BY <2>1 DEF vars
    <3>2. Shape'
      BY <1>1, <3>1 DEF Shape
    <3>3. Calling' /\ Working' /\ Claims'
      BY <1>1, <3>1, SameCall, Names DEF IntakeInv, Calling, Working, Claims, Owns, Exists
    <3>4. \A y \in Items : /\ DomainOf(y)' = DomainOf(y)
                           /\ MayHold(y)' = MayHold(y) /\ MustHold(y)' = MustHold(y)
      BY <3>1, SameCall DEF MayHold, MustHold, Exists
    <3>5. LocksFollowJobs'
      BY <1>1, <3>1, <3>2, <3>4, LocksNow, LocksNext DEF Shape
    <3> QED BY <3>2, <3>3, <3>5 DEF IntakeInv
  <2>2. CASE \E c \in Calls : CallStep(c) \/ Crash(c)
    BY <1>1, <2>2, CallStepKeeps, CrashKeeps
  <2>3. CASE \E x \in Items : ItemStep(x) \/ JobStarts(x) \/ JobEnds(x) \/ LegacyEnds(x)
    BY <1>1, <2>3, ItemStepKeeps, JobStepKeeps
  <2>4. CASE \E d \in Domains : LockExpires(d)
    BY <1>1, <2>4, ExpiryKeeps
  <2> QED BY <1>1, <2>1, <2>2, <2>3, <2>4 DEF Next
<1> QED BY <1>1, Initially, PTL DEF Spec

-----------------------------------------------------------------------------
(* However often and in whatever order keyed requests are repeated, refused *)
(* and retried, and wherever a server dies, a key makes the jobs of one     *)
(* call only (IdempotencyRepository.claim and forget): a call that created  *)
(* a job is the owner of its key's record, and a record has one owner.      *)
THEOREM KeyMakesJobsOnce == Spec => []OneJobPerKey
<1>1. Shape /\ IntakeInv => OneJobPerKey
  <2> SUFFICES ASSUME Shape, IntakeInv, NEW x \in Items, NEW y \in Items,
                      Exists(x), Exists(y),
                      Kind(x[1]) \in {"single", "bulk"}, Keyed(x[1]),
                      Scope(x[1]) = Scope(y[1])
               PROVE  x[1] = y[1]
    BY DEF OneJobPerKey
  <2>1. Partner(y[1]) /\ Keyed(y[1])
    BY DEF Scope, Partner, Keyed
  <2>2. \A z \in Items : Exists(z) /\ Partner(z[1]) /\ Keyed(z[1]) => Owns(z[1])
    BY DEF IntakeInv, Working, Claims, Active, Holding
  <2>3. Owns(x[1]) /\ Owns(y[1])
    BY <2>1, <2>2 DEF Partner
  <2> QED BY <2>3, Names DEF Owns
<1> QED BY <1>1, Inductive, PTL

(* A domain lock is never held for nothing and never missing: its holder is *)
(* a request in accept(), a job that is not settled, or the remains of a    *)
(* crash or of an error nothing caught, in accept() or in the settlement;   *)
(* and a request that has reserved seats but no job yet, as a job that is   *)
(* not settled, has the lock of its domain.                                 *)
THEOREM LocksAreAccountedFor == Spec => []LocksFollowJobs
BY Inductive, PTL DEF IntakeInv

-----------------------------------------------------------------------------
(* The types of the rest, and how far an item and its call have come.      *)
ItemRecord == [pc: ItemSteps, seats: Nat, slot: Nat]
JobRecord == [status: {"NONE", "COMPLETED", "FAILED"} \cup Running, settled: BOOLEAN,
              reserved: Nat, added: Nat, commit: BOOLEAN, key: Keys \cup {NoKey},
              left: SUBSET {"refund", "lock"}]
AnswerRecord == [told: {"", "accepted", "refused", "broken", "replay", "mismatch", "batch",
                        "missing", "joined"},
                 id: Items \cup {NoItem}]
Results == {<<>>} \cup UNION {[1 .. n -> Final] : n \in 1 .. MaxItems}
KeyRecord == [result: Items \cup {NoItem}, body: {<<>>} \cup {call[c].body : c \in Calls}]

Types ==
  /\ pc \in [Calls -> Steps]
  /\ answer \in [Calls -> AnswerRecord]
  /\ item \in [Items -> ItemRecord]
  /\ keys \in [Scopes -> KeyRecord]
  /\ used \in Int
  /\ counter \in Nat
  /\ job \in [Items -> JobRecord]
  /\ batch \in [Calls -> Results]
  /\ mishaps \in 0 .. MaxMishaps

Stages ==
  /\ \A c \in Calls : /\ pc[c] = "read" => Partner(c) /\ Keyed(c)
                      /\ pc[c] = "items" => Partner(c)
  /\ \A x \in Items :
       /\ item[x].pc = "dead" => pc[x[1]] = "dead"
       /\ item[x].pc = "invalid" => Kind(x[1]) = "bulk"
       /\ item[x].pc \in {"none", "invalid", "lock", "reserve"} => item[x].seats = 0
       /\ ~Partner(x[1]) => job[x].added = 0

(* What a step that moves item x does to it.                               *)
ItemMoves(x, step, seats, slot) ==
  /\ item' \in [Items -> ItemRecord]
  /\ item'[x].pc = step /\ item'[x].seats = seats /\ item'[x].slot = slot
  /\ \A y \in Items \ {x} : item'[y] = item[y]

LEMMA Moves ==
  ASSUME Types, NEW x \in Items, NEW step \in ItemSteps
  PROVE  /\ At(x, step) => ItemMoves(x, step, item[x].seats, item[x].slot)
         /\ \A n \in Nat : item' = [item EXCEPT ![x].pc = step, ![x].seats = n]
                          => ItemMoves(x, step, n, item[x].slot)
         /\ \A n \in Nat : item' = [item EXCEPT ![x].pc = step, ![x].slot = n]
                          => ItemMoves(x, step, item[x].seats, n)
<1> DEFINE r == [item[x] EXCEPT !.pc = step]
<1>1. r \in ItemRecord /\ r.pc = step /\ r.seats = item[x].seats /\ r.slot = item[x].slot
  BY DEF Types, ItemRecord
<1>2. At(x, step) => item' = [item EXCEPT ![x] = r]
  BY DEF At
<1>3. ASSUME NEW n \in Nat
      PROVE  /\ item' = [item EXCEPT ![x].pc = step, ![x].seats = n]
                 => item' = [item EXCEPT ![x] = [r EXCEPT !.seats = n]]
             /\ item' = [item EXCEPT ![x].pc = step, ![x].slot = n]
                 => item' = [item EXCEPT ![x] = [r EXCEPT !.slot = n]]
  BY DEF Types
<1> HIDE DEF r
<1>4. At(x, step) => ItemMoves(x, step, item[x].seats, item[x].slot)
  BY <1>1, <1>2 DEF Types, ItemMoves
<1>5. ASSUME NEW n \in Nat
      PROVE  /\ item' = [item EXCEPT ![x] = [r EXCEPT !.seats = n]]
                 => ItemMoves(x, step, n, item[x].slot)
             /\ item' = [item EXCEPT ![x] = [r EXCEPT !.slot = n]]
                 => ItemMoves(x, step, item[x].seats, n)
  <2>1. /\ [r EXCEPT !.seats = n] \in ItemRecord /\ [r EXCEPT !.seats = n].pc = step
        /\ [r EXCEPT !.seats = n].seats = n /\ [r EXCEPT !.seats = n].slot = item[x].slot
        /\ [r EXCEPT !.slot = n] \in ItemRecord /\ [r EXCEPT !.slot = n].pc = step
        /\ [r EXCEPT !.slot = n].slot = n /\ [r EXCEPT !.slot = n].seats = item[x].seats
    BY <1>1 DEF ItemRecord
  <2> QED BY <2>1 DEF Types, ItemMoves
<1> QED BY <1>3, <1>4, <1>5

LEMMA StepNames ==
  /\ {"none", "lock", "reserve", "unlock", "forget", "slot", "cut", "create", "dispatch", "undo",
      "accepted", "refused", "broken", "invalid", "dead"} = ItemSteps
  /\ Final \subseteq ItemSteps
BY DEF ItemSteps, Holding, Final

(* What the books of a step of accept() come to: the counter moves as the  *)
(* item's own charge does, and upwards only below the cap.                 *)
Books(x) ==
  /\ used' \in Int /\ Charge(x) \in Nat /\ Charge(x)' \in Nat
  /\ used' - used = Charge(x)' - Charge(x)
  /\ used' <= used \/ used' <= Cap
  /\ \A y \in Items \ {x} : Charge(y)' = Charge(y)

LEMMA Entered ==
  ASSUME Shape, IntakeInv, NEW x \in Items, item[x].pc # "none"
  PROVE  Partner(x[1]) /\ x[1] \in Calls /\ EntryOf(x).seats \in Nat
<1>1. Partner(x[1]) /\ x \in Entries(x[1]) /\ x[1] \in Calls
  BY Names DEF IntakeInv, Calling
<1>2. x[2] \in 1 .. Len(call[x[1]].body) /\ call[x[1]].body \in Seq(Entry)
  BY <1>1, ConstantsAssumption DEF Entries, CallRecord, Bodies, Items, Shape
<1>3. EntryOf(x) \in Entry
  BY <1>2 DEF EntryOf
<1> QED BY <1>1, <1>3 DEF Entry

LEMMA Charges ==
  ASSUME Types
  PROVE  /\ \A x \in Items : Charge(x) \in Nat
         /\ \A x \in Items : item[x].seats \in Nat /\ item[x].slot \in Nat
         /\ \A x \in Items : job[x].reserved \in Nat /\ job[x].added \in Nat
BY DEF Types, ItemRecord, JobRecord, Charge

LEMMA KeysStay ==
  ASSUME Types, call' = call, NEW c \in Calls, keys' = keys \/ keys' = WithoutClaim(c)
  PROVE  keys' \in [Scopes -> KeyRecord']
<1>1. KeyRecord' = KeyRecord
  BY DEF KeyRecord
<1>2. NoRecord \in KeyRecord
  BY DEF KeyRecord, NoRecord
<1> QED BY <1>1, <1>2 DEF Types, WithoutClaim

(* An item that has no job yet, and gets none in this step.                *)
LEMMA UnbornBooks ==
  ASSUME Types, NEW x \in Items, NEW step, NEW seats, NEW slot,
         ItemMoves(x, step, seats, slot), job' = job, ~Exists(x),
         used' - used = seats - item[x].seats, used' \in Int,
         used' <= used \/ used' <= Cap
  PROVE  Books(x)
<1>1. Charge(x) = item[x].seats /\ Charge(x)' = item'[x].seats
  BY DEF Charge, Exists
<1>2. \A y \in Items \ {x} : Charge(y)' = Charge(y)
  BY DEF ItemMoves, Charge, Exists
<1>3. item[x].seats \in Nat /\ item'[x].seats \in Nat
  BY DEF ItemMoves, Types, ItemRecord
<1> QED BY <1>1, <1>2, <1>3 DEF Books, ItemMoves

LEMMA ItemBooks ==
  ASSUME Shape, IntakeInv, Types, Stages, NEW x \in Items, ItemStep(x)
  PROVE  /\ UNCHANGED <<call, pc, answer, batch>>
         /\ \E step \in ItemSteps \ {"none", "lock", "invalid", "dead"}, seats, slot \in Nat :
              /\ ItemMoves(x, step, seats, slot)
              /\ step = "reserve" => seats = 0
              /\ \/ slot = item[x].slot /\ counter' = counter
                 \/ slot = counter + 1 /\ counter' = counter + 1
                    /\ item[x].slot = 0 /\ item[x].pc = "slot"
         /\ keys' = keys \/ keys' = WithoutClaim(x[1])
         /\ job' \in [Items -> JobRecord]
         /\ \A y \in Items \ {x} : job'[y] = job[y]
         /\ mishaps' \in 0 .. MaxMishaps
         /\ Books(x)
<1> USE StepNames
<1>1. /\ used \in Int /\ counter \in Nat /\ job \in [Items -> JobRecord]
      /\ mishaps \in 0 .. MaxMishaps
      /\ item[x].seats \in Nat /\ item[x].slot \in Nat
      /\ Cap \in Nat /\ MaxMishaps \in Nat /\ CommitCap \in Nat
  BY Charges, ConstantsAssumption DEF Types
<1>2. item[x].pc \notin {"none", "dispatch", "accepted", "dead"} => ~Exists(x)
  BY Names DEF IntakeInv, Working, Calling
<1>3. \A kind : Mishap(kind) => mishaps' \in 0 .. MaxMishaps
  BY <1>1 DEF Mishap
<1>4. CASE AcquireLock(x)
  <2>1. PICK step \in {"reserve", "forget"} : At(x, step)
    BY <1>4 DEF AcquireLock
  <2>2. ItemMoves(x, step, item[x].seats, item[x].slot)
    BY <2>1, Moves
  <2>3. item[x].seats = 0
    BY <1>4 DEF AcquireLock, Stages
  <2>4. Books(x)
    BY <1>1, <1>2, <1>4, <2>2, UnbornBooks DEF AcquireLock
  <2> QED BY <1>1, <1>4, <2>2, <2>3, <2>4 DEF AcquireLock
<1>5. CASE Reserve(x)
  <2>1. CASE At(x, "unlock") /\ used' = used
    <3>1. ItemMoves(x, "unlock", item[x].seats, item[x].slot)
      BY <2>1, Moves
    <3>2. Books(x)
      BY <1>1, <1>2, <1>5, <2>1, <3>1, UnbornBooks DEF Reserve
    <3> QED BY <1>1, <1>5, <3>1, <3>2 DEF Reserve
  <2>2. CASE /\ used + EntryOf(x).seats <= Cap /\ used' = used + EntryOf(x).seats
             /\ item' = [item EXCEPT ![x].pc = "slot", ![x].seats = EntryOf(x).seats]
    <3>1. EntryOf(x).seats \in Nat /\ item[x].seats = 0
      BY <1>5, Entered DEF Reserve, Stages
    <3>2. ItemMoves(x, "slot", EntryOf(x).seats, item[x].slot)
      BY <2>2, <3>1, Moves
    <3>3. Books(x)
      BY <1>1, <1>2, <1>5, <2>2, <3>1, <3>2, UnbornBooks DEF Reserve
    <3>4. \E step \in ItemSteps \ {"none", "lock", "invalid", "dead"}, seats, slot \in Nat :
            /\ ItemMoves(x, step, seats, slot)
            /\ step # "reserve"
            /\ slot = item[x].slot
      BY <1>1, <3>1, <3>2
    <3>5. UNCHANGED <<call, pc, answer, batch, keys, counter, job, mishaps>>
      BY <1>5 DEF Reserve
    <3> QED BY <1>1, <3>3, <3>4, <3>5
  <2> QED BY <1>5, <2>1, <2>2 DEF Reserve
<1>6. CASE ReserveBusy(x) \/ AcceptRaises(x) \/ UndoRaises(x) \/ Escapes(x) \/ Unlock(x)
           \/ Forget(x)
  <2>1. PICK step \in {"unlock", "undo", "broken", "forget", "refused"} : At(x, step)
    BY <1>6 DEF ReserveBusy, AcceptRaises, UndoRaises, Escapes, Unlock, Forget
  <2>2. ItemMoves(x, step, item[x].seats, item[x].slot)
    BY <2>1, Moves
  <2>3. /\ used' = used /\ job' = job /\ counter' = counter /\ UNCHANGED <<call, pc, answer, batch>>
        /\ keys' = keys \/ keys' = WithoutClaim(x[1])
        /\ item[x].pc \in {"lock", "reserve", "slot", "cut", "create", "undo", "unlock", "forget"}
    BY <1>6 DEF ReserveBusy, AcceptRaises, UndoRaises, Escapes, Unlock, Forget
  <2>4. mishaps' \in 0 .. MaxMishaps
    BY <1>1, <1>3, <1>6 DEF ReserveBusy, AcceptRaises, UndoRaises, Escapes, Unlock, Forget
  <2>5. Books(x)
    BY <1>1, <1>2, <2>2, <2>3, UnbornBooks
  <2> QED BY <1>1, <2>2, <2>3, <2>4, <2>5
<1>7. CASE TakeSlot(x)
  <2>1. CASE item[x].slot # 0
    <3>1. ItemMoves(x, "cut", item[x].seats, item[x].slot)
      BY <1>7, <2>1, Moves DEF TakeSlot
    <3>2. Books(x)
      BY <1>1, <1>2, <1>7, <3>1, UnbornBooks DEF TakeSlot
    <3>3. \E step \in ItemSteps \ {"none", "lock", "invalid", "dead"}, seats, slot \in Nat :
            /\ ItemMoves(x, step, seats, slot)
            /\ step # "reserve"
            /\ slot = item[x].slot
      BY <1>1, <3>1
    <3>4. UNCHANGED <<call, pc, answer, batch, keys, counter, job, mishaps>>
      BY <1>7, <2>1 DEF TakeSlot
    <3> QED BY <1>1, <3>2, <3>3, <3>4
  <2>2. CASE item[x].slot = 0
    <3>1. ItemMoves(x, "cut", item[x].seats, counter + 1)
      <4>1. item' = [item EXCEPT ![x].pc = "cut", ![x].slot = counter + 1]
        BY <1>7, <2>2 DEF TakeSlot
      <4>2. counter + 1 \in Nat
        BY <1>1
      <4> QED BY <4>1, <4>2, Moves
    <3>2. Books(x)
      BY <1>1, <1>2, <1>7, <3>1, UnbornBooks DEF TakeSlot
    <3>3. /\ UNCHANGED <<call, pc, answer, batch, keys, job, mishaps>>
          /\ counter' = counter + 1 /\ item[x].pc = "slot"
      BY <1>7, <2>2 DEF TakeSlot
    <3>4. counter + 1 \in Nat
      BY <1>1
    <3>5. \E step \in ItemSteps \ {"none", "lock", "invalid", "dead"}, seats, slot \in Nat :
            /\ ItemMoves(x, step, seats, slot)
            /\ step # "reserve"
            /\ slot = counter + 1
      BY <1>1, <3>1, <3>4
    <3> QED BY <1>1, <2>2, <3>2, <3>3, <3>5
  <2> QED BY <2>1, <2>2
<1>8. CASE Cut(x)
  <2> DEFINE over == IsCommitment(item[x].slot) /\ item[x].seats > CommitCap
             kept == IF over THEN CommitCap ELSE item[x].seats
  <2>1. /\ used' = IF over THEN used - (item[x].seats - CommitCap) ELSE used
        /\ item' = [item EXCEPT ![x].pc = "create", ![x].seats = kept]
    BY <1>8 DEF Cut, Types
  <2>2. kept \in Nat /\ used' - used = kept - item[x].seats /\ used' <= used /\ used' \in Int
    <3> HIDE DEF over
    <3> QED BY <1>1, <2>1 DEF over
  <2> HIDE DEF kept
  <2>3. ItemMoves(x, "create", kept, item[x].slot)
    BY <2>1, <2>2, Moves
  <2>4. Books(x)
    BY <1>1, <1>2, <1>8, <2>2, <2>3, UnbornBooks DEF Cut
  <2>5. UNCHANGED <<call, pc, answer, batch, keys, job, mishaps, counter>>
    BY <1>8 DEF Cut
  <2>6. \E step \in ItemSteps \ {"none", "lock", "invalid", "dead"}, seats, slot \in Nat :
          /\ ItemMoves(x, step, seats, slot)
          /\ step # "reserve" /\ slot = item[x].slot
    BY <1>1, <2>2, <2>3
  <2> QED BY <1>1, <2>4, <2>5, <2>6
<1>9. CASE Undo(x)
  <2>1. ItemMoves(x, "unlock", 0, item[x].slot)
    BY <1>9, Moves DEF Undo
  <2>2. Books(x)
    BY <1>1, <1>2, <1>9, <2>1, UnbornBooks DEF Undo
  <2> QED BY <1>1, <1>9, <2>1, <2>2 DEF Undo
<1>10. CASE Create(x)
  <2> DEFINE g == [NoJob EXCEPT !.status = "PENDING", !.settled = FALSE,
                                !.reserved = item[x].seats,
                                !.commit = IsCommitment(item[x].slot)]
  <2>1. job' = [job EXCEPT ![x] = g]
    BY <1>10 DEF Create
  <2>2. /\ g \in JobRecord /\ g.status = "PENDING" /\ g.settled = FALSE /\ g.added = 0
        /\ g.reserved = item[x].seats
    BY <1>1 DEF NoJob, JobRecord, Running, IsCommitment
  <2> HIDE DEF g
  <2>3. ItemMoves(x, "dispatch", item[x].seats, item[x].slot)
    BY <1>10, Moves DEF Create
  <2>4. ~Exists(x)
    BY <1>2, <1>10 DEF Create
  <2>5. job' \in [Items -> JobRecord] /\ job'[x] = g /\ \A y \in Items \ {x} : job'[y] = job[y]
    BY <1>1, <2>1, <2>2
  <2>6. /\ Charge(x) = item[x].seats /\ Charge(x)' = item[x].seats
        /\ \A y \in Items \ {x} : Charge(y)' = Charge(y)
    BY <2>2, <2>3, <2>4, <2>5 DEF ItemMoves, Charge, Exists
  <2>7. used' = used
    BY <1>10 DEF Create
  <2>8. Books(x)
    BY <1>1, <2>6, <2>7 DEF Books
  <2> QED BY <1>1, <1>10, <2>2, <2>3, <2>5, <2>8 DEF Create
<1>11. CASE Dispatch(x)
  <2>1. ItemMoves(x, "accepted", item[x].seats, item[x].slot)
    BY <1>11, Moves DEF Dispatch
  <2>2. \A y \in Items : Charge(y)' = Charge(y)
    BY <1>11, <2>1 DEF Dispatch, ItemMoves, Charge, Exists
  <2>3. Books(x)
    BY <1>1, <1>11, <2>2, Charges DEF Dispatch, Books
  <2> QED BY <1>1, <1>11, <2>1, <2>3 DEF Dispatch
<1> QED BY <1>4, <1>5, <1>6, <1>7, <1>8, <1>9, <1>10, <1>11 DEF ItemStep

(* The counter equals the sum of all charges, and no charge is negative.   *)
LEMMA CallsAreFinite == IsFiniteSet(Items)
<1>1. IsFiniteSet(Calls) /\ IsFiniteSet(1 .. MaxItems)
  BY ConstantsAssumption, FS_Interval
<1> QED BY <1>1, FS_Product DEF Items

LEMMA BalanceKept ==
  ASSUME Types, Types', NothingElseLeaks,
         \/ \E x \in Items : Books(x)
         \/ used' = used /\ \A x \in Items : Charge(x)' = Charge(x)
  PROVE  NothingElseLeaks'
<1> DEFINE f == [x \in Items |-> Charge(x)]
           g == [x \in Items |-> Charge(x)']
<1>1. \A x \in Items : /\ f[x] = Charge(x) /\ f[x] \in Int
                       /\ g[x] = Charge(x)' /\ g[x] \in Int
  <2>1. \A x \in Items : Charge(x) \in Nat /\ Charge(x)' \in Nat
    BY DEF Types, ItemRecord, JobRecord, Charge
  <2> QED BY <2>1
<1>2. SUFFICES used' = SumFunctionOnSet(g, Items)
  BY DEF NothingElseLeaks
<1>3. used = SumFunctionOnSet(f, Items)
  BY DEF NothingElseLeaks
<1> HIDE DEF f, g
<1>4. CASE used' = used /\ \A x \in Items : Charge(x)' = Charge(x)
  <2>1. SumFunctionOnSet(g, Items) = SumFunctionOnSet(f, Items)
    BY <1>1, <1>4, CallsAreFinite, SumAgrees
  <2> QED BY <1>3, <1>4, <2>1
<1>5. ASSUME NEW x \in Items, Books(x)
      PROVE  used' = SumFunctionOnSet(g, Items)
  <2>1. SumFunctionOnSet(g, Items) = SumFunctionOnSet(f, Items) + (g[x] - f[x])
    <3>1. \A y \in Items \ {x} : g[y] = f[y]
      BY <1>1, <1>5 DEF Books
    <3> QED BY <1>1, <3>1, CallsAreFinite, SumChanges
  <2>2. used' - used = g[x] - f[x] /\ used \in Int /\ used' \in Int
    BY <1>1, <1>5 DEF Books, Types
  <2>3. SumFunctionOnSet(f, Items) \in Int
    BY <1>3, <2>2
  <2> QED BY <1>1, <1>3, <2>1, <2>2, <2>3
<1> QED BY <1>4, <1>5

LEMMA CounterInRange ==
  ASSUME Types, NothingElseLeaks, used <= Cap
  PROVE  used \in 0 .. Cap
<1> DEFINE f == [x \in Items |-> Charge(x)]
<1>1. \A x \in Items : f[x] \in Nat
  BY Charges
<1>2. used = SumFunctionOnSet(f, Items)
  BY DEF NothingElseLeaks
<1> HIDE DEF f
<1>3. SumFunctionOnSet(f, Items) \in Nat
  BY <1>1, CallsAreFinite, SumIsNatural
<1> QED BY <1>2, <1>3, ConstantsAssumption

-----------------------------------------------------------------------------
(* What each kind of step leaves of types and stages.                      *)
LEMMA ItemStepTypes ==
  ASSUME Shape, IntakeInv, Types, Stages, NEW x \in Items, ItemStep(x)
  PROVE  Types' /\ Stages'
<1>1. /\ UNCHANGED <<call, pc, answer, batch>>
      /\ keys' = keys \/ keys' = WithoutClaim(x[1])
      /\ job' \in [Items -> JobRecord]
      /\ \A y \in Items \ {x} : job'[y] = job[y]
      /\ mishaps' \in 0 .. MaxMishaps
      /\ used' \in Int
  BY ItemBooks DEF Books
<1>2. PICK step \in ItemSteps \ {"none", "lock", "invalid", "dead"}, seats \in Nat, slot \in Nat :
              /\ ItemMoves(x, step, seats, slot)
              /\ step = "reserve" => seats = 0
              /\ counter' = counter \/ counter' = counter + 1
  BY ItemBooks
<1>3. Types'
  BY <1>1, <1>2, KeysStay, Names DEF Types, ItemMoves
<1>4. Partner(x[1])
  <2>1. item[x].pc # "none"
    BY StepKinds DEF Plain, Takes, Makes, Releases, Forgets, Goes
  <2> QED BY <2>1 DEF IntakeInv, Calling
<1>5. \A c \in Calls : Kind(c)' = Kind(c) /\ Partner(c)' = Partner(c) /\ Keyed(c)' = Keyed(c)
  BY <1>1, SameCall
<1>6. \A y \in Items \ {x} : item'[y] = item[y]
  BY <1>2 DEF ItemMoves
<1>7. item'[x].pc \notin {"none", "lock", "invalid", "dead"}
      /\ (item'[x].pc = "reserve" => item'[x].seats = 0)
  BY <1>2 DEF ItemMoves
<1> QED BY <1>1, <1>3, <1>4, <1>5, <1>6, <1>7, Names DEF Stages

LEMMA AnswerTypes ==
  ASSUME Types, NEW c \in Calls,
         NEW told \in {"accepted", "refused", "broken", "replay", "mismatch", "batch",
                       "missing", "joined"},
         NEW id \in Items \cup {NoItem}, Answer(c, told, id)
  PROVE  /\ pc' \in [Calls -> Steps] /\ pc'[c] = "answered"
         /\ \A d \in Calls \ {c} : pc'[d] = pc[d]
         /\ answer' \in [Calls -> AnswerRecord]
BY DEF Types, Answer, Goto, Steps, AnswerRecord

LEMMA GotoTypes ==
  ASSUME Types, NEW c \in Calls, NEW step \in Steps, Goto(c, step)
  PROVE  /\ pc' \in [Calls -> Steps] /\ pc'[c] = step
         /\ \A d \in Calls \ {c} : pc'[d] = pc[d]
BY DEF Types, Goto

(* A step of a call's thread that begins no item.                          *)
LEMMA StagesStay ==
  ASSUME Stages, Types, NEW c \in Calls, call' = call, item' = item,
         \A y \in Items : ~Partner(y[1]) => job'[y].added = job[y].added,
         \A d \in Calls \ {c} : pc'[d] = pc[d], pc[c] # "dead",
         pc'[c] = "read" => Partner(c) /\ Keyed(c),
         pc'[c] = "items" => Partner(c)
  PROVE  Stages'
<1>1. /\ \A d \in Calls : Kind(d)' = Kind(d) /\ Partner(d)' = Partner(d) /\ Keyed(d)' = Keyed(d)
  BY SameCall
<1>2. \A y \in Items : Partner(y[1])' = Partner(y[1]) /\ Kind(y[1])' = Kind(y[1]) /\ y[1] \in Calls
  BY <1>1, Names
<1>3. \A y \in Items : item'[y].pc = "dead" => pc'[y[1]] = "dead"
  BY <1>2 DEF Stages
<1> QED BY <1>1, <1>2, <1>3 DEF Stages

LEMMA KeyRecordStays == call' = call => KeyRecord' = KeyRecord
BY DEF KeyRecord

LEMMA LegacyStepTypes ==
  ASSUME Shape, IntakeInv, Types, Stages, NEW c \in Calls,
         LegacyKey(c) \/ LegacyActive(c)
  PROVE  Types' /\ Stages' /\ UNCHANGED <<used, item, job>>
<1>1. /\ UNCHANGED <<call, item, keys, used, counter, job, batch>>
      /\ pc[c] \in {"start", "active"}
  BY DEF LegacyKey, LegacyActive
<1>2. mishaps' \in 0 .. MaxMishaps
  BY ConstantsAssumption DEF LegacyKey, LegacyActive, Listed, Queried, Mishap, Types
<1>3. /\ pc' \in [Calls -> Steps] /\ answer' \in [Calls -> AnswerRecord]
      /\ pc'[c] \in {"answered", "active", "new"}
      /\ \A d \in Calls \ {c} : pc'[d] = pc[d]
  <2>1. \/ \E step \in {"active", "new"} : Goto(c, step) /\ answer' = answer
        \/ \E told \in {"joined", "broken"}, id \in Items \cup {NoItem} : Answer(c, told, id)
    <3>1. CASE LegacyKey(c)
      BY <3>1 DEF LegacyKey
    <3>2. CASE LegacyActive(c)
      BY <3>2 DEF LegacyActive
    <3> QED BY <3>1, <3>2
  <2>2. CASE \E step \in {"active", "new"} : Goto(c, step) /\ answer' = answer
    BY <2>2, GotoTypes DEF Steps, Types
  <2>3. CASE \E told \in {"joined", "broken"}, id \in Items \cup {NoItem} : Answer(c, told, id)
    BY <2>3, AnswerTypes
  <2> QED BY <2>1, <2>2, <2>3
<1>4. Types'
  BY <1>1, <1>2, <1>3, KeyRecordStays DEF Types
<1>5. Stages'
  BY <1>1, <1>3, StagesStay
<1> QED BY <1>1, <1>4, <1>5

LEMMA LegacyCreateTypes ==
  ASSUME Shape, IntakeInv, Types, Stages, NEW c \in Calls, LegacyCreate(c)
  PROVE  Types' /\ Stages' /\ used' = used /\ \A x \in Items : Charge(x)' = Charge(x)
<1> DEFINE g == [NoJob EXCEPT !.status = "PENDING", !.key = call[c].key]
<1>1. /\ UNCHANGED <<call, item, keys, used, counter, batch, mishaps>>
      /\ job' = [job EXCEPT ![OwnId(c)] = g]
      /\ Answer(c, "accepted", OwnId(c)) /\ pc[c] \in {"start", "new"}
  BY DEF LegacyCreate, LegacyJob
<1>2. g \in JobRecord /\ g.status = "PENDING" /\ g.settled = TRUE /\ g.added = 0
  <2>1. call[c].key \in Keys \cup {NoKey}
    BY ConstantsAssumption DEF Shape, CallRecord
  <2> QED BY <2>1 DEF NoJob, JobRecord, Running
<1> HIDE DEF g
<1>3. ~Partner(c)
  BY DEF LegacyCreate, IntakeInv, Calling, Partner
<1>4. /\ job' \in [Items -> JobRecord] /\ job'[OwnId(c)] = g
      /\ \A y \in Items \ {OwnId(c)} : job'[y] = job[y]
  BY <1>1, <1>2, Names DEF Types
<1>5. item[OwnId(c)].pc = "none"
  BY <1>3, Names DEF IntakeInv, Calling
<1>6. Charge(OwnId(c)) = 0
  BY <1>3, <1>5, Names DEF Charge, Stages, IntakeInv, Working
<1>7. Charge(OwnId(c))' = 0
  <2>1. g.left = {}
    BY DEF g, NoJob
  <2> QED BY <1>2, <1>4, <2>1 DEF Charge, Exists
<1>8. \A x \in Items : Charge(x)' = Charge(x)
  BY <1>1, <1>4, <1>6, <1>7 DEF Charge, Exists
<1>9. /\ pc' \in [Calls -> Steps] /\ pc'[c] = "answered"
      /\ \A d \in Calls \ {c} : pc'[d] = pc[d]
      /\ answer' \in [Calls -> AnswerRecord]
  BY <1>1, AnswerTypes, Names
<1>10. Types'
  BY <1>1, <1>4, <1>9, KeyRecordStays DEF Types
<1>11. \A y \in Items : ~Partner(y[1]) => job'[y].added = job[y].added
  BY <1>2, <1>3, <1>4, Names DEF Stages
<1>12. Stages'
  BY <1>1, <1>9, <1>11, StagesStay
<1> QED BY <1>1, <1>8, <1>10, <1>12

LEMMA AnswersTypes ==
  ASSUME Shape, IntakeInv, Types, Stages, NEW c \in Calls,
         \/ Invalid(c) \/ Replay(c) \/ BlockBusy(c) \/ BlockRaises(c)
         \/ Respond(c) \/ RespondRaises(c)
  PROVE  Types' /\ Stages' /\ UNCHANGED <<used, item, job>>
<1>1. /\ UNCHANGED <<call, item, used, counter, job>>
      /\ pc[c] \in {"start", "read", "slots", "items"}
      /\ keys' = keys \/ keys' = WithoutClaim(c)
  BY DEF Invalid, Replay, BlockBusy, BlockRaises, Respond, RespondRaises
<1>2. mishaps' \in 0 .. MaxMishaps
  BY ConstantsAssumption DEF Invalid, Replay, BlockBusy, BlockRaises, Respond, RespondRaises,
                              Mishap, Types
<1>3. \E told \in {"accepted", "refused", "broken", "replay", "mismatch", "batch", "missing"},
         id \in Items \cup {NoItem} : Answer(c, told, id)
  <2>1. CASE Replay(c)
    <3>1. Scope(c) \in Scopes
      BY <2>1, Places DEF Replay, Stages
    <3>2. ExistingOrOwn(c).result \in Items \cup {NoItem}
      BY <3>1, Names DEF ExistingOrOwn, Types, KeyRecord
    <3> QED BY <2>1, <3>2 DEF Replay
  <2>2. CASE Invalid(c) \/ BlockBusy(c) \/ BlockRaises(c) \/ RespondRaises(c)
    BY <2>2, Names DEF Invalid, BlockBusy, BlockRaises, RespondRaises
  <2>3. CASE Respond(c)
    <3>1. CASE Kind(c) = "single"
      <4>1. OwnId(c) \in Entries(c)
        BY Names, ConstantsAssumption DEF Entries, OwnId, Shape
      <4>2. item[OwnId(c)].pc \in {"accepted", "refused", "broken"}
        BY <2>3, <3>1, <4>1, Names DEF Respond, Final, Stages
      <4> QED BY <2>3, <3>1, <4>2, Names DEF Respond
    <3>2. CASE Kind(c) # "single"
      BY <2>3, <3>2, Names DEF Respond
    <3> QED BY <3>1, <3>2
  <2> QED BY <2>1, <2>2, <2>3
<1>4. /\ pc' \in [Calls -> Steps] /\ pc'[c] = "answered"
      /\ \A d \in Calls \ {c} : pc'[d] = pc[d]
      /\ answer' \in [Calls -> AnswerRecord]
  BY <1>3, AnswerTypes
<1>5. batch' \in [Calls -> Results]
  <2>1. CASE batch' = batch
    BY <2>1 DEF Types
  <2>2. CASE Respond(c) /\ Kind(c) # "single"
    <3> DEFINE n == Len(call[c].body)
               results == [i \in 1 .. n |-> item[<<c, i>>].pc]
    <3>1. n \in 1 .. MaxItems
      BY ConstantsAssumption DEF Shape
    <3>2. \A i \in 1 .. n : <<c, i>> \in Entries(c)
      BY <3>1, ConstantsAssumption DEF Entries, Items
    <3>3. results \in [1 .. n -> Final]
      BY <2>2, <3>2 DEF Respond
    <3>4. batch' = [batch EXCEPT ![c] = results]
      BY <2>2 DEF Respond
    <3>5. results \in Results
      <4> HIDE DEF n, results
      <4> QED BY <3>1, <3>3 DEF Results
    <3> HIDE DEF results
    <3> QED BY <3>4, <3>5 DEF Types
  <2> QED BY <2>1, <2>2 DEF Invalid, Replay, BlockBusy, BlockRaises, Respond, RespondRaises
<1>6. Types'
  BY <1>1, <1>2, <1>4, <1>5, KeysStay DEF Types
<1>7. Stages'
  BY <1>1, <1>4, StagesStay
<1> QED BY <1>1, <1>6, <1>7

LEMMA StartTypes ==
  ASSUME Shape, IntakeInv, Types, Stages, NEW c \in Calls, Start(c)
  PROVE  Types' /\ Stages' /\ used' = used /\ \A x \in Items : Charge(x)' = Charge(x)
<1>1. /\ UNCHANGED <<call, used, counter, job, batch, mishaps>>
      /\ pc[c] = "start" /\ Partner(c)
  BY DEF Start, Claiming, Partner
<1>2. CASE Taken(c)
  <2>1. Goto(c, "read") /\ UNCHANGED <<answer, item, keys>>
    BY <1>2 DEF Start
  <2>2. /\ pc' \in [Calls -> Steps] /\ pc'[c] = "read"
        /\ \A d \in Calls \ {c} : pc'[d] = pc[d]
    BY <2>1, GotoTypes DEF Steps
  <2>3. Types'
    BY <1>1, <2>1, <2>2, KeyRecordStays DEF Types
  <2>4. Stages'
    BY <1>1, <1>2, <2>1, <2>2, StagesStay DEF Taken
  <2> QED BY <1>1, <2>1, <2>3, <2>4 DEF Charge, Exists
<1>3. CASE ~Taken(c)
  <2>1. /\ Begin(c) /\ answer' = answer
        /\ keys' = IF Keyed(c)
                   THEN [keys EXCEPT ![Scope(c)] = [result |-> OwnId(c), body |-> call[c].body]]
                   ELSE keys
    BY <1>3 DEF Start, Claimed
  <2>2. keys' \in [Scopes -> KeyRecord']
    <3>1. [result |-> OwnId(c), body |-> call[c].body] \in KeyRecord
      BY Names DEF KeyRecord
    <3> QED BY <1>1, <2>1, <3>1, KeyRecordStays DEF Types
  <2>3. CASE Kind(c) = "single"
    <3>1. Goto(c, "items") /\ At(OwnId(c), "lock")
      BY <2>1, <2>3 DEF Begin
    <3>2. /\ pc' \in [Calls -> Steps] /\ pc'[c] = "items"
          /\ \A d \in Calls \ {c} : pc'[d] = pc[d]
      BY <3>1, GotoTypes DEF Steps
    <3>3. ItemMoves(OwnId(c), "lock", item[OwnId(c)].seats, item[OwnId(c)].slot)
      BY <3>1, Moves, Names, StepNames
    <3>4. item[OwnId(c)].pc = "none" /\ item[OwnId(c)].seats = 0
      BY <1>1, Names DEF IntakeInv, Calling, Stages
    <3>5. Types'
      BY <1>1, <2>1, <2>2, <3>2, <3>3, KeyRecordStays DEF Types, ItemMoves
    <3>6. \A y \in Items : y # OwnId(c) => item'[y] = item[y]
      BY <3>3 DEF ItemMoves
    <3>7. item'[OwnId(c)].pc = "lock" /\ item'[OwnId(c)].seats = 0
      BY <3>3, <3>4 DEF ItemMoves
    <3>8. \A d \in Calls : Kind(d)' = Kind(d) /\ Partner(d)' = Partner(d) /\ Keyed(d)' = Keyed(d)
      BY <1>1, SameCall
    <3>9. \A y \in Items : item'[y].pc = "dead" => pc'[y[1]] = "dead"
      BY <1>1, <3>2, <3>6, <3>7, Names DEF Stages
    <3>10. Stages'
      BY <1>1, <3>2, <3>6, <3>7, <3>8, <3>9, Names DEF Stages
    <3>11. \A x \in Items : Charge(x)' = Charge(x)
      BY <1>1, <3>4, <3>6, <3>7 DEF Charge, Exists
    <3> QED BY <1>1, <3>5, <3>10, <3>11
  <2>4. CASE Kind(c) # "single"
    <3>1. Goto(c, "slots") /\ item' = item
      BY <2>1, <2>4 DEF Begin
    <3>2. /\ pc' \in [Calls -> Steps] /\ pc'[c] = "slots"
          /\ \A d \in Calls \ {c} : pc'[d] = pc[d]
      BY <3>1, GotoTypes DEF Steps
    <3>3. Types'
      BY <1>1, <2>1, <2>2, <3>1, <3>2, KeyRecordStays DEF Types
    <3>4. Stages'
      BY <1>1, <3>1, <3>2, StagesStay
    <3> QED BY <1>1, <3>1, <3>3, <3>4 DEF Charge, Exists
  <2> QED BY <2>3, <2>4
<1> QED BY <1>2, <1>3

LEMMA SpendsTypes ==
  ASSUME Shape, IntakeInv, Types, Stages, NEW c \in Calls, ClaimLost(c) \/ ClaimRaises(c)
  PROVE  Types' /\ Stages' /\ UNCHANGED <<used, item, job>>
<1>1. /\ UNCHANGED <<call, item, used, counter, job, batch>>
      /\ pc[c] = "start" /\ Partner(c) /\ Keyed(c)
      /\ keys' = keys \/ keys' = Claimed(c)
  BY DEF ClaimLost, ClaimRaises, Claiming, Partner
<1>2. mishaps' \in 0 .. MaxMishaps
  BY ConstantsAssumption DEF ClaimLost, ClaimRaises, Mishap, Types
<1>3. keys' \in [Scopes -> KeyRecord']
  <2>1. [result |-> OwnId(c), body |-> call[c].body] \in KeyRecord
    BY Names DEF KeyRecord
  <2> QED BY <1>1, <2>1, KeyRecordStays DEF Types, Claimed
<1>4. /\ pc' \in [Calls -> Steps] /\ pc'[c] \in {"read", "answered"}
      /\ \A d \in Calls \ {c} : pc'[d] = pc[d]
      /\ answer' \in [Calls -> AnswerRecord]
  <2>1. CASE Answer(c, "broken", NoItem)
    BY <2>1, AnswerTypes
  <2>2. CASE Goto(c, "read") /\ answer' = answer
    BY <2>2, GotoTypes DEF Steps, Types
  <2> QED BY <2>1, <2>2 DEF ClaimLost, ClaimRaises
<1>5. Types'
  BY <1>1, <1>2, <1>3, <1>4 DEF Types
<1>6. Stages'
  BY <1>1, <1>4, StagesStay
<1> QED BY <1>1, <1>5, <1>6

(* The items that a bulk call has found valid, and their slots.            *)
ValidItems(c) == {x \in Entries(c) : Valid(x)}

LEMMA Block ==
  ASSUME NEW c \in Calls
  PROVE  /\ ValidItems(c) \subseteq Items /\ IsFiniteSet(ValidItems(c))
         /\ Cardinality(ValidItems(c)) \in Nat
         /\ \A x \in ValidItems(c) : Position(x) \in Nat
<1>1. ValidItems(c) \subseteq Items
  BY DEF ValidItems, Entries
<1>2. ASSUME NEW x \in ValidItems(c)
      PROVE  Position(x) \in Nat
  <2> DEFINE before == {y \in Entries(x[1]) : Valid(y) /\ y[2] <= x[2]}
  <2>1. before \subseteq Items
    BY DEF Entries
  <2>2. Cardinality(before) \in Nat
    BY <2>1, CallsAreFinite, FS_Subset, FS_CardinalityType
  <2> QED BY <2>2 DEF Position
<1>3. IsFiniteSet(ValidItems(c)) /\ Cardinality(ValidItems(c)) \in Nat
  BY <1>1, CallsAreFinite, FS_Subset, FS_CardinalityType
<1> QED BY <1>1, <1>2, <1>3

LEMMA BlockMoves ==
  ASSUME Types, Shape, NEW c \in Calls, TakeBlock(c)
  PROVE  /\ UNCHANGED <<call, answer, keys, lock, used, job, batch, mishaps>>
         /\ pc[c] = "slots" /\ Goto(c, "items")
         /\ counter' = counter + Cardinality(ValidItems(c))
         /\ item' \in [Items -> ItemRecord]
         /\ \A y \in Items : item'[y].seats = item[y].seats
         /\ \A y \in ValidItems(c) : /\ item'[y].pc = "lock"
                                     /\ item'[y].slot = counter + Position(y)
         /\ \A y \in Entries(c) \ ValidItems(c) : /\ item'[y].pc = "invalid"
                                                  /\ item'[y].slot = item[y].slot
         /\ \A y \in Items \ Entries(c) : item'[y] = item[y]
<1>1. /\ UNCHANGED <<call, answer, keys, lock, used, job, batch, mishaps>>
      /\ pc[c] = "slots" /\ Goto(c, "items")
      /\ counter' = counter + Cardinality(ValidItems(c))
      /\ item' = [y \in Items |->
           IF y \in ValidItems(c)
           THEN [item[y] EXCEPT !.pc = "lock", !.slot = counter + Position(y)]
           ELSE IF y \in Entries(c) THEN [item[y] EXCEPT !.pc = "invalid"]
           ELSE item[y]]
  BY DEF TakeBlock, ValidItems
<1>2. /\ \A y \in Items : item[y] \in ItemRecord
      /\ \A y \in ValidItems(c) : y \in Items /\ counter + Position(y) \in Nat
      /\ \A y \in Entries(c) : y \in Items
  BY Block DEF Types, Entries
<1>3. ASSUME NEW y \in Items
      PROVE  /\ item'[y] \in ItemRecord /\ item'[y].seats = item[y].seats
             /\ y \in ValidItems(c) => item'[y].pc = "lock" /\ item'[y].slot = counter + Position(y)
             /\ y \in Entries(c) \ ValidItems(c) =>
                  item'[y].pc = "invalid" /\ item'[y].slot = item[y].slot
             /\ y \notin Entries(c) => item'[y] = item[y]
  <2>1. CASE y \in ValidItems(c)
    <3> DEFINE n == counter + Position(y)
               r == [item[y] EXCEPT !.pc = "lock", !.slot = n]
    <3>1. item'[y] = r /\ n \in Nat
      BY <1>1, <1>2, <2>1
    <3> HIDE DEF n
    <3>2. r \in ItemRecord /\ r.seats = item[y].seats /\ r.pc = "lock" /\ r.slot = n
      BY <1>2, <3>1, StepNames DEF ItemRecord
    <3> HIDE DEF r
    <3>3. y \in Entries(c)
      BY <2>1 DEF ValidItems
    <3> QED BY <2>1, <3>1, <3>2, <3>3 DEF n
  <2>2. CASE y \in Entries(c) \ ValidItems(c)
    <3> DEFINE r == [item[y] EXCEPT !.pc = "invalid"]
    <3>1. item'[y] = r
      BY <1>1, <2>2
    <3>2. r \in ItemRecord /\ r.seats = item[y].seats /\ r.pc = "invalid" /\ r.slot = item[y].slot
      BY <1>2, StepNames DEF ItemRecord
    <3> HIDE DEF r
    <3> QED BY <2>2, <3>1, <3>2
  <2>3. CASE y \notin Entries(c)
    BY <1>1, <1>2, <2>3 DEF ValidItems
  <2> QED BY <2>1, <2>2, <2>3
<1>4. item' \in [Items -> ItemRecord]
  BY <1>1, <1>3
<1> QED BY <1>1, <1>2, <1>3, <1>4

LEMMA TakeBlockTypes ==
  ASSUME Shape, IntakeInv, Types, Stages, NEW c \in Calls, TakeBlock(c)
  PROVE  Types' /\ Stages' /\ used' = used /\ \A x \in Items : Charge(x)' = Charge(x)
<1>1. /\ UNCHANGED <<call, answer, keys, used, job, batch, mishaps>>
      /\ pc[c] = "slots" /\ Goto(c, "items") /\ counter' \in Nat
      /\ item' \in [Items -> ItemRecord]
      /\ \A y \in Items : item'[y].seats = item[y].seats
  BY BlockMoves, Block DEF Types
<1>2. \A y \in Items : \/ item'[y] = item[y]
                       \/ y \in Entries(c) /\ item'[y].pc \in {"lock", "invalid"}
  BY BlockMoves
<1>3. Kind(c) = "bulk" /\ Partner(c)
  BY <1>1 DEF IntakeInv, Calling, Partner
<1>4. /\ pc' \in [Calls -> Steps] /\ pc'[c] = "items"
      /\ \A d \in Calls \ {c} : pc'[d] = pc[d]
  BY <1>1, GotoTypes DEF Steps
<1>5. Types'
  BY <1>1, <1>4, KeyRecordStays DEF Types
<1>6. \A y \in Entries(c) : y[1] = c /\ y \in Items /\ item[y].pc = "none"
  BY <1>1 DEF Entries, IntakeInv, Calling
<1>7. \A x \in Items : Charge(x)' = Charge(x)
  BY <1>1 DEF Charge, Exists
<1>8. \A d \in Calls : Kind(d)' = Kind(d) /\ Partner(d)' = Partner(d) /\ Keyed(d)' = Keyed(d)
  BY <1>1, SameCall
<1>9. \A y \in Items : item'[y].pc = "dead" => pc'[y[1]] = "dead"
  BY <1>1, <1>2, <1>4, Names DEF Stages
<1>10. \A y \in Items : item'[y].pc \in {"none", "invalid", "lock", "reserve"} => item'[y].seats = 0
  BY <1>1, <1>2, <1>6 DEF Stages
<1>11. Stages'
  BY <1>1, <1>2, <1>3, <1>4, <1>6, <1>8, <1>9, <1>10, Names DEF Stages
<1> QED BY <1>1, <1>5, <1>7, <1>11

LEMMA CrashMoves ==
  ASSUME Types, NEW c \in Calls, Crash(c)
  PROVE  /\ UNCHANGED <<call, answer, keys, lock, used, counter, job, batch>>
         /\ Mishap("crash") /\ Goto(c, "dead")
         /\ pc[c] \notin {"start", "answered", "dead"}
         /\ item' \in [Items -> ItemRecord]
         /\ \A y \in Items : /\ item'[y].seats = item[y].seats /\ item'[y].slot = item[y].slot
                             /\ IF y \in Entries(c) /\ item[y].pc \in Active
                                THEN item'[y].pc = "dead" ELSE item'[y] = item[y]
<1>1. item' = [y \in Items |-> IF y \in Entries(c) /\ item[y].pc \in Active
                               THEN [item[y] EXCEPT !.pc = "dead"] ELSE item[y]]
  BY DEF Crash
<1>2. ASSUME NEW y \in Items
      PROVE  /\ item'[y] \in ItemRecord
             /\ item'[y].seats = item[y].seats /\ item'[y].slot = item[y].slot
             /\ IF y \in Entries(c) /\ item[y].pc \in Active
                THEN item'[y].pc = "dead" ELSE item'[y] = item[y]
  <2> DEFINE r == [item[y] EXCEPT !.pc = "dead"]
  <2>1. item'[y] = IF y \in Entries(c) /\ item[y].pc \in Active THEN r ELSE item[y]
    BY <1>1
  <2>2. /\ item[y] \in ItemRecord /\ r \in ItemRecord
        /\ r.pc = "dead" /\ r.seats = item[y].seats /\ r.slot = item[y].slot
    BY StepNames DEF Types, ItemRecord
  <2> HIDE DEF r
  <2> QED BY <2>1, <2>2
<1>3. item' \in [Items -> ItemRecord]
  BY <1>1, <1>2
<1> QED BY <1>2, <1>3 DEF Crash

LEMMA CrashTypes ==
  ASSUME Shape, IntakeInv, Types, Stages, NEW c \in Calls, Crash(c)
  PROVE  Types' /\ Stages' /\ used' = used /\ \A x \in Items : Charge(x)' = Charge(x)
<1>1. /\ UNCHANGED <<call, answer, keys, used, counter, job, batch>>
      /\ pc' \in [Calls -> Steps] /\ pc'[c] = "dead"
      /\ \A d \in Calls \ {c} : pc'[d] = pc[d]
      /\ item' \in [Items -> ItemRecord]
  BY CrashMoves, GotoTypes DEF Steps
<1>2. \A y \in Items :
        /\ item'[y].seats = item[y].seats
        /\ \/ item'[y] = item[y]
           \/ y[1] = c /\ item'[y].pc = "dead"
  BY CrashMoves DEF Entries
<1>3. mishaps' \in 0 .. MaxMishaps
  BY CrashMoves, ConstantsAssumption DEF Mishap, Types
<1>4. Types'
  BY <1>1, <1>3, KeyRecordStays DEF Types
<1>5. \A d \in Calls : Kind(d)' = Kind(d) /\ Partner(d)' = Partner(d) /\ Keyed(d)' = Keyed(d)
  BY <1>1, SameCall
<1>6. Stages'
  BY <1>1, <1>2, <1>5, Names DEF Stages
<1> QED BY <1>1, <1>2, <1>4, <1>6 DEF Charge, Exists

LEMMA JobStepTypes ==
  ASSUME Shape, IntakeInv, Types, Stages, NEW x \in Items,
         JobStarts(x) \/ JobEnds(x) \/ LegacyEnds(x)
  PROVE  Types' /\ Stages' /\ Books(x)
<1>1. /\ UNCHANGED <<call, pc, answer, item, keys, counter, batch>>
      /\ job[x] \in JobRecord /\ used \in Int /\ Exists(x)
      /\ mishaps' \in 0 .. MaxMishaps
  <2>1. mishaps' = mishaps \/ Mishap("raise")
    BY DEF JobStarts, JobEnds, LegacyEnds
  <2>2. mishaps' \in 0 .. MaxMishaps
    BY <2>1, ConstantsAssumption DEF Mishap, Types
  <2>3. UNCHANGED <<call, pc, answer, item, keys, counter, batch>>
    BY DEF JobStarts, JobEnds, LegacyEnds
  <2>4. Exists(x)
    BY DEF JobStarts, JobEnds, LegacyEnds, Exists, Running
  <2> QED BY <2>2, <2>3, <2>4 DEF Types
<1>2. \E r \in JobRecord :
        /\ job' = [job EXCEPT ![x] = r] /\ r.status # "NONE"
        /\ r.reserved = job[x].reserved
        /\ \/ /\ r.settled = job[x].settled /\ r.added = job[x].added
              /\ r.left = job[x].left /\ used' = used
           \/ /\ ~job[x].settled /\ r.settled = TRUE /\ r.added \in 0 .. r.reserved
              /\ used' = IF "refund" \in r.left THEN used ELSE used - (r.reserved - r.added)
  <2>1. CASE JobStarts(x)
    <3> DEFINE r == [job[x] EXCEPT !.status = "ACTIVE"]
    <3>1. job' = [job EXCEPT ![x] = r] /\ used' = used
      BY <2>1 DEF JobStarts
    <3>2. /\ r \in JobRecord /\ r.status # "NONE" /\ r.reserved = job[x].reserved
          /\ r.settled = job[x].settled /\ r.added = job[x].added /\ r.left = job[x].left
      BY <1>1 DEF JobRecord, Running
    <3> HIDE DEF r
    <3> QED BY <3>1, <3>2
  <2>2. CASE LegacyEnds(x)
    <3>1. PICK status \in {"COMPLETED", "FAILED"} : job' = [job EXCEPT ![x].status = status]
      BY <2>2 DEF LegacyEnds
    <3> DEFINE r == [job[x] EXCEPT !.status = status]
    <3>2. job' = [job EXCEPT ![x] = r] /\ used' = used
      BY <2>2, <3>1 DEF LegacyEnds
    <3>3. /\ r \in JobRecord /\ r.status # "NONE" /\ r.reserved = job[x].reserved
          /\ r.settled = job[x].settled /\ r.added = job[x].added /\ r.left = job[x].left
      BY <1>1 DEF JobRecord, Running
    <3> HIDE DEF r
    <3> QED BY <3>2, <3>3
  <2>3. CASE JobEnds(x)
    <3>1. PICK status \in {"COMPLETED", "FAILED"}, charge \in 0 .. job[x].reserved,
               left \in SUBSET {"refund", "lock"} :
            /\ job' = [job EXCEPT ![x].status = status, ![x].settled = TRUE, ![x].added = charge,
                                  ![x].left = left]
            /\ used' = IF "refund" \in left THEN used ELSE used - (job[x].reserved - charge)
      BY <2>3 DEF JobEnds
    <3> DEFINE r == [job[x] EXCEPT !.status = status, !.settled = TRUE, !.added = charge,
                                   !.left = left]
    <3>2. job' = [job EXCEPT ![x] = r] /\ ~job[x].settled
      BY <2>3, <3>1 DEF JobEnds, Types
    <3>3. charge \in Nat
      BY <1>1 DEF JobRecord
    <3>4. /\ r \in JobRecord /\ r.status # "NONE" /\ r.reserved = job[x].reserved
          /\ r.settled = TRUE /\ r.added = charge /\ r.left = left
      BY <1>1, <3>3 DEF JobRecord, Running
    <3> HIDE DEF r
    <3> QED BY <3>1, <3>2, <3>4
  <2> QED BY <2>1, <2>2, <2>3
<1>3. PICK r \in JobRecord :
        /\ job' = [job EXCEPT ![x] = r] /\ r.status # "NONE"
        /\ r.reserved = job[x].reserved
        /\ \/ /\ r.settled = job[x].settled /\ r.added = job[x].added
              /\ r.left = job[x].left /\ used' = used
           \/ /\ ~job[x].settled /\ r.settled = TRUE /\ r.added \in 0 .. r.reserved
              /\ used' = IF "refund" \in r.left THEN used ELSE used - (r.reserved - r.added)
  BY <1>2
<1>4. /\ job' \in [Items -> JobRecord] /\ job'[x] = r
      /\ \A y \in Items \ {x} : job'[y] = job[y]
  BY <1>3 DEF Types
<1>5. /\ r.reserved \in Nat /\ r.added \in Nat
      /\ job[x].added \in Nat /\ job[x].reserved \in Nat
  BY <1>1 DEF JobRecord
<1>6. used' \in Int /\ used' <= used
  BY <1>1, <1>3, <1>5
<1>7. Books(x)
  <2>1. /\ Charge(x) = IF job[x].settled /\ "refund" \notin job[x].left
                       THEN job[x].added ELSE job[x].reserved
        /\ Charge(x)' = IF r.settled /\ "refund" \notin r.left THEN r.added ELSE r.reserved
    BY <1>1, <1>3, <1>4 DEF Charge, Exists
  <2>2. \A y \in Items \ {x} : Charge(y)' = Charge(y)
    BY <1>1, <1>4 DEF Charge, Exists
  <2>3. Charge(x) \in Nat /\ Charge(x)' \in Nat /\ used' - used = Charge(x)' - Charge(x)
    BY <1>1, <1>3, <1>5, <2>1
  <2> QED BY <1>6, <2>2, <2>3 DEF Books
<1>8. Types'
  BY <1>1, <1>4, <1>6, KeyRecordStays DEF Types
<1>9. ~Partner(x[1]) => r.added = job[x].added
  BY <1>1, <1>3 DEF IntakeInv, Working
<1>10. \A d \in Calls : Kind(d)' = Kind(d) /\ Partner(d)' = Partner(d) /\ Keyed(d)' = Keyed(d)
  BY <1>1, SameCall
<1>11. Stages'
  BY <1>1, <1>4, <1>9, <1>10, Names DEF Stages
<1> QED BY <1>7, <1>8, <1>11

-----------------------------------------------------------------------------
(* The inductive invariant of the books.                                   *)
BooksInv == Types /\ Stages /\ NothingElseLeaks /\ used <= Cap

LEMMA BooksInitially == Init => BooksInv
<1> SUFFICES ASSUME Init PROVE BooksInv
  OBVIOUS
<1>0. used = 0 /\ counter = 0 /\ mishaps = 0 /\ Cap \in Nat /\ MaxMishaps \in Nat
  <2>1. used = 0 /\ counter = 0 /\ mishaps = 0
    BY DEF Init
  <2> QED BY <2>1, ConstantsAssumption
<1>1. [pc |-> "none", seats |-> 0, slot |-> 0] \in ItemRecord /\ NoJob \in JobRecord
  BY StepNames DEF ItemRecord, JobRecord, NoJob
<1>2. NoRecord \in KeyRecord
  BY DEF NoRecord, KeyRecord
<1>3. Types
  <2>1. /\ pc \in [Calls -> Steps] /\ answer \in [Calls -> AnswerRecord]
        /\ batch \in [Calls -> Results]
    BY DEF Init, Steps, AnswerRecord, Results
  <2>2. used \in Int /\ counter \in Nat /\ mishaps \in 0 .. MaxMishaps
    BY <1>0
  <2> QED BY <1>1, <1>2, <2>1, <2>2 DEF Init, Types
<1>4. \A x \in Items : item[x] = [pc |-> "none", seats |-> 0, slot |-> 0] /\ job[x] = NoJob
  BY DEF Init
<1>5. Stages
  BY <1>4 DEF Init, Stages, NoJob
<1>6. \A x \in Items : Charge(x) = 0
  BY <1>4 DEF Charge, Exists, NoJob
<1>7. NothingElseLeaks
  <2> DEFINE f == [x \in Items |-> Charge(x)]
  <2>1. \A x \in Items : f[x] = 0
    BY <1>6
  <2>2. SUFFICES SumFunctionOnSet(f, Items) = 0
    BY DEF Init, NothingElseLeaks
  <2> HIDE DEF f
  <2> QED BY <2>1, CallsAreFinite, SumOfZeros
<1>8. used <= Cap
  BY <1>0
<1> QED BY <1>3, <1>5, <1>7, <1>8 DEF BooksInv

LEMMA BooksInductive ==
  ASSUME Shape, IntakeInv, BooksInv, [Next]_vars
  PROVE  BooksInv'
<1>0. Types /\ Stages /\ NothingElseLeaks /\ used <= Cap /\ Cap \in Nat /\ used \in Int
  BY ConstantsAssumption DEF BooksInv, Types
<1>1. ASSUME NEW c \in Calls, CallStep(c) \/ Crash(c)
      PROVE  Types' /\ Stages' /\ used' = used /\ \A x \in Items : Charge(x)' = Charge(x)
  <2>1. CASE \/ LegacyKey(c) \/ LegacyActive(c)
             \/ Invalid(c) \/ ClaimLost(c) \/ ClaimRaises(c) \/ Replay(c)
             \/ BlockBusy(c) \/ BlockRaises(c) \/ Respond(c) \/ RespondRaises(c)
    <3>1. Types' /\ Stages' /\ UNCHANGED <<used, item, job>>
      BY <1>0, <2>1, LegacyStepTypes, AnswersTypes, SpendsTypes
    <3> QED BY <3>1 DEF Charge, Exists
  <2>2. CASE Start(c)
    BY <1>0, <2>2, StartTypes
  <2>3. CASE TakeBlock(c)
    BY <1>0, <2>3, TakeBlockTypes
  <2>4. CASE LegacyCreate(c)
    BY <1>0, <2>4, LegacyCreateTypes
  <2>5. CASE Crash(c)
    BY <1>0, <2>5, CrashTypes
  <2> QED BY <1>1, <2>1, <2>2, <2>3, <2>4, <2>5 DEF CallStep
<1>2. ASSUME NEW x \in Items, ItemStep(x) \/ JobStarts(x) \/ JobEnds(x) \/ LegacyEnds(x)
      PROVE  Types' /\ Stages' /\ Books(x)
  <2>1. CASE ItemStep(x)
    BY <1>0, <2>1, ItemStepTypes, ItemBooks
  <2>2. CASE JobStarts(x) \/ JobEnds(x) \/ LegacyEnds(x)
    BY <1>0, <2>2, JobStepTypes
  <2> QED BY <1>2, <2>1, <2>2
<1>3. CASE (\E d \in Domains : LockExpires(d)) \/ UNCHANGED vars
  <2>1. UNCHANGED <<call, pc, answer, item, keys, used, counter, job, batch, mishaps>>
    BY <1>3 DEF LockExpires, vars
  <2>2. Types'
    BY <1>0, <2>1, KeyRecordStays DEF Types
  <2>3. \A d \in Calls : Kind(d)' = Kind(d) /\ Partner(d)' = Partner(d) /\ Keyed(d)' = Keyed(d)
    BY <2>1, SameCall
  <2>4. Stages'
    BY <1>0, <2>1, <2>3, Names DEF Stages
  <2>5. \A x \in Items : Charge(x)' = Charge(x)
    BY <2>1 DEF Charge, Exists
  <2>6. NothingElseLeaks'
    BY <1>0, <2>1, <2>2, <2>5, BalanceKept
  <2> QED BY <1>0, <2>1, <2>2, <2>4, <2>6 DEF BooksInv
<1>4. CASE \E c \in Calls : CallStep(c) \/ Crash(c)
  <2>1. /\ Types' /\ Stages' /\ used' = used
        /\ \A x \in Items : Charge(x)' = Charge(x)
    BY <1>1, <1>4
  <2>2. NothingElseLeaks'
    BY <1>0, <2>1, BalanceKept
  <2> QED BY <1>0, <2>1, <2>2 DEF BooksInv
<1>5. CASE \E x \in Items : ItemStep(x) \/ JobStarts(x) \/ JobEnds(x) \/ LegacyEnds(x)
  <2>1. PICK x \in Items : Types' /\ Stages' /\ Books(x)
    BY <1>2, <1>5
  <2>2. NothingElseLeaks'
    BY <1>0, <2>1, BalanceKept
  <2>3. used' <= Cap
    BY <1>0, <2>1 DEF Books
  <2> QED BY <2>1, <2>2, <2>3 DEF BooksInv
<1> QED BY <1>3, <1>4, <1>5 DEF Next

LEMMA BooksInvariant == Spec => []BooksInv
<1>1. Shape /\ IntakeInv /\ BooksInv /\ [Next]_vars => BooksInv'
  BY BooksInductive
<1> QED BY <1>1, BooksInitially, Inductive, PTL DEF Spec

(* Every variable keeps its type; in particular the partner's counter      *)
(* never leaves 0 .. max_licence_cap.                                      *)
THEOREM TypeCorrect == Spec => []TypeOK
<1>1. Shape /\ BooksInv => TypeOK
  <2> SUFFICES ASSUME Shape, BooksInv PROVE TypeOK
    OBVIOUS
  <2>1. Types /\ used \in 0 .. Cap
    BY CounterInRange DEF BooksInv
  <2>2. call \in [Calls -> CallRecord] /\ lock \in [Domains -> Items \cup {NoItem}]
    BY ConstantsAssumption DEF Shape
  <2> QED BY <2>1, <2>2
          DEF Types, TypeOK, AnswerRecord, ItemRecord, KeyRecord, JobRecord, Results
<1> QED BY <1>1, Inductive, BooksInvariant, PTL

(* licences_used is the sum of what every item, or the job it became, has  *)
(* of the quota: whatever is refused, cut, fails, dies or is settled at    *)
(* any figure, and in whatever order, no seat is gained, and none is lost  *)
(* but by a request that died or broke with its reservation and by a       *)
(* settlement that could not refund.                                       *)
THEOREM BooksAreExact == Spec => []NothingElseLeaks
BY BooksInvariant, PTL DEF BooksInv

-----------------------------------------------------------------------------
(* A key's record names a call that goes on, or that came to something;    *)
(* the one item of a single request that was refused has withdrawn it.     *)
Spent(s, c) ==
  /\ keys[s] = [result |-> OwnId(c), body |-> call[c].body] /\ Scope(c) = s
  /\ pc[c] # "start" /\ (pc[c] = "read" => MetItself(c))
  /\ pc[c] = "answered" => answer[c].told \in {"accepted", "batch", "broken"} \/ MetItself(c)
  /\ Kind(c) = "single" => item[OwnId(c)].pc # "refused"

KeysInv == \A s \in Scopes : keys[s] # NoRecord => \E c \in Calls : Spent(s, c)

(* A record that stays does so if nothing happened to its call.            *)
LEMMA SpentStays ==
  ASSUME NEW s \in Scopes, NEW c \in Calls, Spent(s, c), call' = call,
         keys'[s] = keys[s], pc'[c] = pc[c], answer'[c] = answer[c],
         item'[OwnId(c)].pc # "refused" \/ item'[OwnId(c)] = item[OwnId(c)]
  PROVE  Spent(s, c)'
BY SameCall DEF Spent, MetItself

LEMMA ScopeOfPartner ==
  ASSUME NEW c \in Calls, Scope(c) \in Scopes
  PROVE  Partner(c) /\ Keyed(c)
BY ConstantsAssumption DEF Scope, Scopes, Partner, Keyed

LEMMA AnswerOthers ==
  ASSUME Types, NEW c \in Calls, \E told, id : Answer(c, told, id)
  PROVE  \A d \in Calls \ {c} : pc'[d] = pc[d] /\ answer'[d] = answer[d]
BY DEF Types, Answer, Goto

LEMMA KeysByItems ==
  ASSUME Shape, IntakeInv, Types, Stages, KeysInv, NEW x \in Items, ItemStep(x)
  PROVE  KeysInv'
<1>1. UNCHANGED <<call, pc, answer>>
  BY ItemBooks
<1>2. /\ ItemOnly(x)
      /\ Plain(x) \/ Takes(x) \/ Makes(x) \/ Releases(x) \/ Forgets(x)
  BY StepKinds
<1>3. item[x].pc # "none" /\ (Kind(x[1]) = "single" => x = OwnId(x[1]))
  BY <1>2 DEF Plain, Takes, Makes, Releases, Forgets, Goes, IntakeInv, Calling
<1>4. SUFFICES ASSUME NEW s \in Scopes, keys'[s] # NoRecord
               PROVE  \E c \in Calls : Spent(s, c)'
  BY DEF KeysInv
<1>5. /\ keys'[s] = keys[s]
      /\ Forgets(x) /\ Kind(x[1]) = "single" => keys[s].result # x \/ s # Scope(x[1])
  BY <1>1, <1>2, <1>3, <1>4, Names, ScopeOfPartner
     DEF Plain, Takes, Makes, Releases, Forgets, WithoutClaim, Types
<1>6. PICK c \in Calls : Spent(s, c)
  BY <1>4, <1>5 DEF KeysInv
<1>7. item'[OwnId(c)].pc # "refused" \/ item'[OwnId(c)] = item[OwnId(c)]
      \/ (Kind(c) # "single" /\ x = OwnId(c))
  <2>1. CASE x = OwnId(c) /\ item'[x].pc = "refused"
    <3>1. Forgets(x)
      BY <1>2, <2>1 DEF Plain, Takes, Makes, Releases, Forgets, Goes
    <3>2. x[1] = c /\ keys[s].result = x /\ s = Scope(c)
      BY <1>6, <2>1, Names DEF Spent
    <3> QED BY <1>5, <2>1, <3>1, <3>2
  <2>2. CASE x # OwnId(c)
    BY <1>2, <2>2, Names DEF ItemOnly
  <2> QED BY <2>1, <2>2
<1>8. Spent(s, c)'
  BY <1>1, <1>5, <1>6, <1>7, SameCall DEF Spent, MetItself
<1> QED BY <1>8

LEMMA KeysByCalls ==
  ASSUME Shape, IntakeInv, Types, Stages, KeysInv, NEW c \in Calls, CallStep(c) \/ Crash(c)
  PROVE  KeysInv'
<1>1. call' = call
  BY CallKinds DEF CallOnly, Crash
<1> SUFFICES ASSUME NEW s \in Scopes, keys'[s] # NoRecord
             PROVE  \E d \in Calls : Spent(s, d)'
  BY DEF KeysInv
(* The record of another call.                                             *)
<1>2. ASSUME NEW d \in Calls, d # c, Spent(s, d), keys'[s] = keys[s]
      PROVE  Spent(s, d)'
  <2>1. pc'[d] = pc[d] /\ answer'[d] = answer[d]
    <3>1. CASE \E told, id : Answer(c, told, id)
      BY <1>2, <3>1, AnswerOthers
    <3>2. CASE answer' = answer /\ \E step : Goto(c, step)
      BY <1>2, <3>2 DEF Goto, Types
    <3> QED BY <3>1, <3>2 DEF CallStep, Start, Begin, Replay, TakeBlock, BlockBusy, Respond,
                              LegacyKey, LegacyActive, LegacyCreate, Crash, Invalid,
                              ClaimLost, ClaimRaises, BlockRaises, RespondRaises
  <2>2. item'[OwnId(d)] = item[OwnId(d)]
    <3>1. \A y \in Items : y[1] # c => item'[y] = item[y]
      <4>1. CASE CallStep(c)
        BY <4>1, CallKinds DEF Rests, Spends, Withdraws, Begins, CreatesLegacy
      <4>2. CASE Crash(c)
        BY <4>2, CrashMoves DEF Entries
      <4> QED BY <4>1, <4>2
    <3> QED BY <1>2, <3>1, Names
  <2> QED BY <1>1, <1>2, <2>1, <2>2, SpentStays
(* The call's own record.                                                  *)
<1>3. ASSUME Spent(s, c), keys'[s] = keys[s]
      PROVE  Spent(s, c)'
  <2>1. pc[c] # "start" /\ Scope(c) = s /\ Partner(c) /\ Keyed(c)
    BY <1>3, ScopeOfPartner DEF Spent
  <2>2. CASE TakeBlock(c)
    <3>1. Kind(c) = "bulk" /\ answer' = answer /\ pc'[c] = "items"
      BY <2>2, BlockMoves, GotoTypes DEF IntakeInv, Calling, Steps
    <3> QED BY <1>1, <1>3, <3>1, SameCall DEF Spent
  <2>3. CASE BlockBusy(c)
    <3>1. keys' = WithoutClaim(c) /\ keys[s].result = OwnId(c)
      BY <1>3, <2>3 DEF BlockBusy, Spent
    <3>2. keys'[s] = NoRecord
      BY <2>1, <3>1 DEF WithoutClaim, Types
    <3> QED BY <3>2
  <2>4. CASE Respond(c)
    <3>1. \E told \in {"accepted", "broken", "batch"} : Answer(c, told, OwnId(c))
      <4>1. CASE Kind(c) = "single"
        <5>1. OwnId(c) \in Entries(c)
          BY Names, ConstantsAssumption DEF Entries, OwnId, Shape
        <5>2. item[OwnId(c)].pc \in {"accepted", "broken"}
          BY <1>3, <2>4, <4>1, <5>1, Names DEF Respond, Final, Stages, Spent
        <5> QED BY <2>4, <4>1, <5>2 DEF Respond
      <4>2. CASE Kind(c) # "single"
        BY <2>4, <4>2 DEF Respond
      <4> QED BY <4>1, <4>2
    <3>2. pc'[c] = "answered" /\ answer'[c].told \in {"accepted", "broken", "batch"}
      BY <3>1 DEF Answer, Goto, Types
    <3>3. item' = item
      BY <2>4 DEF Respond
    <3> QED BY <1>1, <1>3, <3>2, <3>3, SameCall DEF Spent
  <2>5. CASE Crash(c)
    <3>1. pc'[c] = "dead" /\ answer' = answer
      BY <2>5, CrashMoves, GotoTypes DEF Steps
    <3>2. item'[OwnId(c)].pc = "refused" => item[OwnId(c)].pc = "refused"
      BY <2>5, CrashMoves, Names
    <3> QED BY <1>1, <1>3, <3>1, <3>2, SameCall DEF Spent
  <2>6. CASE \/ Invalid(c) \/ Start(c) \/ ClaimLost(c) \/ ClaimRaises(c)
             \/ LegacyKey(c) \/ LegacyActive(c) \/ LegacyCreate(c)
    BY <2>1, <2>6 DEF Invalid, Start, ClaimLost, ClaimRaises, Claiming, LegacyKey, LegacyActive,
                      LegacyCreate, IntakeInv, Calling, Partner
  <2>7. CASE BlockRaises(c) \/ RespondRaises(c)
    <3>1. \E id : Answer(c, "broken", id) /\ item' = item
      BY <2>7 DEF BlockRaises, RespondRaises
    <3>2. pc'[c] = "answered" /\ answer'[c].told = "broken" /\ item' = item
      BY <3>1 DEF Answer, Goto, Types
    <3> QED BY <1>1, <1>3, <3>2, SameCall DEF Spent
  <2>8. CASE Replay(c)
    <3>1. "lost" \in Faults
      BY <1>3, <2>8 DEF Replay, Spent, MetItself
    <3>2. ExistingOrOwn(c) = [result |-> OwnId(c), body |-> call[c].body]
      BY <1>3, <2>1 DEF Spent, ExistingOrOwn
    <3>3. \/ Answer(c, "missing", NoItem)
          \/ Answer(c, "replay", OwnId(c))
      BY <2>8, <3>2 DEF Replay
    <3>4. /\ pc'[c] = "answered" /\ item' = item
          /\ answer'[c] \in [told: {"replay", "missing"}, id: {OwnId(c), NoItem}]
      BY <2>8, <3>3 DEF Replay, Answer, Goto, Types
    <3>5. MetItself(c)'
      BY <3>1, <3>4 DEF MetItself, OwnId
    <3> QED BY <1>1, <1>3, <3>4, <3>5, SameCall DEF Spent
  <2> QED BY <2>2, <2>3, <2>4, <2>5, <2>6, <2>7, <2>8 DEF CallStep
<1>4. CASE keys'[s] = keys[s]
  <2>1. PICK d \in Calls : Spent(s, d)
    BY <1>4 DEF KeysInv
  <2> QED BY <1>2, <1>3, <1>4, <2>1
(* A new record.                                                           *)
<1>5. CASE keys'[s] # keys[s]
  <2>1. CASE CallStep(c)
    <3>1. CASE keys' = WithoutClaim(c)
      BY <1>5, <3>1 DEF WithoutClaim, Types
    <3>2. CASE /\ Begins(c) /\ Keyed(c)
               /\ keys' = [keys EXCEPT ![Scope(c)] = [result |-> OwnId(c), body |-> call[c].body]]
      <4>1. s = Scope(c) /\ keys'[s] = [result |-> OwnId(c), body |-> call[c].body]
        BY <1>5, <3>2 DEF Types
      <4>2. pc'[c] \in {"items", "slots"}
        BY <3>2 DEF Begins
      <4>3. item'[OwnId(c)].pc # "refused"
        BY <3>2, Names DEF Begins
      <4> QED BY <1>1, <4>1, <4>2, <4>3, SameCall DEF Spent
    <3>3. CASE ClaimLost(c) \/ ClaimRaises(c)
      <4>1. /\ s = Scope(c) /\ keys'[s] = [result |-> OwnId(c), body |-> call[c].body]
            /\ item' = item /\ pc[c] = "start" /\ Partner(c)
        BY <1>5, <3>3 DEF ClaimLost, ClaimRaises, Claiming, Claimed, Partner, Types
      <4>2. \/ pc'[c] = "read" /\ "lost" \in Faults
            \/ pc'[c] = "answered" /\ answer'[c].told = "broken"
        BY <3>3 DEF ClaimLost, ClaimRaises, Mishap, Answer, Goto, Types
      <4>3. item[OwnId(c)].pc = "none"
        BY <4>1, Names DEF IntakeInv, Calling
      <4> QED BY <1>1, <4>1, <4>2, <4>3, SameCall DEF Spent, MetItself
    <3>4. CASE Spends(c) /\ ~(ClaimLost(c) \/ ClaimRaises(c))
      <4>1. pc[c] = "start" /\ pc'[c] \in {"read", "answered"} /\ Partner(c) /\ keys' # keys
        BY <1>5, <3>4 DEF Spends
      <4>2. Start(c)
        BY <2>1, <3>4, <4>1
           DEF CallStep, Invalid, Replay, TakeBlock, BlockBusy, BlockRaises, Respond,
               RespondRaises, LegacyKey, LegacyActive, LegacyCreate, Partner
      <4>3. Begin(c)
        BY <4>1, <4>2 DEF Start
      <4> QED BY <4>1, <4>3 DEF Begin, Goto, Types
    <3> QED BY <1>5, <2>1, <3>1, <3>2, <3>3, <3>4, CallKinds
            DEF Rests, Spends, Withdraws, Begins, CreatesLegacy
  <2>2. CASE Crash(c)
    BY <1>5, <2>2, CrashMoves
  <2> QED BY <2>1, <2>2
<1> QED BY <1>4, <1>5

LEMMA KeysInvariant == Spec => []KeysInv
<1>1. Init => KeysInv
  BY DEF Init, KeysInv
<1>2. ASSUME Shape, IntakeInv, BooksInv, KeysInv, [Next]_vars
      PROVE  KeysInv'
  <2>1. Types /\ Stages
    BY <1>2 DEF BooksInv
  <2>2. CASE \E c \in Calls : CallStep(c) \/ Crash(c)
    BY <1>2, <2>1, <2>2, KeysByCalls
  <2>3. CASE \E x \in Items : ItemStep(x)
    BY <1>2, <2>1, <2>3, KeysByItems
  <2>4. CASE \/ \E x \in Items : JobStarts(x) \/ JobEnds(x) \/ LegacyEnds(x)
             \/ \E d \in Domains : LockExpires(d)
             \/ UNCHANGED vars
    <3>1. UNCHANGED <<call, pc, answer, item, keys>>
      BY <2>4 DEF JobStarts, JobEnds, LegacyEnds, LockExpires, vars
    <3> QED BY <1>2, <3>1, SpentStays DEF KeysInv
  <2> QED BY <1>2, <2>2, <2>3, <2>4 DEF Next
<1> QED BY <1>1, <1>2, Inductive, BooksInvariant, PTL DEF Spec

(* A key is spent only on a call that is being served, was accepted, died, *)
(* met an error that accept() does not expect, or was shown its own claim: *)
(* after a refusal, at any step and in any interleaving of repeats, it is  *)
(* free again.                                                             *)
THEOREM KeysNameResults == Spec => []KeysAreSpentOnResults
<1>1. KeysInv => KeysAreSpentOnResults
  <2> SUFFICES ASSUME KeysInv, NEW s \in Scopes, keys[s] # NoRecord
               PROVE  LET c == keys[s].result[1] IN
                        /\ Scope(c) = s /\ keys[s].body = call[c].body
                        /\ \/ pc[c] \notin {"start", "read", "answered"}
                           \/ answer[c].told \in {"accepted", "batch", "broken"}
                           \/ MetItself(c)
    BY DEF KeysAreSpentOnResults
  <2>1. PICK c \in Calls : Spent(s, c)
    BY DEF KeysInv
  <2>2. keys[s].result[1] = c /\ keys[s].body = call[c].body
    BY <2>1, Names DEF Spent
  <2> QED BY <2>1, <2>2 DEF Spent
<1> QED BY <1>1, KeysInvariant, PTL

-----------------------------------------------------------------------------
(* The places of a bulk call's valid items.                                *)
Between(c, m, n) == {z \in ValidItems(c) : m < z[2] /\ z[2] <= n}

LEMMA BulkItems ==
  ASSUME NEW c \in Calls
  PROVE  /\ \A x \in ValidItems(c) : /\ x \in Items /\ x[1] = c /\ x[2] \in Nat \ {0}
                                     /\ x \in Entries(c) /\ Valid(x)
         /\ \A x, y \in ValidItems(c) : x[2] = y[2] => x = y
         /\ \A x \in ValidItems(c) : Position(x) = Cardinality(Between(c, 0, x[2]))
<1>1. \A x \in Items : x = <<x[1], x[2]>> /\ x[2] \in Nat \ {0}
  BY DEF Items
<1>2. \A x \in ValidItems(c) : x \in Items /\ x[1] = c /\ x \in Entries(c) /\ Valid(x)
  BY DEF ValidItems, Entries
<1>3. ASSUME NEW x \in ValidItems(c)
      PROVE  Position(x) = Cardinality(Between(c, 0, x[2]))
  <2>1. {y \in Entries(x[1]) : Valid(y) /\ y[2] <= x[2]} = Between(c, 0, x[2])
    BY <1>1, <1>2 DEF Between, ValidItems
  <2> QED BY <2>1 DEF Position
<1> QED BY <1>1, <1>2, <1>3

LEMMA PositionsDiffer ==
  ASSUME NEW c \in Calls, NEW x \in ValidItems(c), NEW y \in ValidItems(c), x[2] < y[2]
  PROVE  /\ Position(y) - Position(x) = Cardinality(Between(c, x[2], y[2]))
         /\ Position(x) < Position(y)
<1> DEFINE B == Between(c, 0, x[2])
           D == Between(c, x[2], y[2])
<1>1. /\ x[2] \in Nat \ {0} /\ y[2] \in Nat \ {0}
      /\ \A z \in ValidItems(c) : z[2] \in Nat \ {0}
  BY BulkItems
<1>2. B \cap D = {} /\ B \cup D = Between(c, 0, y[2]) /\ y \in D
  BY <1>1 DEF Between
<1>3. IsFiniteSet(B) /\ IsFiniteSet(D)
  BY Block, FS_Subset DEF Between
<1>4. Cardinality(B) \in Nat /\ Cardinality(D) \in Nat /\ Cardinality(D) # 0
  BY <1>2, <1>3, FS_CardinalityType, FS_EmptySet
<1>5. Cardinality(B \cup D) = Cardinality(B) + Cardinality(D)
  <2>0. Cardinality(B \cap D) = 0
    BY <1>2, FS_EmptySet
  <2> HIDE DEF B, D
  <2>1. Cardinality(B \cup D) = Cardinality(B) + Cardinality(D) - Cardinality(B \cap D)
    BY <1>3, FS_Union
  <2> QED BY <1>4, <2>0, <2>1
<1>6. Position(x) = Cardinality(B) /\ Position(y) = Cardinality(B \cup D)
  BY <1>2, BulkItems
<1> QED BY <1>4, <1>5, <1>6

(* The positions of a block are its numbers from 1 on, each once.          *)
LEMMA PositionsFill ==
  ASSUME NEW c \in Calls
  PROVE  /\ \A x \in ValidItems(c) : Position(x) \in 1 .. Cardinality(ValidItems(c))
         /\ \A x, y \in ValidItems(c) : Position(x) = Position(y) => x = y
         /\ \A n \in 1 .. Cardinality(ValidItems(c)) :
              \E x \in ValidItems(c) : Position(x) = n
<1> DEFINE V == ValidItems(c)
           N == Cardinality(V)
           f == [x \in V |-> Position(x)]
<1>0. N \in Nat /\ IsFiniteSet(V)
  BY Block
<1>1. ASSUME NEW x \in V
      PROVE  Position(x) \in 1 .. N
  <2> DEFINE B == Between(c, 0, x[2])
  <2>1. x \in B /\ B \subseteq V
    BY BulkItems DEF Between
  <2>2. IsFiniteSet(B) /\ Cardinality(B) <= N
    BY <1>0, <2>1, FS_Subset
  <2>3. Cardinality(B) \in Nat /\ Cardinality(B) # 0
    BY <2>1, <2>2, FS_CardinalityType, FS_EmptySet
  <2>4. Position(x) = Cardinality(B)
    BY BulkItems
  <2> QED BY <1>0, <2>2, <2>3, <2>4
<1>2. ASSUME NEW x \in V, NEW y \in V, Position(x) = Position(y)
      PROVE  x = y
  <2>1. x[2] \in Nat /\ y[2] \in Nat /\ Position(x) \in Nat /\ Position(y) \in Nat
    BY BulkItems, Block
  <2>2. ~(x[2] < y[2]) /\ ~(y[2] < x[2])
    BY <1>2, <2>1, PositionsDiffer
  <2> QED BY <2>1, <2>2, BulkItems
<1>3. f \in Injection(V, 1 .. N)
  BY <1>1, <1>2 DEF Injection, IsInjective
<1>4. IsFiniteSet(1 .. N) /\ Cardinality(1 .. N) = N
  BY <1>0, FS_Interval
<1>5. f \in Surjection(V, 1 .. N)
  <2> HIDE DEF f
  <2> QED BY <1>3, <1>4, FS_Injection
<1>6. \A n \in 1 .. N : \E x \in V : Position(x) = n
  BY <1>5 DEF Surjection
<1> QED BY <1>1, <1>2, <1>6

(* The slots of a bulk call start from a number of its own.                *)
Blocked(c, base) ==
  \A x \in Items : x[1] = c /\ item[x].slot # 0 =>
    x \in ValidItems(c) /\ item[x].slot = base + Position(x)

SlotsInv ==
  /\ \A x \in Items : item[x].slot <= counter
  /\ \A n \in 1 .. counter : \E x \in Items : item[x].slot = n
  /\ \A x, y \in Items : item[x].slot # 0 /\ item[x].slot = item[y].slot => x = y
  /\ \A x \in Items : item[x].pc \in {"none", "invalid"} => item[x].slot = 0
  /\ \A x \in Items : Kind(x[1]) = "bulk" /\ item[x].pc \notin {"none", "invalid"} =>
                        item[x].slot # 0
  /\ \A c \in Calls : Kind(c) = "bulk" => \E base \in Nat : Blocked(c, base)

LEMMA SamePositions ==
  ASSUME call' = call
  PROVE  /\ \A c \in Calls : ValidItems(c)' = ValidItems(c)
         /\ \A x : Position(x)' = Position(x)
BY DEF ValidItems, Position, Entries, Valid, EntryOf

(* A step that gives out no slot.                                          *)
LEMMA SlotsStay ==
  ASSUME SlotsInv, call' = call, counter' = counter,
         \A x \in Items : item'[x].slot = item[x].slot,
         \A x \in Items : item'[x].pc \in {"none", "invalid"} => item[x].slot = 0,
         \A x \in Items : Kind(x[1]) = "bulk" /\ item'[x].pc \notin {"none", "invalid"} =>
                            item[x].pc \notin {"none", "invalid"}
  PROVE  SlotsInv'
<1>1. /\ \A c \in Calls : Kind(c)' = Kind(c)
      /\ \A x \in Items : Kind(x[1])' = Kind(x[1])
  BY SameCall, Names
<1>2. ASSUME NEW c \in Calls, Kind(c) = "bulk"
      PROVE  \E base \in Nat : Blocked(c, base)'
  <2>1. PICK base \in Nat : Blocked(c, base)
    BY <1>2 DEF SlotsInv
  <2>2. Blocked(c, base)'
    BY <2>1, SamePositions DEF Blocked
  <2> QED BY <2>2
<1> QED BY <1>1, <1>2 DEF SlotsInv

LEMMA SlotsByItems ==
  ASSUME Shape, IntakeInv, Types, Stages, SlotsInv, NEW x \in Items, ItemStep(x)
  PROVE  SlotsInv'
<1>1. call' = call
  BY ItemBooks
<1>2. PICK step \in ItemSteps \ {"none", "lock", "invalid", "dead"}, seats \in Nat, slot \in Nat :
              /\ ItemMoves(x, step, seats, slot)
              /\ \/ slot = item[x].slot /\ counter' = counter
                 \/ slot = counter + 1 /\ counter' = counter + 1
                    /\ item[x].slot = 0 /\ item[x].pc = "slot"
  BY ItemBooks
<1>3. /\ item'[x].pc \notin {"none", "invalid"} /\ item'[x].slot = slot
      /\ \A y \in Items \ {x} : item'[y] = item[y]
      /\ item[x].pc \notin {"none", "invalid"}
  <2>1. item[x].pc \notin {"none", "invalid"}
    BY StepKinds DEF Plain, Takes, Makes, Releases, Forgets, Goes
  <2> QED BY <1>2, <2>1 DEF ItemMoves
<1>4. CASE slot = item[x].slot /\ counter' = counter
  BY <1>1, <1>3, <1>4, SlotsStay DEF SlotsInv
<1>5. CASE /\ slot = counter + 1 /\ counter' = counter + 1
           /\ item[x].slot = 0 /\ item[x].pc = "slot"
  <2>1. counter \in Nat /\ \A y \in Items : item[y].slot \in Nat /\ item[y].slot <= counter
    BY Charges DEF Types, SlotsInv
  <2>2. Kind(x[1]) # "bulk"
    BY <1>5 DEF SlotsInv
  <2>3. \A y \in Items : item'[y].slot = IF y = x THEN counter + 1 ELSE item[y].slot
    BY <1>3, <1>5
  <2>4. \A y \in Items : item'[y].slot <= counter'
    BY <1>5, <2>1, <2>3
  <2>5. \A n \in 1 .. counter' : \E y \in Items : item'[y].slot = n
    <3> SUFFICES ASSUME NEW n \in 1 .. counter' PROVE \E y \in Items : item'[y].slot = n
      OBVIOUS
    <3>1. CASE n = counter + 1
      BY <2>3, <3>1
    <3>2. CASE n # counter + 1
      <4>1. n \in 1 .. counter
        BY <1>5, <2>1, <3>2
      <4>2. PICK y \in Items : item[y].slot = n
        BY <4>1 DEF SlotsInv
      <4>3. y # x
        BY <1>5, <4>1, <4>2
      <4> QED BY <2>3, <4>2, <4>3
    <3> QED BY <3>1, <3>2
  <2>6. \A y, z \in Items : item'[y].slot # 0 /\ item'[y].slot = item'[z].slot => y = z
    <3>1. \A y \in Items : item[y].slot # counter + 1
      BY <2>1
    <3> QED BY <2>3, <3>1 DEF SlotsInv
  <2>7. \A y \in Items : item'[y].pc \in {"none", "invalid"} => item'[y].slot = 0
    BY <1>3 DEF SlotsInv
  <2>8. /\ \A c \in Calls : Kind(c)' = Kind(c)
        /\ \A y \in Items : Kind(y[1])' = Kind(y[1])
    BY <1>1, SameCall, Names
  <2>9. \A y \in Items : Kind(y[1]) = "bulk" /\ item'[y].pc \notin {"none", "invalid"} =>
                           item'[y].slot # 0
    BY <1>3, <2>2 DEF SlotsInv
  <2>10. ASSUME NEW c \in Calls, Kind(c) = "bulk"
         PROVE  \E base \in Nat : Blocked(c, base)'
    <3>1. PICK base \in Nat : Blocked(c, base)
      BY <2>10 DEF SlotsInv
    <3>2. \A y \in Items : y[1] = c => item'[y] = item[y]
      BY <1>3, <2>2, <2>10
    <3>3. Blocked(c, base)'
      BY <1>1, <3>1, <3>2, SamePositions DEF Blocked
    <3> QED BY <3>3
  <2> QED BY <2>4, <2>5, <2>6, <2>7, <2>8, <2>9, <2>10 DEF SlotsInv
<1> QED BY <1>2, <1>4, <1>5

LEMMA SlotsByBlocks ==
  ASSUME Shape, IntakeInv, Types, Stages, SlotsInv, NEW c \in Calls, TakeBlock(c)
  PROVE  SlotsInv'
<1> DEFINE V == ValidItems(c)
           N == Cardinality(V)
<1>1. /\ call' = call /\ pc[c] = "slots" /\ Kind(c) = "bulk"
      /\ counter' = counter + N /\ counter \in Nat /\ N \in Nat
  BY BlockMoves, Block DEF Types, IntakeInv, Calling
<1>2. /\ V \subseteq Items /\ Entries(c) \subseteq Items /\ V \subseteq Entries(c)
      /\ \A y \in Items : y[1] = c => item[y].pc = "none" /\ item[y].slot = 0
      /\ \A y \in Entries(c) : y[1] = c
  BY <1>1 DEF ValidItems, Entries, IntakeInv, Calling, SlotsInv
<1>3. \A y \in Items :
        /\ item'[y].slot = IF y \in V THEN counter + Position(y) ELSE item[y].slot
        /\ y \notin Entries(c) => item'[y] = item[y]
        /\ y \in V => item'[y].pc = "lock"
        /\ y \in Entries(c) \ V => item'[y].pc = "invalid"
  BY <1>2, BlockMoves
<1>4. \A y \in Items : item[y].slot \in Nat /\ item[y].slot <= counter
  BY Charges DEF SlotsInv
<1>5. /\ \A y \in V : Position(y) \in 1 .. N
      /\ \A y, z \in V : Position(y) = Position(z) => y = z
      /\ \A n \in 1 .. N : \E y \in V : Position(y) = n
  BY PositionsFill
<1> HIDE DEF V, N
<1>6. \A y \in V : Position(y) \in Nat /\ Position(y) # 0
  BY <1>1, <1>5
<1>7. \A y \in Items : item'[y].slot <= counter'
  BY <1>1, <1>3, <1>4, <1>5
<1>8. \A n \in 1 .. counter' : \E y \in Items : item'[y].slot = n
  <2> SUFFICES ASSUME NEW n \in 1 .. counter' PROVE \E y \in Items : item'[y].slot = n
    OBVIOUS
  <2>1. CASE n <= counter
    <3>1. PICK y \in Items : item[y].slot = n
      BY <1>1, <2>1 DEF SlotsInv
    <3>2. y \notin V
      BY <1>2, <3>1
    <3> QED BY <1>3, <3>1, <3>2
  <2>2. CASE n > counter
    <3>1. n - counter \in 1 .. N
      BY <1>1, <2>2
    <3>2. PICK y \in V : Position(y) = n - counter
      BY <1>5, <3>1
    <3> QED BY <1>1, <1>2, <1>3, <3>2
  <2> QED BY <1>1, <2>1, <2>2
<1>9. ASSUME NEW y \in Items, NEW z \in Items, item'[y].slot # 0, item'[y].slot = item'[z].slot
      PROVE  y = z
  <2>1. CASE y \in V /\ z \in V
    <3>1. Position(y) = Position(z)
      BY <1>1, <1>3, <1>6, <1>9, <2>1
    <3> QED BY <1>5, <2>1, <3>1
  <2>2. CASE y \notin V /\ z \notin V
    BY <1>3, <1>9, <2>2 DEF SlotsInv
  <2>3. CASE (y \in V /\ z \notin V) \/ (z \in V /\ y \notin V)
    BY <1>1, <1>3, <1>4, <1>6, <1>9, <2>3
  <2> QED BY <2>1, <2>2, <2>3
<1>10. \A y \in Items : item'[y].pc \in {"none", "invalid"} => item'[y].slot = 0
  BY <1>2, <1>3 DEF SlotsInv
<1>11. /\ \A d \in Calls : Kind(d)' = Kind(d)
       /\ \A y \in Items : Kind(y[1])' = Kind(y[1])
  BY <1>1, SameCall, Names
<1>12. \A y \in Items : Kind(y[1]) = "bulk" /\ item'[y].pc \notin {"none", "invalid"} =>
                          item'[y].slot # 0
  BY <1>1, <1>3, <1>6 DEF SlotsInv
<1>13. ASSUME NEW d \in Calls, Kind(d) = "bulk"
       PROVE  \E base \in Nat : Blocked(d, base)'
  <2>1. CASE d = c
    <3>1. ASSUME NEW y \in Items, y[1] = c, item'[y].slot # 0
          PROVE  y \in V /\ item'[y].slot = counter + Position(y)
      BY <1>2, <1>3, <3>1
    <3>2. \A y \in Items : y[1] = c /\ item'[y].slot # 0 =>
            y \in ValidItems(c)' /\ item'[y].slot = counter + Position(y)'
      BY <1>1, <3>1, SamePositions DEF V
    <3>3. ASSUME NEW base \in Nat, base = counter PROVE Blocked(c, base)'
      BY <3>2, <3>3 DEF Blocked
    <3> QED BY <1>1, <2>1, <3>3
  <2>2. CASE d # c
    <3>1. PICK base \in Nat : Blocked(d, base)
      BY <1>13 DEF SlotsInv
    <3>2. \A y \in Items : y[1] = d => item'[y] = item[y]
      BY <1>2, <1>3, <2>2
    <3>3. Blocked(d, base)'
      BY <1>1, <3>1, <3>2, SamePositions DEF Blocked
    <3> QED BY <3>3
  <2> QED BY <2>1, <2>2
<1> QED BY <1>7, <1>8, <1>9, <1>10, <1>11, <1>12, <1>13 DEF SlotsInv

LEMMA SlotsByCalls ==
  ASSUME Shape, IntakeInv, Types, Stages, SlotsInv, NEW c \in Calls, CallStep(c) \/ Crash(c)
  PROVE  SlotsInv'
<1>1. CASE TakeBlock(c)
  BY <1>1, SlotsByBlocks
<1>2. CASE Crash(c)
  <2>1. /\ call' = call /\ counter' = counter
        /\ \A y \in Items : item'[y].slot = item[y].slot
        /\ \A y \in Items : item'[y] = item[y] \/ (item'[y].pc = "dead" /\ item[y].pc \in Active)
    BY <1>2, CrashMoves
  <2>2. \A y \in Items : item[y].pc \in Active => item[y].pc \notin {"none", "invalid"}
    BY DEF Active, Holding
  <2> QED BY <2>1, <2>2, SlotsStay DEF SlotsInv
<1>3. CASE Start(c)
  <2>1. call' = call /\ counter' = counter
    BY <1>3 DEF Start
  <2>2. CASE item' = item
    BY <2>1, <2>2, SlotsStay DEF SlotsInv
  <2>3. CASE At(OwnId(c), "lock") /\ Kind(c) = "single"
    <3>1. ItemMoves(OwnId(c), "lock", item[OwnId(c)].seats, item[OwnId(c)].slot)
      BY <2>3, Moves, Names, StepNames
    <3>2. \A y \in Items : item'[y].slot = item[y].slot
      BY <3>1 DEF ItemMoves
    <3>3. \A y \in Items : item'[y].pc \in {"none", "invalid"} => item[y].slot = 0
      BY <3>1 DEF ItemMoves, SlotsInv
    <3>4. \A y \in Items : Kind(y[1]) = "bulk" => item'[y] = item[y]
      BY <2>3, <3>1, Names DEF ItemMoves
    <3> QED BY <2>1, <3>2, <3>3, <3>4, SlotsStay
  <2> QED BY <1>3, <2>2, <2>3 DEF Start, Begin
<1>4. CASE \/ LegacyKey(c) \/ LegacyActive(c) \/ LegacyCreate(c)
           \/ Invalid(c) \/ ClaimLost(c) \/ ClaimRaises(c) \/ Replay(c)
           \/ BlockBusy(c) \/ BlockRaises(c) \/ Respond(c) \/ RespondRaises(c)
  <2>1. UNCHANGED <<call, item, counter>>
    BY <1>4 DEF LegacyKey, LegacyActive, LegacyCreate, Invalid, ClaimLost, ClaimRaises, Replay,
                BlockBusy, BlockRaises, Respond, RespondRaises
  <2> QED BY <2>1, SlotsStay DEF SlotsInv
<1> QED BY <1>1, <1>2, <1>3, <1>4 DEF CallStep

LEMMA SlotsInvariant == Spec => []SlotsInv
<1>1. Init => SlotsInv
  <2> SUFFICES ASSUME Init PROVE SlotsInv
    OBVIOUS
  <2>1. counter = 0 /\ \A x \in Items : item[x].slot = 0 /\ item[x].pc = "none"
    BY DEF Init
  <2>2. \A c \in Calls : Blocked(c, 0)
    BY <2>1 DEF Blocked
  <2> QED BY <2>1, <2>2 DEF SlotsInv
<1>2. ASSUME Shape, IntakeInv, BooksInv, SlotsInv, [Next]_vars
      PROVE  SlotsInv'
  <2>1. Types /\ Stages
    BY <1>2 DEF BooksInv
  <2>2. CASE \E c \in Calls : CallStep(c) \/ Crash(c)
    BY <1>2, <2>1, <2>2, SlotsByCalls
  <2>3. CASE \E x \in Items : ItemStep(x)
    BY <1>2, <2>1, <2>3, SlotsByItems
  <2>4. CASE \/ \E x \in Items : JobStarts(x) \/ JobEnds(x) \/ LegacyEnds(x)
             \/ \E d \in Domains : LockExpires(d)
             \/ UNCHANGED vars
    <3>1. UNCHANGED <<call, item, counter>>
      BY <2>4 DEF JobStarts, JobEnds, LegacyEnds, LockExpires, vars
    <3> QED BY <1>2, <3>1, SlotsStay DEF SlotsInv
  <2> QED BY <1>2, <2>2, <2>3, <2>4 DEF Next
<1> QED BY <1>1, <1>2, Inductive, BooksInvariant, PTL DEF Spec

(* The slots of the plan mix are handed out once each and without a gap,   *)
(* however single requests and blocks interleave and fail, and the items   *)
(* of a bulk call have one block, in the order of the list.                *)
THEOREM SlotsAreExact == Spec => []SlotsPartition
<1>1. Shape /\ IntakeInv /\ Types /\ SlotsInv => SlotsPartition
  <2> SUFFICES ASSUME Shape, IntakeInv, Types, SlotsInv,
                      NEW x \in Items, NEW y \in Items,
                      x[1] = y[1], x[2] < y[2], item[x].slot # 0, item[y].slot # 0
               PROVE  item[y].slot - item[x].slot
                        = Cardinality({z \in Entries(x[1]) : /\ Valid(z)
                                                             /\ x[2] < z[2] /\ z[2] <= y[2]})
    BY DEF SlotsPartition, SlotsInv
  <2> DEFINE c == x[1]
  <2>1. c \in Calls /\ item[x].pc # "none" /\ item[y].pc # "none"
    BY Names DEF SlotsInv
  <2>2. Kind(c) = "bulk"
    <3>1. Partner(c)
      BY <2>1 DEF IntakeInv, Calling
    <3>2. Kind(c) = "single" => x = y
      BY <2>1 DEF IntakeInv, Calling
    <3>3. x # y
      BY DEF Items
    <3> QED BY <3>1, <3>2, <3>3 DEF Partner
  <2>3. PICK base \in Nat : Blocked(c, base)
    BY <2>1, <2>2 DEF SlotsInv
  <2>4. /\ x \in ValidItems(c) /\ item[x].slot = base + Position(x)
        /\ y \in ValidItems(c) /\ item[y].slot = base + Position(y)
    BY <2>3 DEF Blocked
  <2>5. Position(x) \in Nat /\ Position(y) \in Nat
    BY <2>1, <2>4, Block
  <2>6. Position(y) - Position(x) = Cardinality(Between(c, x[2], y[2]))
    BY <2>1, <2>4, PositionsDiffer
  <2>7. Between(c, x[2], y[2]) = {z \in Entries(x[1]) : /\ Valid(z)
                                                        /\ x[2] < z[2] /\ z[2] <= y[2]}
    BY DEF Between, ValidItems
  <2> QED BY <2>3, <2>4, <2>5, <2>6, <2>7
<1> QED BY <1>1, Inductive, BooksInvariant, SlotsInvariant, PTL DEF BooksInv
=============================================================================
