----------------------------- MODULE GroupCommit -----------------------------
(***************************************************************************)
(* The group commit of a hot document (repositories/batching.py), used for *)
(* a partner's quota record and for his plan counter.                      *)
(*                                                                         *)
(* Every server process has one queue for the document.  A caller appends  *)
(* its update; if no thread is draining the queue the caller leads: it     *)
(* takes what is waiting, applies it to one copy, saves the copy with one  *)
(* compare-and-swap, and leaves later arrivals to a drain thread.  Servers *)
(* compete for the document through the compare-and-swap only, and with an *)
(* operator who edits other fields of a partner's record: a field-level    *)
(* update reads nothing and asks for no version, but moves it on.          *)
(*                                                                         *)
(* The steps are those between which the queue's lock or the store may be  *)
(* taken by somebody else.  Applying the updates to the copy and finishing *)
(* the items are thread-local and belong to the read or write next to      *)
(* them.  The update is adjust_licences_used of the quota record.          *)
(***************************************************************************)
EXTENDS Integers, SequencesExt

CONSTANTS
  Callers,       \* calls of update_document, each by a thread of its own
  Servers,       \* processes
  ServerOf,      \* [Callers -> Servers]
  Delta,         \* [Callers -> Int], the change of licences_used
  Capped,        \* the callers with enforce_cap
  Limit,         \* max_licence_cap at first
  InitialValue,  \* licences_used at first, if the document exists
  Missing,       \* licences_used of what a missing document may be created from
  NewCaps,       \* the caps that an operator may give the partner
  MaxEdits,      \* bound: field-level updates by an operator
  NoValue,       \* None
  MaxAttempts,   \* MAX_ATTEMPTS
  Faults         \* which of FaultKinds the environment may produce

FaultKinds ==
  { "storeError",  \* an access of the store may raise without an effect
    "lostAnswer",  \* a write may be saved and its answer lost
    "timeout" }    \* a caller may have waited for WAIT_TIMEOUT_SECONDS

(* The fields of the document that the update reads or writes.             *)
Account == [licences_used : Nat, max_licence_cap : Nat]

Fresh(used) == [licences_used |-> used, max_licence_cap |-> Limit]

ASSUME GroupAssumption ==
  /\ ServerOf \in [Callers -> Servers]
  /\ Delta \in [Callers -> Int]
  /\ Capped \subseteq Callers
  /\ Limit \in Nat /\ InitialValue \in Nat /\ Missing \in Nat
  /\ NewCaps \subseteq Nat \ {0} /\ MaxEdits \in Nat
  /\ NoValue \notin Account
  /\ MaxAttempts \in Nat \ {0}
  /\ Faults \subseteq FaultKinds

VARIABLES
  doc,      \* the stored document: [value, version]; version 0: it is missing
  edits,    \* how often an operator has edited it
  setting,  \* what is fixed for a behaviour: the `missing` argument (None for
            \* a partner's record), and whether the store's answers get lost
  queue,    \* queue[s]: _Queue of server s, [pending, active]
  thread,   \* thread[c]: the thread that leads for c, then its drain thread
  item,     \* item[c]: _Item of c, "new", "queued" or how it was finished
  told,     \* told[c]: the item's value
  answer,   \* answer[c]: what update_document did, "none" before
  effects   \* effects[c]: how often c's update was saved (history)

vars == <<doc, edits, setting, queue, thread, item, told, answer, effects>>

Outcomes == {"ok", "refused", "error"}

Idle == [pc |-> "idle", drain |-> FALSE, batch |-> <<>>,
         seen |-> [value |-> NoValue, version |-> 0], attempt |-> 0]

Init ==
  /\ doc \in { [value |-> NoValue, version |-> 0],
               [value |-> Fresh(InitialValue), version |-> 1] }
  /\ edits = 0
  /\ setting \in [missing : {Fresh(Missing), NoValue}, lossy : {FALSE, "lostAnswer" \in Faults}]
  /\ doc.version > 0 => setting.missing = NoValue   \* it is not looked at then
  /\ queue = [s \in Servers |-> [pending |-> <<>>, active |-> FALSE]]
  /\ thread = [c \in Callers |-> Idle]
  /\ item = [c \in Callers |-> "new"]
  /\ told = [c \in Callers |-> NoValue]
  /\ answer = [c \in Callers |-> "none"]
  /\ effects = [c \in Callers |-> 0]

-----------------------------------------------------------------------------
(* The update: adjust_licences_used's apply(data).                         *)
Result(v, c) ==
  [v EXCEPT !.licences_used = IF @ + Delta[c] > 0 THEN @ + Delta[c] ELSE 0]

Rejects(v, c) ==
  c \in Capped /\ Delta[c] > 0 /\ Result(v, c).licences_used > v.max_licence_cap

(* Mutant: no trial copy.                                                *)
ApplyOneInPlace(state, c) ==
  LET trial == Result(state.working, c)
      refused == Rejects(state.working, c)
  IN [ working |-> trial, applied |-> state.applied \/ ~refused,
       outcome |-> Append(state.outcome, [how |-> IF refused THEN "refused" ELSE "ok",
                                          value |-> IF refused THEN NoValue ELSE trial]) ]

(* One turn of the loop over the batch: a trial copy replaces the working  *)
(* copy unless the update raises.                                          *)
ApplyOne(state, c) ==
  IF Rejects(state.working, c)
    THEN [state EXCEPT !.outcome = Append(@, [how |-> "refused", value |-> NoValue])]
    ELSE LET trial == Result(state.working, c)
         IN [ working |-> trial, applied |-> TRUE,
              outcome |-> Append(state.outcome, [how |-> "ok", value |-> trial]) ]

ApplyBatch(base, batch) ==
  FoldLeft(ApplyOne, [working |-> base, applied |-> FALSE, outcome |-> <<>>], batch)

(* What the batch is applied to: the document, or a copy of `missing`.     *)
Base(read) == IF read.version = 0 THEN setting.missing ELSE read.value

Turn(batch, c) == CHOOSE i \in DOMAIN batch : batch[i] = c

(* _Item.finish for every item of the batch.                               *)
FinishWith(batch, outcome) ==
  /\ item' = [c \in Callers |-> IF c \in ToSet(batch) THEN outcome[Turn(batch, c)].how
                                ELSE item[c]]
  /\ told' = [c \in Callers |-> IF c \in ToSet(batch) THEN outcome[Turn(batch, c)].value
                                ELSE told[c]]

FinishAll(batch, how) ==
  FinishWith(batch, [i \in DOMAIN batch |-> [how |-> how, value |-> NoValue]])

-----------------------------------------------------------------------------
(* Mutant: `active` is not looked at.                                    *)
CallLeadsAlways(c) ==
  LET s == ServerOf[c]
  IN /\ item[c] = "new"
     /\ item' = [item EXCEPT ![c] = "queued"]
     /\ queue' = [queue EXCEPT ![s] = [pending |-> Append(@.pending, c), active |-> TRUE]]
     /\ thread' = [thread EXCEPT ![c].pc = "take"]
     /\ UNCHANGED <<doc, edits, setting, told, answer, effects>>

(* update_document: append the item and lead if nobody is draining.        *)
Call(c) ==
  LET s == ServerOf[c]
  IN /\ item[c] = "new"
     /\ item' = [item EXCEPT ![c] = "queued"]
     /\ queue' = [queue EXCEPT ![s] = [pending |-> Append(@.pending, c), active |-> TRUE]]
     /\ thread' = IF queue[s].active THEN thread ELSE [thread EXCEPT ![c].pc = "take"]
     /\ UNCHANGED <<doc, edits, setting, told, answer, effects>>

(* The leader, or its drain thread, takes everything that waits.           *)
TakeBatch(c) ==
  LET s == ServerOf[c]
  IN /\ thread' = [thread EXCEPT ![c] =
                     [@ EXCEPT !.pc = "read", !.batch = queue[s].pending, !.attempt = 1]]
     /\ queue' = [queue EXCEPT ![s].pending = <<>>]
     /\ UNCHANGED <<doc, edits, setting, item, told, answer, effects>>

Take(c) == thread[c].pc = "take" /\ TakeBatch(c)

(* The drain thread stops only when nothing is waiting; it looks and gives *)
(* up the queue under one lock.                                            *)
DrainNext(c) ==
  LET s == ServerOf[c]
  IN /\ thread[c].pc = "next"
     /\ \/ queue[s].pending # <<>> /\ TakeBatch(c)
        \/ /\ queue[s].pending = <<>>
           /\ queue' = [queue EXCEPT ![s].active = FALSE]
           /\ thread' = [thread EXCEPT ![c] = Idle]
           /\ UNCHANGED <<doc, edits, setting, item, told, answer, effects>>

(* A batch is finished: the leader looks for more, the drain thread loops. *)
AfterBatch(c) ==
  [thread EXCEPT ![c] = [@ EXCEPT !.pc = IF thread[c].drain THEN "next" ELSE "more",
                                  !.batch = <<>>, !.seen = Idle.seen, !.attempt = 0]]

(* Mutant: `active` is not reset.                                        *)
MoreStaysActive(c) ==
  /\ thread[c].pc = "more"
  /\ thread' = [thread EXCEPT ![c] =
        IF queue[ServerOf[c]].pending # <<>>
          THEN [Idle EXCEPT !.pc = "next", !.drain = TRUE] ELSE Idle]
  /\ UNCHANGED <<doc, edits, setting, queue, item, told, answer, effects>>

(* The leader's finally block: what arrived meanwhile gets a drain thread. *)
More(c) ==
  LET s == ServerOf[c]
      more == queue[s].pending # <<>>
  IN /\ thread[c].pc = "more"
     /\ queue' = [queue EXCEPT ![s].active = more]
     /\ thread' = [thread EXCEPT ![c] =
                     IF more THEN [Idle EXCEPT !.pc = "next", !.drain = TRUE] ELSE Idle]
     /\ UNCHANGED <<doc, edits, setting, item, told, answer, effects>>

-----------------------------------------------------------------------------
(* _save_batch, one attempt in two steps.  The batch is applied to what    *)
(* was read; if every update raises, or there is no document and nothing   *)
(* to create it from (KeyError), there is nothing to save.                 *)
Read(c) ==
  LET batch == thread[c].batch
      base == Base(doc)
      run == ApplyBatch(base, batch)
  IN /\ thread[c].pc = "read"
     /\ \/ /\ base = NoValue
           /\ FinishAll(batch, "error")
           /\ thread' = AfterBatch(c)
        \/ /\ base # NoValue /\ ~run.applied
           /\ FinishWith(batch, run.outcome)
           /\ thread' = AfterBatch(c)
        \/ /\ base # NoValue /\ run.applied
           /\ thread' = [thread EXCEPT ![c] = [@ EXCEPT !.pc = "write", !.seen = doc]]
           /\ UNCHANGED <<item, told>>
     /\ UNCHANGED <<doc, edits, setting, queue, answer, effects>>

Unchanged(c) == doc.version = thread[c].seen.version

Working(c) == ApplyBatch(Base(thread[c].seen), thread[c].batch)

(* The document is saved, its version moves on.                            *)
Save(c) ==
  LET batch == thread[c].batch
      run == Working(c)
  IN /\ doc' = [value |-> run.working, version |-> doc.version + 1]
     /\ effects' = [k \in Callers |->
           IF k \in ToSet(batch) /\ run.outcome[Turn(batch, k)].how = "ok"
             THEN effects[k] + 1 ELSE effects[k]]

(* Mutant: one attempt too many.                                         *)
LostRaceOnceMore(c) ==
  IF thread[c].attempt <= MaxAttempts
    THEN /\ thread' = [thread EXCEPT ![c] = [@ EXCEPT !.pc = "read", !.seen = Idle.seen,
                                                      !.attempt = thread[c].attempt + 1]]
         /\ UNCHANGED <<item, told>>
    ELSE /\ FinishAll(thread[c].batch, "error")
         /\ thread' = AfterBatch(c)

(* The write is reported as lost to another writer: read again, or give up *)
(* with a ContentionError for everybody in the batch.                      *)
LostRace(c) ==
  IF thread[c].attempt < MaxAttempts
    THEN /\ thread' = [thread EXCEPT ![c] = [@ EXCEPT !.pc = "read", !.seen = Idle.seen,
                                                      !.attempt = thread[c].attempt + 1]]
         /\ UNCHANGED <<item, told>>
    ELSE /\ FinishAll(thread[c].batch, "error")
         /\ thread' = AfterBatch(c)

Write(c) ==
  /\ thread[c].pc = "write"
  /\ \/ /\ Unchanged(c)
        /\ Save(c)
        /\ FinishWith(thread[c].batch, Working(c).outcome)
        /\ thread' = AfterBatch(c)
     \/ /\ ~Unchanged(c)
        /\ LostRace(c)
        /\ UNCHANGED <<doc, effects>>
  /\ UNCHANGED <<edits, setting, queue, answer>>

(* The write is saved and its answer lost.  The HTTP layer repeats it and  *)
(* is told that the precondition does not hold, which set_if_version takes *)
(* for a lost race; or it gives up and the access raises.                  *)
WriteAnswerLost(c) ==
  /\ setting.lossy
  /\ thread[c].pc = "write"
  /\ Unchanged(c)
  /\ Save(c)
  /\ \/ LostRace(c)
     \/ /\ FinishAll(thread[c].batch, "error")
        /\ thread' = AfterBatch(c)
  /\ UNCHANGED <<edits, setting, queue, answer>>

(* An access of the store raises; _process hands the error to everybody.   *)
StoreRaises(c) ==
  /\ "storeError" \in Faults
  /\ thread[c].pc \in {"read", "write"}
  /\ FinishAll(thread[c].batch, "error")
  /\ thread' = AfterBatch(c)
  /\ UNCHANGED <<doc, edits, setting, queue, answer, effects>>

-----------------------------------------------------------------------------
(* The caller is done leading, if it ever was, and waits for its item.     *)
Waiting(c) == answer[c] = "none" /\ (thread[c].pc = "idle" \/ thread[c].drain)

Return(c) ==
  /\ Waiting(c)
  /\ item[c] \in Outcomes
  /\ answer' = [answer EXCEPT ![c] = item[c]]
  /\ UNCHANGED <<doc, edits, setting, queue, thread, item, told, effects>>

(* The caller gives up with a ContentionError; its item stays queued.      *)
TimeOut(c) ==
  /\ "timeout" \in Faults
  /\ Waiting(c)
  /\ item[c] = "queued"
  /\ answer' = [answer EXCEPT ![c] = "error"]
  /\ UNCHANGED <<doc, edits, setting, queue, thread, item, told, effects>>

-----------------------------------------------------------------------------
(* BaseStore.update of a partner's record: the given fields change, the    *)
(* others stay, and the version moves on.                                  *)
FieldUpdate(value) ==
  /\ doc.version > 0 /\ setting.missing = NoValue
  /\ edits < MaxEdits
  /\ doc' = [value |-> value, version |-> doc.version + 1]
  /\ edits' = edits + 1
  /\ UNCHANGED <<setting, queue, thread, item, told, answer, effects>>

(* PATCH /resellers/{id} with a new cap.                                   *)
UpdateReseller ==
  \E cap \in NewCaps : FieldUpdate([doc.value EXCEPT !.max_licence_cap = cap])

(* DELETE /resellers/{id}, which is this step twice: the status, then the  *)
(* token version, fields that adjust_licences_used does not look at.       *)
DeactivateReseller == FieldUpdate(doc.value)

ThreadStep(c) == Take(c) \/ DrainNext(c) \/ More(c) \/ Read(c) \/ Write(c)

CallerStep(c) ==
  \/ Call(c) \/ Return(c) \/ TimeOut(c)
  \/ ThreadStep(c) \/ WriteAnswerLost(c) \/ StoreRaises(c)

Next == (\E c \in Callers : CallerStep(c)) \/ UpdateReseller \/ DeactivateReseller

Spec == Init /\ [][Next]_vars

(* Threads that work on the queue run, in whatever order; that a caller    *)
(* ever looks at its answer is not needed.                                 *)
FairSpec == Spec /\ \A c \in Callers : WF_vars(ThreadStep(c))

-----------------------------------------------------------------------------
(* The type invariant: what update_document and _save_batch keep in their  *)
(* items, queues and local variables.                                      *)
TypeOK ==
  /\ doc \in [value : Account \cup {NoValue}, version : Nat]
  /\ edits \in 0 .. MaxEdits
  /\ setting \in [missing : {Fresh(Missing), NoValue}, lossy : BOOLEAN]
  /\ \A s \in Servers : /\ queue[s].pending \in Seq(Callers)
                        /\ queue[s].active \in BOOLEAN
  /\ \A c \in Callers :
       /\ thread[c].pc \in {"idle", "take", "read", "write", "more", "next"}
       /\ thread[c].drain \in BOOLEAN
       /\ thread[c].batch \in Seq(Callers)
       /\ thread[c].seen \in [value : Account \cup {NoValue}, version : Nat]
       /\ thread[c].attempt \in 0 .. MaxAttempts
       /\ item[c] \in {"new", "queued"} \cup Outcomes
       /\ told[c] \in Account \cup {NoValue}
       /\ answer[c] \in {"none"} \cup Outcomes
       /\ effects[c] \in Nat

(* In each server at most one thread works on the document's queue, and an *)
(* item that waits in the queue has one that will come to it: the flag     *)
(* `active` is handed from leader to drain thread without a gap.           *)
OneDrainerPerServer ==
  \A s \in Servers :
    LET busy == {c \in Callers : ServerOf[c] = s /\ thread[c].pc # "idle"}
    IN /\ \A c, d \in busy : c = d
       /\ queue[s].active <=> busy # {}
       /\ queue[s].pending # <<>> => queue[s].active

(* Every update that is queued gets an outcome, whatever the store does    *)
(* and whoever stops waiting ("always finishes every item").               *)
EveryUpdateFinished == \A c \in Callers : item[c] = "queued" ~> item[c] \in Outcomes

(* No update is saved more often than once ("exactly the result it would   *)
(* have had running alone").                                               *)
AppliedAtMostOnce == \A c \in Callers : effects[c] <= 1

(* A caller that is told of an error has changed nothing ("Nothing was     *)
(* created; please retry"): accept() keeps no record of such a request.    *)
ErrorMeansNotApplied == \A c \in Callers : answer[c] = "error" => effects[c] = 0

(* The batches implement the document that changes in one instant: item by *)
(* item, in the order of the batch, on the value that the save replaces    *)
(* and hence under the cap that is in force at that instant.               *)
Edited(v) == {v} \cup {[v EXCEPT !.max_licence_cap = cap] : cap \in NewCaps}

Document == INSTANCE AtomicDocument WITH
  value  <- Base(doc),
  status <- item,
  lossy  <- setting.lossy

ImplementsAtomicDocument == Document!DocSpec
=============================================================================
