----------------------------- MODULE DomainLock -----------------------------
(***************************************************************************)
(* The lock of one domain as a document of the versioned store:            *)
(* LockRepository.acquire, renew and release, one store call at a time,    *)
(* over get_versioned, set_if_version and delete_if_version.               *)
(*                                                                         *)
(* A client is one holder-to-be, a provisioning job or a domain action,    *)
(* and its name is its token.  A job's heartbeat thread renews the lock;   *)
(* the job's own thread tells it to stop, without waiting for it, and      *)
(* releases the lock.                                                      *)
(***************************************************************************)
EXTENDS Naturals

CONSTANTS
  Clients,
  Jobs,         \* the clients that have a heartbeat thread
  NoOwner,      \* the token of a document that does not exist
  Unique,       \* TRUE: Firestore, every version is new; FALSE: InMemoryStore,
                \* whose versions start again when a document is deleted
  AnswersLost,  \* may a write be saved although its answer says it was not?
  MaxVersion    \* bound on the renewals in one behaviour

ASSUME ConstantsAssumption ==
  /\ NoOwner \notin Clients
  /\ Jobs \subseteq Clients
  /\ Unique \in BOOLEAN
  /\ AnswersLost \in BOOLEAN
  /\ MaxVersion \in Nat

VARIABLES
  doc,     \* the lock document: token, version; live: expires_at is not over
  clock,   \* the last version the store has given out
  pc,      \* pc[c]: where c's thread is
  seen,    \* seen[c]: the version it read
  beat,    \* beat[c]: where c's heartbeat thread is
  read,    \* read[c]: the version the heartbeat thread read
  cause    \* cause[c]: why acquire() may answer None (history)

vars == <<doc, clock, pc, seen, beat, read, cause>>

-----------------------------------------------------------------------------
Asking == {"try", "look", "again", "over"}
Steps == {"out", "holding", "release", "drop", "refused", "done", "dead"} \cup Asking

Exists == doc.token # NoOwner
Absent == [token |-> NoOwner, live |-> FALSE, version |-> 0]

(* The values of every variable; a heartbeat thread belongs to a job, and  *)
(* goes on beating only while the job's own thread is at work.             *)
TypeOK ==
  /\ doc \in [token: Clients \cup {NoOwner}, live: BOOLEAN, version: Nat]
  /\ clock \in Nat
  /\ pc \in [Clients -> Steps]
  /\ seen \in [Clients -> Nat]
  /\ beat \in [Clients -> {"off", "idle", "save"}]
  /\ read \in [Clients -> Nat]
  /\ cause \in [Clients -> BOOLEAN]
  /\ \A c \in Clients : /\ beat[c] # "off" => c \in Jobs
                        /\ beat[c] = "idle" => pc[c] = "holding"

Init ==
  /\ doc = Absent
  /\ clock = 0
  /\ pc = [c \in Clients |-> "out"]
  /\ seen = [c \in Clients |-> 0]
  /\ beat = [c \in Clients |-> "off"]
  /\ read = [c \in Clients |-> 0]
  /\ cause = [c \in Clients |-> FALSE]

Goto(c, step) == pc' = [pc EXCEPT ![c] = step]

-----------------------------------------------------------------------------
(* Mutant: a version that is counted per document.                         *)
NextVersionPerDocument == doc.version + 1

(* The version of the next write.                                          *)
NextVersion == IF Unique THEN clock + 1 ELSE doc.version + 1

(* A write of c's record that the store accepts.                           *)
Save(c) ==
  /\ doc' = [token |-> c, live |-> TRUE, version |-> NextVersion]
  /\ clock' = NextVersion

(* A compare-and-swap against version v, and one against "does not exist". *)
Matches(v) == Exists /\ doc.version = v

(* acquire() returns its token; a job starts its heartbeat thread.         *)
Won(c) ==
  /\ Save(c)
  /\ Goto(c, "holding")
  /\ beat' = [beat EXCEPT ![c] = IF c \in Jobs THEN "idle" ELSE "off"]
  /\ cause' = [d \in Clients |-> cause[d] \/ (d # c /\ pc[d] \in Asking)]

(* The write is saved, and repeated by the HTTP layer: it conflicts with   *)
(* itself, and the caller is told that somebody else was faster.           *)
WonUnseen(c, step) ==
  /\ AnswersLost
  /\ Save(c)
  /\ Goto(c, step)
  /\ cause' = [d \in Clients |-> cause[d] \/ pc[d] \in Asking]
  /\ UNCHANGED beat

Lost(c, step) ==
  /\ Goto(c, step)
  /\ UNCHANGED <<doc, clock, beat, cause>>

Ask(c) ==
  /\ pc[c] = "out"
  /\ Goto(c, "try")
  /\ cause' = [cause EXCEPT ![c] = Exists]
  /\ UNCHANGED <<doc, clock, seen, beat, read>>

(* The first set_if_version of acquire(): only if there is no document.    *)
Create(c) ==
  /\ pc[c] = "try"
  /\ IF Exists THEN Lost(c, "look") ELSE Won(c) \/ WonUnseen(c, "look")
  /\ UNCHANGED <<seen, read>>

(* Mutant: acquire() does not ask whether the lease has expired.           *)
LookBlindly(c) ==
  /\ pc[c] = "look"
  /\ Goto(c, IF Exists THEN "over" ELSE "again")
  /\ seen' = [seen EXCEPT ![c] = doc.version]
  /\ UNCHANGED <<doc, clock, beat, read, cause>>

(* The document as it is now: gone, held, or with an expired lease.        *)
Look(c) ==
  /\ pc[c] = "look"
  /\ Goto(c, IF ~Exists THEN "again" ELSE IF doc.live THEN "refused" ELSE "over")
  /\ seen' = [seen EXCEPT ![c] = doc.version]
  /\ UNCHANGED <<doc, clock, beat, read, cause>>

Again(c) ==
  /\ pc[c] = "again"
  /\ IF Exists THEN Lost(c, "refused") ELSE Won(c) \/ WonUnseen(c, "refused")
  /\ UNCHANGED <<seen, read>>

TakeOver(c) ==
  /\ pc[c] = "over"
  /\ IF Matches(seen[c]) THEN Won(c) \/ WonUnseen(c, "refused") ELSE Lost(c, "refused")
  /\ UNCHANGED <<seen, read>>

-----------------------------------------------------------------------------
(* renew(), called by the heartbeat thread: read and compare the token ... *)
RenewRead(c) ==
  /\ beat[c] = "idle"
  /\ clock < MaxVersion
  /\ doc.token = c
  /\ beat' = [beat EXCEPT ![c] = "save"]
  /\ read' = [read EXCEPT ![c] = doc.version]
  /\ UNCHANGED <<doc, clock, pc, seen, cause>>

(* ... then write it with a new expires_at, unless it has changed.         *)
RenewSave(c) ==
  /\ beat[c] = "save"
  /\ IF Matches(read[c]) THEN Save(c) ELSE UNCHANGED <<doc, clock>>
  /\ beat' = [beat EXCEPT ![c] = IF pc[c] = "holding" THEN "idle" ELSE "off"]
  /\ UNCHANGED <<pc, seen, read, cause>>

(* Mutant: nothing tells the heartbeat thread to stop.                     *)
StopWithoutSignal(c) ==
  /\ pc[c] = "holding"
  /\ Goto(c, "release")
  /\ UNCHANGED <<doc, clock, seen, beat, read, cause>>

(* The work is over: stop.set(), which a renewal in progress does not see. *)
Stop(c) ==
  /\ pc[c] = "holding"
  /\ Goto(c, "release")
  /\ beat' = [beat EXCEPT ![c] = IF @ = "save" THEN "save" ELSE "off"]
  /\ UNCHANGED <<doc, clock, seen, read, cause>>

(* release(): the token is compared before anything is deleted ...         *)
ReleaseRead(c) ==
  /\ pc[c] = "release"
  /\ Goto(c, IF doc.token = c THEN "drop" ELSE "done")
  /\ seen' = [seen EXCEPT ![c] = doc.version]
  /\ UNCHANGED <<doc, clock, beat, read, cause>>

(* ... and the document is deleted unless it has changed since.            *)
Drop(c) ==
  /\ pc[c] = "drop"
  /\ doc' = IF Matches(seen[c]) THEN Absent ELSE doc
  /\ Goto(c, "done")
  /\ UNCHANGED <<clock, seen, beat, read, cause>>

-----------------------------------------------------------------------------
(* expires_at comes to pass.                                               *)
LeaseEnds ==
  /\ doc.live
  /\ doc' = [doc EXCEPT !.live = FALSE]
  /\ UNCHANGED <<clock, pc, seen, beat, read, cause>>

(* The process dies, with both threads.                                    *)
Crash(c) ==
  /\ pc[c] \notin {"out", "refused", "done", "dead"}
  /\ Goto(c, "dead")
  /\ beat' = [beat EXCEPT ![c] = "off"]
  /\ UNCHANGED <<doc, clock, seen, read, cause>>

Next ==
  \/ \E c \in Clients :
       \/ Ask(c) \/ Create(c) \/ Look(c) \/ Again(c) \/ TakeOver(c)
       \/ RenewRead(c) \/ RenewSave(c) \/ Stop(c) \/ ReleaseRead(c) \/ Drop(c)
       \/ Crash(c)
  \/ LeaseEnds

Spec == Init /\ [][Next]_vars

-----------------------------------------------------------------------------
(* How the clients look from outside.                                      *)
Phase == [c \in Clients |->
  IF pc[c] \in {"out", "holding", "refused"} THEN pc[c]
  ELSE IF pc[c] \in Asking THEN "asking" ELSE "gone"]

Lease == INSTANCE LeaseLock
           WITH owner <- doc.token, live <- doc.live, phase <- Phase

(* The versioned reads and writes amount to a lock with a lease: whatever  *)
(* is read before and written after another client's turn, a live lock is  *)
(* never taken from its owner, neither by a late release nor by a renewal  *)
(* that was under way, and nobody is refused without a cause               *)
(* (LockRepository.acquire, renew, release).  It holds for a store whose   *)
(* versions are unique.                                                    *)
ImplementsLeaseLock == Lease!LeaseSpec

(* Once a job's own thread has deleted its lock, its heartbeat thread does *)
(* not bring it back: a released lock stays released.                      *)
ReleasedForGood ==
  [][\A c \in Clients : pc[c] = "done" /\ doc.token # c => doc'.token # c]_vars
=============================================================================
