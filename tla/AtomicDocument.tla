--------------------------- MODULE AtomicDocument ---------------------------
(***************************************************************************)
(* What update_document promises the callers that change one document:     *)
(* every update takes effect at one instant between the call and its       *)
(* outcome, on the value that is there at that instant, or not at all; the *)
(* outcome is the value right after it, a refusal that this value          *)
(* justifies, or an error without effect.  Several updates may take effect *)
(* at one instant, one after the other.  Over a connection that loses      *)
(* answers the promise is weaker: updates may take effect and still be     *)
(* pending, hence take effect again.                                       *)
(***************************************************************************)
EXTENDS Naturals, SequencesExt

CONSTANTS
  Callers, NoValue,
  Result(_, _),    \* Result(v, c): the value after c's update of v
  Rejects(_, _),   \* Rejects(v, c): c's update of v raises
  Edited(_)        \* Edited(v): what other writers may make of v

VARIABLES
  value,     \* of the document; NoValue: missing, and not to be created
  status,    \* status[c]: "new", "queued", "ok", "refused" or "error"
  told,      \* told[c]: the value c is told, if its update took effect
  lossy      \* whether answers of the store may be lost

docVars == <<value, status, told, lossy>>

Pending == {c \in Callers : status[c] = "queued"}

(* at[i] is the value after the first i updates of `order`.                *)
Values(order) ==
  LET at[i \in 0 .. Len(order)] ==
        IF i = 0 THEN value
        ELSE IF Rejects(at[i - 1], order[i]) THEN at[i - 1]
        ELSE Result(at[i - 1], order[i])
  IN at

DocInit ==
  /\ status = [c \in Callers |-> "new"]
  /\ told = [c \in Callers |-> NoValue]

Invoke(c) ==
  /\ status[c] = "new"
  /\ status' = [status EXCEPT ![c] = "queued"]
  /\ UNCHANGED <<value, told>>

Commit(order) ==
  LET at == Values(order)
      turn(c) == CHOOSE i \in DOMAIN order : order[i] = c
      rejected(c) == Rejects(at[turn(c) - 1], c)
      group == ToSet(order)
  IN /\ value' = at[Len(order)]
     /\ status' = [c \in Callers |-> IF c \notin group THEN status[c]
                                     ELSE IF rejected(c) THEN "refused" ELSE "ok"]
     /\ told' = [c \in Callers |-> IF c \notin group \/ rejected(c) THEN told[c]
                                   ELSE at[turn(c)]]

(* Whoever shares a failed write fails with it.                            *)
Fail(group) ==
  /\ status' = [c \in Callers |-> IF c \in group THEN "error" ELSE status[c]]
  /\ UNCHANGED <<value, told>>

(* The updates of `order` are saved and the answer is lost: they stay      *)
(* pending, except for a group that is told of an error.                   *)
Echo(order, group) ==
  /\ lossy
  /\ value' = Values(order)[Len(order)]
  /\ status' = [c \in Callers |-> IF c \in group THEN "error" ELSE status[c]]
  /\ UNCHANGED told

(* Somebody else changes other fields of the document.                     *)
Edit ==
  /\ value # NoValue
  /\ value' \in Edited(value)
  /\ UNCHANGED <<status, told>>

DocNext ==
  /\ UNCHANGED lossy
  /\ \/ \E c \in Callers : Invoke(c)
     \/ /\ value # NoValue
        /\ \E order \in SetToAllKPermutations(Pending) :
             Commit(order) \/ \E group \in SUBSET Pending : Echo(order, group)
     \/ \E group \in SUBSET Pending : Fail(group)
     \/ Edit

DocSpec == DocInit /\ [][DocNext]_docVars
=============================================================================
