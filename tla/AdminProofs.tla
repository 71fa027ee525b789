---------------------------- MODULE AdminProofs ----------------------------
(***************************************************************************)
(* The admin step and its repair, for any number of attempts, clicks and   *)
(* servers, and whatever fails.                                            *)
(***************************************************************************)
EXTENDS AdminProperties, TLAPS, FiniteSetTheorems

Everyone == Threads \cup Marks
Typed == TypeOK /\ pc = [t \in Everyone |-> pc[t]]

Locals == [user: {"none", "plain", "row"}, ok: BOOLEAN, attempts: Nat,
           tries: 0 .. (MakeTries + ConfirmTries)]
Document == [created: {"unset", "yes", "no"}, noUsers: BOOLEAN, finished: BOOLEAN,
             attempts: Nat, byHand: BOOLEAN, byRow: BOOLEAN]

LEMMA Sets ==
  /\ Workers \cap Fixes = {} /\ Workers \cap Marks = {} /\ Fixes \cap Marks = {}
  /\ Workers \subseteq Threads /\ Fixes \subseteq Threads /\ Threads \subseteq Everyone
  /\ MakeTries \in Nat \ {0} /\ ConfirmTries \in Nat \ {0} /\ MaxMishaps \in Nat
BY ConstantsAssumption DEF Threads, Clicks, Everyone

LEMMA Parts ==
  ASSUME Typed
  PROVE  /\ mine \in [Threads -> Locals] /\ doc \in Document /\ user \in User
         /\ mishaps \in 0 .. MaxMishaps
BY DEF Typed, TypeOK, Locals, Document

-----------------------------------------------------------------------------
(* What a step of thread t leaves alone, and what it may do to its locals. *)
ThreadOnly(t) ==
  /\ UNCHANGED <<home, mock>>
  /\ pc' = [u \in Everyone |-> pc'[u]]
  /\ \A u \in Everyone \ {t} : pc'[u] = pc[u]
  /\ mine' \in [Threads -> Locals]
  /\ \A u \in Threads \ {t} : mine'[u] = mine[u]
  /\ mishaps' \in 0 .. MaxMishaps

LEMMA Puts ==
  ASSUME Typed, NEW t \in Threads, NEW g \in Locals, mine' = [mine EXCEPT ![t] = g]
  PROVE  /\ mine' \in [Threads -> Locals] /\ mine'[t] = g
         /\ \A u \in Threads \ {t} : mine'[u] = mine[u]
BY Parts

LEMMA PutsOk ==
  ASSUME Typed, NEW t \in Threads, NEW b \in BOOLEAN, mine' = [mine EXCEPT ![t].ok = b]
  PROVE  /\ mine' \in [Threads -> Locals] /\ mine'[t].ok = b
         /\ \A u \in Threads \ {t} : mine'[u] = mine[u]
<1> DEFINE g == [mine[t] EXCEPT !.ok = b]
<1>1. mine' = [mine EXCEPT ![t] = g]
  BY Parts
<1>2. g \in Locals /\ g.ok = b
  BY Parts DEF Locals
<1> HIDE DEF g
<1> QED BY <1>1, <1>2, Puts

LEMMA PutsTries ==
  ASSUME Typed, NEW t \in Threads, NEW limit \in {MakeTries, ConfirmTries},
         ~LastTry(t, limit), mine' = [mine EXCEPT ![t].tries = @ + 1]
  PROVE  /\ mine' \in [Threads -> Locals] /\ mine'[t].ok = mine[t].ok
         /\ \A u \in Threads \ {t} : mine'[u] = mine[u]
<1> DEFINE g == [mine[t] EXCEPT !.tries = mine[t].tries + 1]
<1>1. mine' = [mine EXCEPT ![t] = g]
  BY Parts
<1>2. mine[t] \in Locals /\ mine[t].tries \in Nat /\ mine[t].tries + 1 < limit
  BY Parts, Sets DEF Locals, LastTry
<1>3. mine[t].tries + 1 \in 0 .. (MakeTries + ConfirmTries)
  BY <1>2, Sets
<1>4. g \in Locals /\ g.ok = mine[t].ok
  BY <1>2, <1>3 DEF Locals
<1> HIDE DEF g
<1> QED BY <1>1, <1>4, Puts

LEMMA Blanked ==
  ASSUME Typed, NEW t \in Threads, Forget(t)
  PROVE  /\ mine' \in [Threads -> Locals] /\ mine'[t].ok = FALSE
         /\ \A u \in Threads \ {t} : mine'[u] = mine[u]
<1>1. Blank \in Locals /\ Blank.ok = FALSE
  BY Sets DEF Blank, Locals
<1> QED BY <1>1, Puts DEF Forget

LEMMA Stays ==
  ASSUME Typed, UNCHANGED mine
  PROVE  mine' \in [Threads -> Locals] /\ \A u \in Threads : mine'[u] = mine[u]
BY Parts

LEMMA Going ==
  ASSUME Typed, NEW t \in Everyone, NEW step, Goto(t, step)
  PROVE  /\ pc' = [u \in Everyone |-> pc'[u]] /\ pc'[t] = step
         /\ \A u \in Everyone \ {t} : pc'[u] = pc[u]
BY DEF Goto, Typed

LEMMA Counted ==
  ASSUME Typed, (\E kind \in FaultKinds : Mishap(kind)) \/ UNCHANGED mishaps
  PROVE  mishaps' \in 0 .. MaxMishaps
BY Parts, Sets DEF Mishap

-----------------------------------------------------------------------------
(* The steps at Google that attempts and repairs share.                    *)
LEMMA Looks ==
  ASSUME Typed, NEW t \in Threads, Look(t)
  PROVE  /\ ThreadOnly(t) /\ UNCHANGED <<user, rows, doc, running, mail, audit>>
         /\ pc[t] = "get" /\ mine'[t].ok = mine[t].ok
         /\ \/ pc'[t] = "existing" /\ t \in Workers /\ user.shown
            \/ pc'[t] = "password" /\ t \notin Workers /\ user.shown
            \/ pc'[t] \in {"make", "create"}
            \/ pc'[t] = IF t \in Workers THEN "report" ELSE "failed"
<1>1. mishaps' \in 0 .. MaxMishaps
  BY Counted DEF Look, Fine, FaultKinds
<1>2. /\ mine' \in [Threads -> Locals] /\ mine'[t].ok = mine[t].ok
      /\ \A u \in Threads \ {t} : mine'[u] = mine[u]
  <2>1. CASE UNCHANGED mine
    BY <2>1, Stays
  <2>2. CASE mine' = [mine EXCEPT ![t].user = "plain"]
    <3> DEFINE g == [mine[t] EXCEPT !.user = "plain"]
    <3>1. mine' = [mine EXCEPT ![t] = g]
      BY <2>2, Parts
    <3>2. g \in Locals /\ g.ok = mine[t].ok
      BY Parts DEF Locals
    <3> HIDE DEF g
    <3> QED BY <3>1, <3>2, Puts
  <2> QED BY <2>1, <2>2 DEF Look
<1> QED BY <1>1, <1>2, Going, Sets DEF Look, Fails, ThreadOnly

Appears ==
  /\ ~user.exists
  /\ user' \in User /\ user'.exists /\ ~user'.admin /\ ~user'.shown

LEMMA CreatedAppears ==
  ASSUME NEW t, Created(t)
  PROVE  Appears
<1>1. PICK seen \in BOOLEAN : user' = [NoUser EXCEPT !.exists = TRUE, !.seen = seen]
  BY DEF Created
<1> DEFINE g == [NoUser EXCEPT !.exists = TRUE, !.seen = seen]
<1>2. g \in User /\ g.exists /\ ~g.admin /\ ~g.shown
  BY DEF NoUser, User
<1>3. user' = g /\ ~user.exists
  BY <1>1 DEF Created
<1> HIDE DEF g
<1> QED BY <1>2, <1>3 DEF Appears

LEMMA Creates ==
  ASSUME Typed, NEW t \in Threads, Create(t)
  PROVE  /\ ThreadOnly(t) /\ UNCHANGED <<rows, doc, running, mail, audit>>
         /\ pc[t] = "create"
         /\ user' = user \/ Appears
         /\ \/ /\ pc'[t] = (IF t \in Workers THEN "provisioned" ELSE "make")
               /\ user'.exists /\ mine'[t].ok = mine[t].ok
            \/ pc'[t] = "report" /\ t \in Workers /\ user'.exists /\ mock
            \/ /\ pc'[t] \in {"report", "failed"} /\ (t \notin Workers => pc'[t] = "failed")
               /\ mine'[t].ok = mine[t].ok
<1>1. mishaps' \in 0 .. MaxMishaps
  BY Counted DEF Create, Fine, FaultKinds
<1>2. CASE Created(t) /\ UNCHANGED mine
           /\ Goto(t, IF t \in Workers THEN "provisioned" ELSE "make")
  BY <1>1, <1>2, Stays, CreatedAppears, Going, Sets DEF Create, Appears, ThreadOnly
<1>3. CASE ((user.exists /\ UNCHANGED user) \/ Created(t)) /\ Duplicate(t)
  <2>1. user'.exists /\ (user' = user \/ Appears)
    BY <1>3, CreatedAppears DEF Appears
  <2>2. CASE TakenForExisting(t)
    BY <1>1, <1>3, <2>1, <2>2, PutsOk, Going, Sets
       DEF Create, Duplicate, TakenForExisting, ThreadOnly
  <2>3. CASE ~TakenForExisting(t)
    BY <1>1, <1>3, <2>1, <2>3, Stays, Going, Sets
       DEF Create, Duplicate, Fails, ThreadOnly
  <2> QED BY <2>2, <2>3
<1>4. CASE Fails(t) /\ UNCHANGED <<user, mine>>
  BY <1>1, <1>4, Stays, Going, Sets DEF Create, Fails, ThreadOnly
<1> QED BY <1>2, <1>3, <1>4 DEF Create

LEMMA Promotes ==
  ASSUME Typed, NEW t \in Threads, MakeAdmin(t)
  PROVE  /\ ThreadOnly(t) /\ UNCHANGED <<rows, doc, running, mail, audit>>
         /\ pc[t] = "make"
         /\ user' = user \/ (user.seen /\ user' = Promoted)
         /\ \/ pc'[t] = "confirm" /\ t \notin Workers
            \/ pc'[t] \in {"existing", "report"} /\ t \in Workers /\ user'.admin
            \/ pc'[t] = "make" /\ mine'[t].ok = mine[t].ok
            \/ /\ pc'[t] \in {"report", "failed"} /\ (t \notin Workers => pc'[t] = "failed")
               /\ mine'[t].ok = mine[t].ok
<1>1. mishaps' \in 0 .. MaxMishaps
  BY Counted DEF MakeAdmin, Fine, FaultKinds
<1>2. Promoted.admin = TRUE
  BY Parts DEF Promoted, User
<1>3. CASE user.seen /\ user' = Promoted
           /\ mine' = [mine EXCEPT ![t].ok = TRUE, ![t].tries = 0, ![t].user = "none"]
           /\ Goto(t, IF t \in Fixes THEN "confirm"
                      ELSE IF mine[t].user = "plain" THEN "existing" ELSE "report")
  <2> DEFINE g == [mine[t] EXCEPT !.ok = TRUE, !.tries = 0, !.user = "none"]
  <2>1. mine' = [mine EXCEPT ![t] = g]
    BY <1>3, Parts
  <2>2. g \in Locals
    <3>1. mine[t] \in Locals /\ 0 \in 0 .. (MakeTries + ConfirmTries)
      BY Parts, Sets
    <3> QED BY <3>1 DEF Locals
  <2> HIDE DEF g
  <2>3. /\ mine' \in [Threads -> Locals]
        /\ \A u \in Threads \ {t} : mine'[u] = mine[u]
    BY <2>1, <2>2, Puts
  <2> QED BY <1>1, <1>2, <1>3, <2>3, Going, Sets DEF MakeAdmin, Threads, ThreadOnly
<1>4. CASE UNCHANGED <<user, pc>> /\ ~LastTry(t, MakeTries)
           /\ mine' = [mine EXCEPT ![t].tries = @ + 1]
  BY <1>1, <1>4, PutsTries DEF MakeAdmin, Typed, ThreadOnly
<1>5. CASE Fails(t) /\ UNCHANGED mine
  BY <1>1, <1>5, Stays, Going, Sets DEF MakeAdmin, Fails, ThreadOnly
<1> QED BY <1>3, <1>4, <1>5 DEF MakeAdmin

-----------------------------------------------------------------------------
(* What one step of a worker, and of a repair, may do.                     *)
Provisioned == \E r \in rows : r.status = "PROVISIONED"
HasPassword == \E r \in rows : r.password
Early == {"idle", "row", "get", "create", "provisioned", "make", "failed"}

UserMoves == user' = user \/ Appears \/ (user.seen /\ user' = Promoted)

WorkerDoc(w) ==
  \/ doc' = doc
  \/ /\ pc[w] = "report" /\ doc' \in Document
     /\ doc'.created = (IF mine[w].ok THEN "yes" ELSE "no") /\ doc'.finished = doc.finished
     /\ doc'.byHand = doc.byHand /\ doc'.attempts = doc.attempts /\ pc'[w] = "mail"
     /\ doc'.byRow = (mine[w].user = "row")
  \/ /\ pc[w] = "finish" /\ pc'[w] = "done" /\ doc' \in Document
     /\ doc'.created = doc.created /\ doc'.finished
     /\ doc'.byHand = doc.byHand /\ doc'.attempts = doc.attempts /\ doc'.byRow = doc.byRow

WorkerRows(w) ==
  \/ rows' = rows
  \/ pc[w] = "provisioned" /\ rows' = rows \cup {[status |-> "PROVISIONED", password |-> TRUE]}
  \/ \E status \in {"EXISTING", "FAILED"} :
       rows' = rows \cup {[status |-> status, password |-> FALSE]}

WorkerGoes(w) ==
  /\ pc'[w] = "dead" => pc[w] # "dead"
  /\ pc'[w] = "provisioned" => user'.exists
  /\ pc'[w] = "existing" => user'.admin \/ user.shown
  /\ pc'[w] = "report" => \/ mine'[w].ok = FALSE
                          \/ pc[w] \in Early /\ mine'[w].ok = mine[w].ok
                          \/ user'.exists /\ mock
                          \/ user'.admin \/ user.shown
                          \/ pc[w] = "existing"
                          \/ pc[w] = "row" /\ Provisioned /\ mine'[w].user = "row"
  /\ pc'[w] \in Early => pc[w] \in Early /\ mine'[w].ok = mine[w].ok

WorkerEffect(w) ==
  /\ ThreadOnly(w) /\ UNCHANGED <<running, audit>>
  /\ UserMoves /\ WorkerDoc(w) /\ WorkerRows(w) /\ WorkerGoes(w)
  /\ pc[w] \in WorkerSteps /\ pc'[w] \in WorkerSteps \cup {"done"}
  /\ mail' \in {mail, "intended"} \/ (mail' = "credentials" /\ HasPassword)

LEMMA WorkerEffects ==
  ASSUME Typed, NEW w \in Workers, WorkerStep(w)
  PROVE  WorkerEffect(w)
<1> w \in Threads /\ w \in Everyone
  BY Sets
<1> USE DEF WorkerEffect, WorkerSteps
<1>1. CASE Look(w)
  BY <1>1, Looks DEF UserMoves, WorkerDoc, WorkerRows, WorkerGoes, Early
<1>2. CASE Create(w)
  BY <1>2, Creates DEF UserMoves, WorkerDoc, WorkerRows, WorkerGoes, Early
<1>3. CASE MakeAdmin(w)
  BY <1>3, Promotes DEF UserMoves, WorkerDoc, WorkerRows, WorkerGoes, Early
<1>4. CASE LookUpRow(w)
  <2>1. /\ mine' \in [Threads -> Locals] /\ \A u \in Threads \ {w} : mine'[u] = mine[u]
        /\ pc'[w] = "get" => mine'[w].ok = mine[w].ok
        /\ pc'[w] = "report" => mine'[w].user = "row"
    <3>1. CASE Goto(w, "report") /\ mine' = [mine EXCEPT ![w].ok = TRUE, ![w].user = "row"]
      <4> DEFINE g == [mine[w] EXCEPT !.ok = TRUE, !.user = "row"]
      <4>1. mine' = [mine EXCEPT ![w] = g]
        BY <3>1, Parts
      <4>2. g \in Locals /\ g.user = "row"
        BY Parts DEF Locals
      <4> HIDE DEF g
      <4>3. pc'[w] # "get" /\ pc'[w] = "report"
        BY <3>1, Going
      <4> QED BY <4>1, <4>2, <4>3, Puts
    <3>2. CASE Goto(w, "get") /\ UNCHANGED mine
      <4>1. pc'[w] # "report"
        BY <3>2, Going
      <4> QED BY <3>2, <4>1, Stays
    <3> QED BY <1>4, <3>1, <3>2 DEF LookUpRow
  <2>2. mishaps' \in 0 .. MaxMishaps
    BY <1>4, Counted DEF LookUpRow, Fine, FaultKinds
  <2> QED BY <1>4, <2>1, <2>2, Going, Parts
     DEF LookUpRow, ThreadOnly, UserMoves, WorkerDoc, WorkerRows, WorkerGoes, Early, Provisioned
<1>5. CASE SaveProvisioned(w)
  BY <1>5, Stays, Going, Parts
     DEF SaveProvisioned, AddRow, ThreadOnly, UserMoves, WorkerDoc, WorkerRows, WorkerGoes, Early
<1>6. CASE SaveExisting(w)
  <2>1. /\ mine' \in [Threads -> Locals] /\ mine'[w].ok = TRUE
        /\ \A u \in Threads \ {w} : mine'[u] = mine[u]
    BY <1>6, PutsOk DEF SaveExisting
  <2> QED BY <1>6, <2>1, Going, Parts
     DEF SaveExisting, AddRow, ThreadOnly, UserMoves, WorkerDoc, WorkerRows, WorkerGoes, Early
<1>7. CASE SaveFailed(w)
  <2>1. /\ mine' \in [Threads -> Locals] /\ mine'[w].ok = FALSE
        /\ \A u \in Threads \ {w} : mine'[u] = mine[u]
    BY <1>7, PutsOk DEF SaveFailed
  <2>2. pc[w] = "failed" /\ pc'[w] = "report" /\ WorkerRows(w)
    BY <1>7, Going DEF SaveFailed, AddRow, WorkerRows
  <2> QED BY <1>7, <2>1, <2>2, Going, Parts
          DEF SaveFailed, ThreadOnly, UserMoves, WorkerDoc, WorkerGoes, Early
<1>8. CASE Report(w)
  <2> DEFINE g == [doc EXCEPT !.created = IF mine[w].ok THEN "yes" ELSE "no",
                              !.noUsers = ~mine[w].ok,
                              !.byRow = mine[w].user = "row"]
  <2>1. /\ g \in Document /\ g.created = (IF mine[w].ok THEN "yes" ELSE "no")
        /\ g.finished = doc.finished /\ g.byHand = doc.byHand /\ g.attempts = doc.attempts
        /\ g.byRow = (mine[w].user = "row")
    BY Parts DEF Document, Locals
  <2>2. doc' = g
    BY <1>8 DEF Report
  <2> HIDE DEF g
  <2>3. WorkerDoc(w)
    BY <1>8, <2>1, <2>2, Going DEF Report, WorkerDoc
  <2>4. /\ mine' \in [Threads -> Locals]
        /\ \A u \in Threads \ {w} : mine'[u] = mine[u]
    BY <1>8, Blanked DEF Report
  <2> QED BY <1>8, <2>3, <2>4, Going, Parts
          DEF Report, ThreadOnly, UserMoves, WorkerRows, WorkerGoes, Early
<1>9. CASE Mail(w)
  BY <1>9, Stays, Going, Counted
     DEF Mail, Fine, FaultKinds, ThreadOnly, UserMoves, WorkerDoc, WorkerRows, WorkerGoes, Early,
         HasPassword
<1>10. CASE Finish(w)
  <2> DEFINE g == [doc EXCEPT !.finished = TRUE]
  <2>1. /\ g \in Document /\ g.created = doc.created /\ g.finished
        /\ g.byHand = doc.byHand /\ g.attempts = doc.attempts /\ g.byRow = doc.byRow
    BY Parts DEF Document
  <2>2. doc' = g
    BY <1>10 DEF Finish
  <2> HIDE DEF g
  <2>3. WorkerDoc(w)
    BY <1>10, <2>1, <2>2, Going DEF Finish, WorkerDoc
  <2> QED BY <1>10, <2>3, Stays, Going, Parts
          DEF Finish, ThreadOnly, UserMoves, WorkerRows, WorkerGoes, Early
<1>11. CASE RowRaises(w)
  <2>1. mishaps' \in 0 .. MaxMishaps
    BY <1>11, Counted DEF RowRaises, FaultKinds
  <2>2. CASE pc[w] = "provisioned" /\ Goto(w, "failed") /\ UNCHANGED mine
    BY <1>11, <2>1, <2>2, Stays, Going, Parts
       DEF RowRaises, ThreadOnly, UserMoves, WorkerDoc, WorkerRows, WorkerGoes, Early
  <2>3. CASE /\ pc[w] \in {"existing", "failed"} /\ Goto(w, "report")
             /\ mine' = [mine EXCEPT ![w].ok = FALSE]
    <3>1. /\ mine' \in [Threads -> Locals] /\ mine'[w].ok = FALSE
          /\ \A u \in Threads \ {w} : mine'[u] = mine[u]
      BY <2>3, PutsOk
    <3>2. pc'[w] = "report"
      BY <2>3, Going
    <3> QED BY <1>11, <2>1, <2>3, <3>1, <3>2, Going
            DEF RowRaises, ThreadOnly, UserMoves, WorkerDoc, WorkerRows, WorkerGoes, Early
  <2> QED BY <1>11, <2>2, <2>3 DEF RowRaises
<1>12. CASE ReportRefused(w)
  <2>1. mishaps' \in 0 .. MaxMishaps
    BY <1>12, Counted DEF ReportRefused, FaultKinds
  <2>2. /\ mine' \in [Threads -> Locals]
        /\ \A u \in Threads \ {w} : mine'[u] = mine[u]
    BY <1>12, Blanked DEF ReportRefused
  <2> QED BY <1>12, <2>1, <2>2, Going, Parts
          DEF ReportRefused, ThreadOnly, UserMoves, WorkerDoc, WorkerRows, WorkerGoes, Early
<1> QED BY <1>1, <1>2, <1>3, <1>4, <1>5, <1>6, <1>7, <1>8, <1>9, <1>10, <1>11, <1>12
        DEF WorkerStep

(* A repair between its guard and the release of it.                       *)
Guarded == FixSteps \ {"guard", "audit"}

FixDoc(f) ==
  \/ doc' = doc
  \/ /\ pc[f] \in {"fixed", "failed"} /\ doc' \in Document
     /\ \/ doc'.created = doc.created /\ doc'.byRow = doc.byRow
        \/ doc'.created = "yes" /\ pc[f] = "fixed"
     /\ doc'.finished = doc.finished /\ doc'.byHand = doc.byHand
     /\ doc'.attempts > 0

FixGuard(f) ==
  \/ UNCHANGED running /\ (pc[f] \in Guarded <=> pc'[f] \in Guarded)
  \/ /\ pc[f] = "guard" /\ ~running[home[f]] /\ pc'[f] = "get"
     /\ running' = [running EXCEPT ![home[f]] = TRUE]
  \/ /\ pc[f] = "release" /\ pc'[f] \in {"audit", "done"}
     /\ running' = [running EXCEPT ![home[f]] = FALSE]

FixGoes(f) ==
  /\ pc'[f] = "password" => user.shown
  /\ pc'[f] = "fixed" => pc[f] = "password"
  /\ pc'[f] = "release" => mine'[f].ok = FALSE \/ pc[f] = "fixed"
  /\ pc'[f] = "audit" => pc[f] = "release" /\ mine[f].ok
  /\ audit' = audit \/ (pc[f] = "audit" /\ audit' = audit \cup {"repaired"})
  /\ \/ rows' = rows
     \/ pc[f] = "password" /\ rows' = rows \cup {[status |-> "PROVISIONED", password |-> TRUE]}

FixEffect(f) ==
  /\ ThreadOnly(f) /\ UNCHANGED mail
  /\ UserMoves /\ FixDoc(f) /\ FixGuard(f) /\ FixGoes(f)
  /\ pc[f] \in FixSteps /\ pc'[f] \in FixSteps \cup {"done"}

LEMMA DocCounts ==
  ASSUME Typed, NEW f \in Fixes, NEW g,
         \/ g = [doc EXCEPT !.attempts = mine[f].attempts + 1]
         \/ g = [doc EXCEPT !.created = "yes", !.noUsers = FALSE, !.byRow = FALSE,
                            !.attempts = mine[f].attempts + 1]
  PROVE  /\ g \in Document /\ g.attempts > 0
         /\ g.finished = doc.finished /\ g.byHand = doc.byHand
         /\ g.created = "yes" \/ (g.created = doc.created /\ g.byRow = doc.byRow)
<1> DEFINE n == mine[f].attempts + 1
<1>1. mine[f].attempts \in Nat
  BY Parts, Sets DEF Locals
<1>2. n \in Nat /\ n > 0 /\ doc \in Document
  BY <1>1, Parts
<1>3. \/ g = [doc EXCEPT !.attempts = n]
      \/ g = [doc EXCEPT !.created = "yes", !.noUsers = FALSE, !.byRow = FALSE, !.attempts = n]
  OBVIOUS
<1> HIDE DEF n
<1>4. CASE g = [doc EXCEPT !.attempts = n]
  BY <1>2, <1>4 DEF Document
<1>5. CASE g = [doc EXCEPT !.created = "yes", !.noUsers = FALSE, !.byRow = FALSE, !.attempts = n]
  BY <1>2, <1>5 DEF Document
<1> QED BY <1>3, <1>4, <1>5

LEMMA DocKept ==
  ASSUME Typed, NEW n
  PROVE  LET g == [doc EXCEPT !.attempts = n] IN
           g.created = doc.created /\ g.byRow = doc.byRow
BY Parts DEF Document

LEMMA FixEffects ==
  ASSUME Typed, NEW f \in Fixes, FixStep(f)
  PROVE  FixEffect(f)
<1> f \in Threads /\ f \in Everyone /\ f \notin Workers
  BY Sets
<1> USE DEF FixEffect, FixSteps, Guarded, UserMoves
<1>1. CASE Look(f)
  BY <1>1, Looks DEF FixDoc, FixGuard, FixGoes
<1>2. CASE Create(f)
  BY <1>2, Creates DEF FixDoc, FixGuard, FixGoes
<1>3. CASE MakeAdmin(f)
  BY <1>3, Promotes DEF FixDoc, FixGuard, FixGoes
<1>4. CASE Guard(f)
  <2>1. /\ mine' \in [Threads -> Locals]
        /\ \A u \in Threads \ {f} : mine'[u] = mine[u]
    BY <1>4, Blanked, Stays DEF Guard
  <2> QED BY <1>4, <2>1, Going, Parts DEF Guard, ThreadOnly, FixDoc, FixGuard, FixGoes
<1>5. CASE Confirm(f)
  <2>1. /\ mine' \in [Threads -> Locals]
        /\ \A u \in Threads \ {f} : mine'[u] = mine[u]
    BY <1>5, PutsTries, Stays DEF Confirm
  <2>2. mishaps' \in 0 .. MaxMishaps
    BY <1>5, Counted DEF Confirm, Fine, FaultKinds
  <2>3. pc' = [u \in Everyone |-> pc'[u]] /\ \A u \in Everyone \ {f} : pc'[u] = pc[u]
    BY <1>5, Going DEF Confirm, Fails, Typed
  <2>4. pc'[f] \in {"confirm", "failed"} \/ (pc'[f] = "password" /\ user.shown)
    BY <1>5, Going DEF Confirm, Fails
  <2> QED BY <1>5, <2>1, <2>2, <2>3, <2>4 DEF Confirm, ThreadOnly, FixDoc, FixGuard, FixGoes
<1>6. CASE SavePassword(f)
  <2>1. mishaps' \in 0 .. MaxMishaps
    BY <1>6, Counted DEF SavePassword, Fine, FaultKinds
  <2> QED BY <1>6, <2>1, Stays, Going, Parts
          DEF SavePassword, AddRow, ThreadOnly, FixDoc, FixGuard, FixGoes
<1>7. CASE WriteFixed(f)
  <2>1. /\ mine' \in [Threads -> Locals]
        /\ \A u \in Threads \ {f} : mine'[u] = mine[u]
    BY <1>7, PutsOk DEF WriteFixed
  <2>2. /\ doc' \in Document /\ doc'.attempts > 0 /\ doc'.byHand = doc.byHand
        /\ doc'.created = "yes" \/ (doc'.created = doc.created /\ doc'.byRow = doc.byRow)
        /\ doc'.finished = doc.finished
    <3> DEFINE g == [doc EXCEPT !.created = "yes", !.noUsers = FALSE, !.byRow = FALSE,
                                !.attempts = mine[f].attempts + 1]
    <3>1. doc' = g
      BY <1>7 DEF WriteFixed
    <3>2. /\ g \in Document /\ g.attempts > 0 /\ g.byHand = doc.byHand
          /\ g.created = "yes" \/ (g.created = doc.created /\ g.byRow = doc.byRow)
          /\ g.finished = doc.finished
      BY DocCounts
    <3> HIDE DEF g
    <3> QED BY <3>1, <3>2
  <2>3. FixDoc(f)
    BY <1>7, <2>2 DEF WriteFixed, FixDoc
  <2> QED BY <1>7, <2>1, <2>2, <2>3, Going, Parts DEF WriteFixed, ThreadOnly, FixGuard, FixGoes
<1>8. CASE WriteFailed(f)
  <2>1. /\ mine' \in [Threads -> Locals] /\ mine'[f].ok = FALSE
        /\ \A u \in Threads \ {f} : mine'[u] = mine[u]
    BY <1>8, PutsOk DEF WriteFailed
  <2>2. FixDoc(f) /\ doc'.attempts > 0
    <3> DEFINE g == [doc EXCEPT !.attempts = mine[f].attempts + 1]
    <3>1. doc' = g
      BY <1>8 DEF WriteFailed
    <3>2. /\ g \in Document /\ g.attempts > 0 /\ g.byHand = doc.byHand
          /\ g.created = doc.created /\ g.byRow = doc.byRow /\ g.finished = doc.finished
      BY DocCounts, DocKept
    <3> HIDE DEF g
    <3> QED BY <1>8, <3>1, <3>2 DEF WriteFailed, FixDoc
  <2> QED BY <1>8, <2>1, <2>2, Going, Parts DEF WriteFailed, ThreadOnly, FixGuard, FixGoes
<1>9. CASE Release(f)
  <2>1. /\ mine' \in [Threads -> Locals]
        /\ \A u \in Threads \ {f} : mine'[u] = mine[u]
    BY <1>9, Blanked DEF Release
  <2> QED BY <1>9, <2>1, Going, Parts DEF Release, ThreadOnly, FixDoc, FixGuard, FixGoes
<1>10. CASE AuditFix(f)
  <2>1. /\ mine' \in [Threads -> Locals]
        /\ \A u \in Threads \ {f} : mine'[u] = mine[u]
    BY <1>10, Blanked DEF AuditFix
  <2>2. mishaps' \in 0 .. MaxMishaps
    BY <1>10, Counted DEF AuditFix, Fine, FaultKinds
  <2> QED BY <1>10, <2>1, <2>2, Going, Parts DEF AuditFix, ThreadOnly, FixDoc, FixGuard, FixGoes
<1>11. CASE WriteLost(f)
  <2>1. PICK ok \in BOOLEAN : /\ ok => pc[f] = "fixed"
                              /\ mine' = [mine EXCEPT ![f].ok = ok]
    BY <1>11 DEF WriteLost
  <2>2. /\ mine' \in [Threads -> Locals] /\ mine'[f].ok = ok
        /\ \A u \in Threads \ {f} : mine'[u] = mine[u]
    BY <2>1, PutsOk
  <2>3. mine'[f].ok = FALSE \/ pc[f] = "fixed"
    BY <2>1, <2>2
  <2>4. mishaps' \in 0 .. MaxMishaps
    BY <1>11, Counted DEF WriteLost, FaultKinds
  <2> QED BY <1>11, <2>2, <2>3, <2>4, Going, Parts
          DEF WriteLost, ThreadOnly, FixDoc, FixGuard, FixGoes
<1> QED BY <1>1, <1>2, <1>3, <1>4, <1>5, <1>6, <1>7, <1>8, <1>9, <1>10, <1>11 DEF FixStep

-----------------------------------------------------------------------------
(* The remaining steps.                                                    *)
StartEffect(w) ==
  /\ ThreadOnly(w) /\ UNCHANGED <<user, rows, doc, running, mail, audit, mine>>
  /\ pc[w] = "idle" /\ pc'[w] = "row" /\ ~doc.finished
  /\ \A v \in Workers : pc[v] \in {"idle", "dead"}

DeathEffect(w) ==
  /\ ThreadOnly(w) /\ UNCHANGED <<user, rows, doc, running, mail, audit>>
  /\ pc[w] \in WorkerSteps /\ pc'[w] = "dead"

ClickEffect(c) ==
  /\ ThreadOnly(c) /\ UNCHANGED <<user, rows, doc, running, mail, audit>>
  /\ OnTheList
  /\ pc[c] = "idle" /\ pc'[c] = (IF c \in Fixes THEN "guard" ELSE "mark")

MarkEffect(m) ==
  /\ ThreadOnly(m) /\ UNCHANGED <<user, rows, running, mail>>
  /\ pc[m] = "mark" /\ pc'[m] = "done"
  /\ \/ doc' = doc
     \/ /\ doc' \in Document /\ doc'.byHand /\ doc'.created = "yes"
        /\ doc'.finished = doc.finished /\ doc'.attempts = doc.attempts
  /\ audit' \in {audit, audit \cup {"handled"}}

ServerEffect(s) ==
  /\ UNCHANGED <<home, mock, user, rows, doc, mail, audit>>
  /\ mine' \in [Threads -> Locals] /\ mishaps' \in 0 .. MaxMishaps
  /\ pc' = [t \in Everyone |-> pc'[t]]
  /\ \A w \in Workers : pc'[w] = pc[w] /\ (pc[w] # "dead" => mine'[w] = mine[w])
  /\ \A m \in Marks : pc'[m] = pc[m]
  /\ \A f \in Fixes : IF home[f] = s /\ pc[f] \in FixSteps THEN pc'[f] = "dead"
                      ELSE pc'[f] = pc[f] /\ (pc[f] # "dead" => mine'[f] = mine[f])
  /\ running' = [running EXCEPT ![s] = FALSE]

GoogleEffect ==
  /\ UNCHANGED <<home, mock, rows, doc, running, pc, mine, mail, audit, mishaps>>
  /\ user' \in {[user EXCEPT !.seen = TRUE, !.shown = user.admin], AdminUser} /\ user' # user
  /\ user.exists \/ user' = AdminUser

Effect ==
  \/ \E w \in Workers : StartEffect(w) \/ WorkerEffect(w) \/ DeathEffect(w)
  \/ \E f \in Fixes : FixEffect(f)
  \/ \E c \in Clicks : ClickEffect(c)
  \/ \E m \in Marks : MarkEffect(m)
  \/ \E s \in Servers : ServerEffect(s)
  \/ GoogleEffect

LEMMA Effects ==
  ASSUME Typed, Next
  PROVE  Effect
<1>1. ASSUME NEW w \in Workers, WorkerStarts(w) PROVE StartEffect(w)
  BY <1>1, Going, Stays, Sets, Parts DEF WorkerStarts, StartEffect, ThreadOnly
<1>2. ASSUME NEW w \in Workers, WorkerDies(w) PROVE DeathEffect(w)
  <2>1. /\ mine' \in [Threads -> Locals]
        /\ \A u \in Threads \ {w} : mine'[u] = mine[u]
    BY <1>2, Blanked, Sets DEF WorkerDies
  <2>2. mishaps' \in 0 .. MaxMishaps
    BY <1>2, Counted DEF WorkerDies, FaultKinds
  <2> QED BY <1>2, <2>1, <2>2, Going, Sets DEF WorkerDies, DeathEffect, ThreadOnly
<1>3. ASSUME NEW c \in Clicks, Click(c) PROVE ClickEffect(c)
  <2>1. c \in Everyone /\ (c \in Fixes => c \in Threads)
    BY Sets DEF Clicks, Everyone, Threads
  <2>2. /\ mine' \in [Threads -> Locals]
        /\ \A u \in Threads \ {c} : mine'[u] = mine[u]
    <3>1. CASE c \in Fixes
      <4> DEFINE g == [mine[c] EXCEPT !.attempts = doc.attempts]
      <4>1. mine' = [mine EXCEPT ![c] = g]
        BY <1>3, <3>1, <2>1, Parts DEF Click
      <4>2. g \in Locals
        BY <3>1, <2>1, Parts DEF Locals, Document
      <4> HIDE DEF g
      <4> QED BY <2>1, <3>1, <4>1, <4>2, Puts
    <3>2. CASE c \notin Fixes
      BY <1>3, <3>2, Stays DEF Click
    <3> QED BY <3>1, <3>2
  <2>3. /\ pc' = [u \in Everyone |-> pc'[u]]
        /\ \A u \in Everyone \ {c} : pc'[u] = pc[u]
        /\ pc'[c] = (IF c \in Fixes THEN "guard" ELSE "mark")
    BY <1>3, <2>1, Going DEF Click
  <2> QED BY <1>3, <2>2, <2>3, Parts DEF Click, ClickEffect, ThreadOnly
<1>4. ASSUME NEW m \in Marks, MarkHandled(m) \/ MarkLost(m) PROVE MarkEffect(m)
  <2> DEFINE g == [doc EXCEPT !.created = "yes", !.byHand = TRUE]
  <2>1. /\ g \in Document /\ g.byHand /\ g.created = "yes"
        /\ g.finished = doc.finished /\ g.attempts = doc.attempts
    BY Parts DEF Document
  <2>2. doc' \in {doc, g}
    BY <1>4 DEF MarkHandled, MarkLost, Handled
  <2> HIDE DEF g
  <2>3. m \in Everyone
    BY DEF Everyone
  <2>4. mishaps' \in 0 .. MaxMishaps
    BY <1>4, Counted DEF MarkHandled, MarkLost, FaultKinds
  <2>5. Goto(m, "done") /\ audit' \in {audit, audit \cup {"handled"}}
    BY <1>4 DEF MarkHandled, MarkLost
  <2> QED BY <1>4, <2>1, <2>2, <2>3, <2>4, <2>5, Going, Stays
          DEF MarkHandled, MarkLost, MarkEffect, ThreadOnly
<1>5. ASSUME NEW s \in Servers, ServerDies(s) PROVE ServerEffect(s)
  <2>1. DOMAIN pc = Everyone
    BY DEF Typed
  <2>2. Blank \in Locals
    BY Sets DEF Blank, Locals
  <2>3. mishaps' \in 0 .. MaxMishaps
    BY <1>5, Counted DEF ServerDies, FaultKinds
  <2>4. \A t \in Everyone :
          pc'[t] = IF t \in Fixes /\ home[t] = s /\ pc[t] \in FixSteps THEN "dead" ELSE pc[t]
    BY <1>5, <2>1 DEF ServerDies
  <2>5. pc' = [t \in Everyone |-> pc'[t]]
    BY <1>5, <2>1 DEF ServerDies
  <2>6. \A t \in Threads : mine'[t] = IF pc'[t] = "dead" THEN Blank ELSE mine[t]
    BY <1>5 DEF ServerDies
  <2>7. mine' \in [Threads -> Locals]
    BY <1>5, <2>2, Parts DEF ServerDies
  <2>8. \A u \in Workers \cup Marks : u \in Everyone /\ u \notin Fixes
    BY Sets DEF Everyone
  <2> QED BY <1>5, <2>3, <2>4, <2>5, <2>6, <2>7, <2>8, Sets DEF ServerDies, ServerEffect
<1>6. ASSUME Propagates \/ FixedByHand PROVE GoogleEffect
  BY <1>6 DEF Propagates, FixedByHand, GoogleEffect
<1> QED BY <1>1, <1>2, <1>3, <1>4, <1>5, <1>6, WorkerEffects, FixEffects DEF Next, Effect

-----------------------------------------------------------------------------
(* Google forgets nothing, and shows nothing that is not so.               *)
UserInv ==
  /\ user.shown => user.admin
  /\ user.admin \/ user.seen => user.exists

Grows ==
  /\ user.exists => user'.exists
  /\ user.admin => user'.admin
  /\ user.shown => user'.shown

LEMMA UserStep ==
  ASSUME Typed, UserInv, Effect
  PROVE  user' \in User /\ UserInv' /\ Grows
<1>1. user \in User
  BY Parts
<1>2. CASE user' = user
  BY <1>1, <1>2 DEF UserInv, Grows
<1>3. CASE Appears
  BY <1>3 DEF Appears, UserInv, Grows, User
<1>4. CASE user.seen /\ user' = Promoted
  <2> DEFINE g == [user EXCEPT !.admin = TRUE]
  <2>1. /\ g \in User /\ g.admin /\ g.exists = user.exists /\ g.shown = user.shown
        /\ g.seen = user.seen
    BY <1>1 DEF User
  <2>2. user' = g
    BY <1>4 DEF Promoted
  <2> HIDE DEF g
  <2> QED BY <1>4, <2>1, <2>2 DEF UserInv, Grows
<1>5. CASE GoogleEffect
  <2>1. CASE user' = AdminUser
    BY <2>1 DEF AdminUser, User, UserInv, Grows
  <2>2. CASE user.exists /\ user' = [user EXCEPT !.seen = TRUE, !.shown = user.admin]
    <3> DEFINE g == [user EXCEPT !.seen = TRUE, !.shown = user.admin]
    <3>1. /\ g \in User /\ g.admin = user.admin /\ g.exists = user.exists
          /\ g.shown = user.admin
      BY <1>1 DEF User
    <3>2. user' = g
      BY <2>2
    <3> HIDE DEF g
    <3> QED BY <2>2, <3>1, <3>2 DEF UserInv, Grows
  <2> QED BY <1>5, <2>1, <2>2 DEF GoogleEffect
<1> QED BY <1>2, <1>3, <1>4, <1>5
        DEF Effect, StartEffect, WorkerEffect, DeathEffect, FixEffect, ClickEffect, MarkEffect,
            ServerEffect, UserMoves

LEMMA TypedStep ==
  ASSUME Typed, UserInv, Effect
  PROVE  Typed'
<1>1. user' \in User
  BY UserStep
<1>2. /\ home' = home /\ mock' = mock /\ pc' = [t \in Everyone |-> pc'[t]]
      /\ mine' \in [Threads -> Locals] /\ mishaps' \in 0 .. MaxMishaps
  BY Parts DEF Typed, Effect, StartEffect, WorkerEffect, DeathEffect, FixEffect, ClickEffect,
     MarkEffect, ServerEffect, GoogleEffect, ThreadOnly
<1>3. doc' \in Document
  BY Parts DEF Effect, StartEffect, WorkerEffect, DeathEffect, FixEffect, ClickEffect,
     MarkEffect, ServerEffect, GoogleEffect, WorkerDoc, FixDoc
<1>4. rows' \subseteq Row
  <2>0. \A status \in {"PROVISIONED", "EXISTING", "FAILED"}, password \in BOOLEAN :
          [status |-> status, password |-> password] \in Row
    BY DEF Row
  <2>1. CASE \E w \in Workers : WorkerEffect(w)
    <3>1. rows \subseteq Row
      BY DEF Typed, TypeOK
    <3>2. \/ rows' = rows
          \/ rows' = rows \cup {[status |-> "PROVISIONED", password |-> TRUE]}
          \/ \E status \in {"EXISTING", "FAILED"} :
               rows' = rows \cup {[status |-> status, password |-> FALSE]}
      BY <2>1 DEF WorkerEffect, WorkerRows
    <3>3. rows' = rows \/ \E r \in Row : rows' = rows \cup {r}
      BY <2>0, <3>2
    <3> QED BY <3>1, <3>3
  <2>2. CASE \E f \in Fixes : FixEffect(f)
    <3>1. rows \subseteq Row
      BY DEF Typed, TypeOK
    <3>2. rows' = rows \/ rows' = rows \cup {[status |-> "PROVISIONED", password |-> TRUE]}
      BY <2>2 DEF FixEffect, FixGoes
    <3>3. [status |-> "PROVISIONED", password |-> TRUE] \in Row
      BY <2>0
    <3> QED BY <3>1, <3>2, <3>3
  <2>3. CASE rows' = rows
    BY <2>3 DEF Typed, TypeOK
  <2> QED BY <2>1, <2>2, <2>3
          DEF Effect, StartEffect, DeathEffect, ClickEffect, MarkEffect, ServerEffect, GoogleEffect
<1>5. running' \in [Servers -> BOOLEAN]
  BY DEF Typed, TypeOK, Effect, StartEffect, WorkerEffect, DeathEffect, FixEffect, ClickEffect,
     MarkEffect, ServerEffect, GoogleEffect, FixGuard
<1>6. /\ \A w \in Workers : pc'[w] \in WorkerSteps \cup Rest
      /\ \A f \in Fixes : pc'[f] \in FixSteps \cup Rest
      /\ \A m \in Marks : pc'[m] \in {"mark"} \cup Rest
  <2>1. /\ \A w \in Workers : pc[w] \in WorkerSteps \cup Rest /\ w \in Everyone
        /\ \A f \in Fixes : pc[f] \in FixSteps \cup Rest /\ f \in Everyone
        /\ \A m \in Marks : pc[m] \in {"mark"} \cup Rest /\ m \in Everyone
    BY Sets DEF Typed, TypeOK, Everyone
  <2>2. CASE \E w \in Workers : StartEffect(w) \/ WorkerEffect(w) \/ DeathEffect(w)
    BY <2>1, <2>2, Sets
       DEF StartEffect, WorkerEffect, DeathEffect, ThreadOnly, WorkerSteps, Rest
  <2>3. CASE \E f \in Fixes : FixEffect(f)
    BY <2>1, <2>3, Sets DEF FixEffect, ThreadOnly, Rest
  <2>4. CASE \E c \in Clicks : ClickEffect(c)
    BY <2>1, <2>4, Sets DEF Clicks, ClickEffect, ThreadOnly, FixSteps
  <2>5. CASE \E m \in Marks : MarkEffect(m)
    BY <2>1, <2>5, Sets DEF MarkEffect, ThreadOnly, Rest
  <2>6. CASE (\E s \in Servers : ServerEffect(s)) \/ GoogleEffect
    BY <2>1, <2>6 DEF ServerEffect, GoogleEffect, Rest
  <2> QED BY <2>2, <2>3, <2>4, <2>5, <2>6 DEF Effect
<1>7. mail' \in {"none", "credentials", "intended"}
  BY DEF Typed, TypeOK, Effect, StartEffect, WorkerEffect, DeathEffect, FixEffect, ClickEffect,
     MarkEffect, ServerEffect, GoogleEffect
<1>8. audit' \subseteq {"repaired", "handled"}
  BY DEF Typed, TypeOK, Effect, StartEffect, WorkerEffect, DeathEffect, FixEffect, FixGoes,
     ClickEffect, MarkEffect, ServerEffect, GoogleEffect
<1> QED BY <1>1, <1>2, <1>3, <1>4, <1>5, <1>6, <1>7, <1>8
        DEF Typed, TypeOK, Locals, Document, User

-----------------------------------------------------------------------------
(* One repair per server: the guard is up exactly while one is at work.    *)
AtWork(f) == pc[f] \in Guarded

GuardInv ==
  /\ \A f \in Fixes : AtWork(f) => running[home[f]]
  /\ \A f, g \in Fixes : AtWork(f) /\ AtWork(g) /\ home[f] = home[g] => f = g
  /\ \A s \in Servers : running[s] => \E f \in Fixes : home[f] = s /\ AtWork(f)

LEMMA GuardStep ==
  ASSUME Typed, GuardInv, Effect
  PROVE  GuardInv'
<1>1. /\ home' = home /\ running \in [Servers -> BOOLEAN]
      /\ \A f \in Fixes : home[f] \in Servers /\ f \in Everyone /\ f \notin Workers \cup Marks
  <2>1. home \in [Fixes -> Servers] /\ running \in [Servers -> BOOLEAN]
    BY ConstantsAssumption DEF Typed, TypeOK
  <2>2. home' = home
    BY DEF Effect, StartEffect, WorkerEffect, DeathEffect, FixEffect, ClickEffect, MarkEffect,
       ServerEffect, GoogleEffect, ThreadOnly
  <2>3. \A f \in Fixes : f \in Everyone /\ f \notin Workers \cup Marks
    BY Sets
  <2> QED BY <2>1, <2>2, <2>3
<1>2. CASE running' = running /\ \A f \in Fixes : AtWork(f)' = AtWork(f)
  BY <1>1, <1>2 DEF GuardInv
<1>3. CASE \E f \in Fixes : FixEffect(f)
  <2> PICK f \in Fixes : FixEffect(f)
    BY <1>3
  <2>1. \A g \in Fixes \ {f} : AtWork(g)' = AtWork(g)
    BY <1>1 DEF FixEffect, ThreadOnly, AtWork
  <2>2. CASE UNCHANGED running /\ (pc[f] \in Guarded <=> pc'[f] \in Guarded)
    BY <1>1, <2>1, <2>2 DEF AtWork, GuardInv
  <2>3. CASE /\ pc[f] = "guard" /\ ~running[home[f]] /\ pc'[f] = "get"
             /\ running' = [running EXCEPT ![home[f]] = TRUE]
    <3>1. AtWork(f)' /\ \A s \in Servers : running'[s] = (s = home[f] \/ running[s])
      BY <1>1, <2>3 DEF AtWork, Guarded, FixSteps
    <3> QED BY <1>1, <2>1, <2>3, <3>1 DEF GuardInv
  <2>4. CASE /\ pc[f] = "release" /\ pc'[f] \in {"audit", "done"}
             /\ running' = [running EXCEPT ![home[f]] = FALSE]
    <3>1. ~AtWork(f)' /\ \A s \in Servers : running'[s] = (s # home[f] /\ running[s])
      BY <1>1, <2>4 DEF AtWork, Guarded, FixSteps
    <3>2. AtWork(f)
      BY <2>4 DEF AtWork, Guarded, FixSteps
    <3> QED BY <1>1, <2>1, <3>1, <3>2 DEF GuardInv
  <2> QED BY <2>2, <2>3, <2>4 DEF FixEffect, FixGuard
<1>4. CASE \E s \in Servers : ServerEffect(s)
  <2> PICK s \in Servers : ServerEffect(s)
    BY <1>4
  <2>1. \A r \in Servers : running'[r] = (r # s /\ running[r])
    BY <1>1 DEF ServerEffect
  <2>2. \A f \in Fixes : AtWork(f)' = (home[f] # s /\ AtWork(f))
    BY DEF ServerEffect, AtWork, Guarded, FixSteps
  <2>3. \A f \in Fixes : AtWork(f)' => running'[home[f]]
    BY <1>1, <2>1, <2>2 DEF GuardInv
  <2>4. \A f, g \in Fixes : AtWork(f)' /\ AtWork(g)' /\ home[f] = home[g] => f = g
    BY <2>2 DEF GuardInv
  <2>5. \A r \in Servers : running'[r] => \E f \in Fixes : home[f] = r /\ AtWork(f)'
    BY <2>1, <2>2 DEF GuardInv
  <2> QED BY <1>1, <2>3, <2>4, <2>5 DEF GuardInv
<1>5. CASE \E c \in Clicks : ClickEffect(c)
  <2>1. \A f \in Fixes : AtWork(f)' = AtWork(f)
    BY <1>1, <1>5 DEF ClickEffect, ThreadOnly, AtWork, Guarded, FixSteps
  <2> QED BY <1>2, <1>5, <2>1 DEF ClickEffect
<1>6. CASE \/ \E w \in Workers : StartEffect(w) \/ WorkerEffect(w) \/ DeathEffect(w)
           \/ \E m \in Marks : MarkEffect(m)
           \/ GoogleEffect
  <2>1. running' = running /\ \A f \in Fixes : pc'[f] = pc[f]
    BY <1>1, <1>6
       DEF StartEffect, WorkerEffect, DeathEffect, MarkEffect, GoogleEffect, ThreadOnly
  <2> QED BY <1>2, <2>1 DEF AtWork
<1> QED BY <1>3, <1>4, <1>5, <1>6 DEF Effect

LEMMA GuardMeans ==
  ASSUME Typed, GuardInv
  PROVE  OneRepairPerServer
<1> SUFFICES ASSUME NEW s \in Servers
             PROVE  Cardinality({f \in Fixes : home[f] = s /\ AtWork(f)})
                      = (IF running[s] THEN 1 ELSE 0)
  BY DEF OneRepairPerServer, AtWork, Guarded
<1> DEFINE busy == {f \in Fixes : home[f] = s /\ AtWork(f)}
<1>1. CASE running[s]
  <2>1. PICK f \in Fixes : home[f] = s /\ AtWork(f)
    BY <1>1 DEF GuardInv
  <2>2. busy = {f}
    BY <2>1 DEF GuardInv
  <2>3. Cardinality({f}) = 1
    BY FS_Singleton
  <2> QED BY <1>1, <2>2, <2>3
<1>2. CASE ~running[s]
  <2>1. busy = {}
    BY <1>2 DEF GuardInv
  <2> QED BY <1>2, <2>1, FS_EmptySet
<1> QED BY <1>1, <1>2

-----------------------------------------------------------------------------
(* A repair says "fixed" only after it has seen the admin.                 *)
FixInv ==
  /\ \A f \in Fixes :
       /\ pc[f] \in {"password", "fixed", "audit"} => user.shown
       /\ pc[f] = "release" /\ mine[f].ok => user.shown
  /\ "repaired" \in audit => user.shown

LEMMA FixInvStep ==
  ASSUME Typed, UserInv, FixInv, Effect
  PROVE  FixInv'
<1>1. Grows
  BY UserStep
<1>2. \A f \in Fixes : f \in Everyone /\ f \in Threads /\ f \notin Workers \cup Marks
  BY Sets
<1>3. CASE \E f \in Fixes : FixEffect(f)
  <2> PICK f \in Fixes : FixEffect(f)
    BY <1>3
  <2>1. \A g \in Fixes \ {f} : pc'[g] = pc[g] /\ mine'[g] = mine[g]
    BY <1>2 DEF FixEffect, ThreadOnly
  <2>2. doc.attempts > 0 => doc'.attempts > 0
    BY DEF FixEffect, FixDoc
  <2> QED BY <1>1, <2>1, <2>2 DEF FixInv, Grows, FixEffect, FixGoes
<1>4. CASE \E s \in Servers : ServerEffect(s)
  BY <1>1, <1>4 DEF FixInv, Grows, ServerEffect
<1>5. CASE \E c \in Clicks : ClickEffect(c)
  BY <1>1, <1>2, <1>5 DEF FixInv, Grows, ClickEffect, ThreadOnly
<1>6. CASE \/ \E w \in Workers : StartEffect(w) \/ WorkerEffect(w) \/ DeathEffect(w)
           \/ \E m \in Marks : MarkEffect(m)
           \/ GoogleEffect
  <2>1. /\ \A f \in Fixes : pc'[f] = pc[f] /\ mine'[f] = mine[f]
        /\ doc'.attempts = doc.attempts
        /\ "repaired" \in audit' => "repaired" \in audit
    BY <1>2, <1>6
       DEF StartEffect, WorkerEffect, WorkerDoc, DeathEffect, MarkEffect, GoogleEffect, ThreadOnly
  <2> QED BY <1>1, <2>1 DEF FixInv, Grows
<1> QED BY <1>3, <1>4, <1>5, <1>6 DEF Effect

-----------------------------------------------------------------------------
(* What an attempt reports it has earned, or has from a row.               *)
Granted(byRow) == user.exists /\ (user.admin \/ mock \/ byRow)

EarnInv ==
  /\ Provisioned \/ HasPassword => user.exists
  /\ \A w \in Workers :
       /\ pc[w] \in Early => mine[w].ok = FALSE
       /\ pc[w] = "provisioned" => user.exists
       /\ pc[w] = "existing" => user.admin
       /\ pc[w] = "report" /\ mine[w].ok => Granted(mine[w].user = "row")
  /\ doc.created = "yes" /\ ~doc.byHand => Granted(doc.byRow)
  /\ mail = "credentials" => user.exists

LEMMA EarnInvStep ==
  ASSUME Typed, UserInv, FixInv, EarnInv, Effect
  PROVE  EarnInv'
<1>1. Grows /\ UserInv'
  BY UserStep
<1>2. /\ \A w \in Workers : w \in Everyone /\ w \in Threads /\ w \notin Clicks
      /\ \A f \in Fixes : f \in Clicks
      /\ \A m \in Marks : m \in Clicks
  BY Sets DEF Clicks, Everyone
<1>3. mock' = mock
  BY DEF Effect, StartEffect, WorkerEffect, DeathEffect, FixEffect, ClickEffect, MarkEffect,
     ServerEffect, GoogleEffect, ThreadOnly
<1>4. /\ user.exists => user'.exists
      /\ user.admin \/ mock => user'.admin \/ mock'
  BY <1>1, <1>3 DEF Grows
<1> USE DEF Granted
<1>5. CASE /\ UNCHANGED <<rows, doc, mail>>
           /\ \A w \in Workers : \/ pc'[w] = pc[w] /\ (pc[w] = "dead" \/ mine'[w] = mine[w])
                                 \/ pc'[w] = "dead"
                                 \/ pc[w] = "idle" /\ pc'[w] = "row" /\ mine'[w] = mine[w]
  BY <1>1, <1>4, <1>5 DEF EarnInv, Grows, Provisioned, HasPassword, Early
<1>6. CASE \E w \in Workers : WorkerEffect(w)
  <2> PICK w \in Workers : WorkerEffect(w)
    BY <1>6
  <2>1. \A v \in Workers \ {w} : pc'[v] = pc[v] /\ mine'[v] = mine[v]
    BY <1>2 DEF WorkerEffect, ThreadOnly
  <2>2. Provisioned' \/ HasPassword' => user'.exists
    BY <1>1 DEF EarnInv, Grows, WorkerEffect, WorkerRows, Provisioned, HasPassword
  <2>3. pc[w] = "row" /\ Provisioned => user'.exists
    BY <1>4 DEF EarnInv
  <2>4. user'.admin \/ user.shown => user'.exists /\ user'.admin
    BY <1>1 DEF UserInv, Grows
  <2>5. pc[w] = "existing" => user'.exists /\ user'.admin
    BY <1>1, <2>4 DEF EarnInv, Grows
  <2>6. /\ pc'[w] \in Early => mine'[w].ok = FALSE
        /\ pc'[w] = "provisioned" => user'.exists
    BY DEF WorkerEffect, WorkerGoes, EarnInv
  <2>7. pc'[w] = "existing" => user'.admin
    BY <1>1 DEF WorkerEffect, WorkerGoes, UserInv, Grows
  <2>8. pc'[w] = "report" /\ mine'[w].ok =>
          user'.exists /\ (user'.admin \/ mock' \/ mine'[w].user = "row")
    BY <1>3, <2>3, <2>4, <2>5 DEF WorkerEffect, WorkerGoes, EarnInv
  <2>9. doc'.created = "yes" /\ ~doc'.byHand =>
          user'.exists /\ (user'.admin \/ mock' \/ doc'.byRow)
    BY <1>4 DEF WorkerEffect, WorkerDoc, EarnInv
  <2>10. mail' = "credentials" => user'.exists
    BY <1>4 DEF WorkerEffect, EarnInv
  <2>11. \A v \in Workers \ {w} :
           /\ pc'[v] \in Early => mine'[v].ok = FALSE
           /\ pc'[v] = "provisioned" => user'.exists
           /\ pc'[v] = "existing" => user'.admin
           /\ pc'[v] = "report" /\ mine'[v].ok =>
                user'.exists /\ (user'.admin \/ mock' \/ mine'[v].user = "row")
    BY <1>1, <1>4, <2>1 DEF EarnInv, Grows
  <2> QED BY <2>2, <2>6, <2>7, <2>8, <2>9, <2>10, <2>11 DEF EarnInv
<1>7. CASE (\E f \in Fixes : FixEffect(f)) \/ (\E m \in Marks : MarkEffect(m))
  <2>1. \A w \in Workers : pc'[w] = pc[w] /\ mine'[w] = mine[w]
    BY <1>2, <1>7 DEF FixEffect, MarkEffect, ThreadOnly
  <2>2. Provisioned' \/ HasPassword' => user'.exists
    BY <1>1, <1>7
       DEF EarnInv, FixInv, UserInv, Grows, FixEffect, FixGoes, MarkEffect, Provisioned,
           HasPassword
  <2>3. doc'.created = "yes" /\ ~doc'.byHand =>
          user'.exists /\ (user'.admin \/ mock' \/ doc'.byRow)
    <3>1. CASE \E m \in Marks : MarkEffect(m)
      BY <1>4, <3>1 DEF MarkEffect, EarnInv
    <3>2. CASE \E f \in Fixes : FixEffect(f)
      <4>1. user.shown => user.exists /\ user.admin
        BY DEF UserInv
      <4> QED BY <1>4, <3>2, <4>1 DEF EarnInv, FixInv, FixEffect, FixDoc
    <3> QED BY <1>7, <3>1, <3>2
  <2>4. mail' = mail
    BY <1>7 DEF FixEffect, MarkEffect
  <2> QED BY <1>1, <1>4, <2>1, <2>2, <2>3, <2>4 DEF EarnInv, Grows
<1>8. CASE \/ \E w \in Workers : StartEffect(w) \/ DeathEffect(w)
           \/ \E c \in Clicks : ClickEffect(c)
           \/ \E s \in Servers : ServerEffect(s)
           \/ GoogleEffect
  BY <1>2, <1>5, <1>8
     DEF StartEffect, DeathEffect, ClickEffect, ServerEffect, GoogleEffect, ThreadOnly
<1> QED BY <1>6, <1>7, <1>8 DEF Effect

-----------------------------------------------------------------------------
AdminInv == UserInv /\ GuardInv /\ FixInv /\ EarnInv

LEMMA Initially == Init => Typed /\ AdminInv
<1> SUFFICES ASSUME Init PROVE Typed /\ AdminInv
  OBVIOUS
<1>1. \A t \in Everyone : pc[t] = "idle"
  BY DEF Init, Everyone
<1>2. \A t \in Threads : mine[t] = Blank
  BY DEF Init
<1>3. Blank \in Locals /\ Blank.ok = FALSE
  BY Sets DEF Blank, Locals
<1>4. PICK s \in Starts :
        /\ doc = [created |-> "unset", noUsers |-> TRUE, finished |-> s.old,
                  attempts |-> 0, byHand |-> FALSE, byRow |-> FALSE]
        /\ user = s.user /\ rows = s.rows
  BY DEF Init
<1>5. MayStart(s)
  BY ConstantsAssumption
<1>6. user \in User /\ UserInv
  BY <1>4, <1>5 DEF MayStart, UserInv
<1>7. doc \in Document /\ doc.created = "unset"
  BY <1>4, <1>5 DEF MayStart, Document
<1>8. rows \subseteq Row /\ (Provisioned \/ HasPassword => user.exists)
  BY <1>4, <1>5 DEF MayStart, Provisioned, HasPassword
<1>9. /\ \A t \in Workers \cup Fixes \cup Marks \cup Clicks : t \in Everyone
      /\ \A t \in Workers \cup Fixes : t \in Threads
  BY Sets DEF Everyone, Clicks
<1>10. Typed
  BY <1>1, <1>2, <1>3, <1>6, <1>7, <1>8, <1>9, Sets
     DEF Init, Typed, TypeOK, Everyone, Rest, Locals, Document, User
<1>11. GuardInv
  BY <1>1, <1>9 DEF Init, GuardInv, AtWork, Guarded, FixSteps
<1>12. FixInv
  BY <1>1, <1>9 DEF Init, FixInv
<1>13. EarnInv
  BY <1>1, <1>2, <1>3, <1>7, <1>8, <1>9 DEF Init, EarnInv
<1> QED BY <1>6, <1>10, <1>11, <1>12, <1>13 DEF AdminInv

LEMMA Inductive == Spec => [](Typed /\ AdminInv)
<1>1. ASSUME Typed /\ AdminInv, [Next]_vars PROVE (Typed /\ AdminInv)'
  <2>1. CASE Next
    BY <1>1, <2>1, Effects, UserStep, TypedStep, GuardStep, FixInvStep, EarnInvStep
       DEF AdminInv
  <2>2. CASE UNCHANGED vars
    <3> USE <1>1, <2>2 DEF vars
    <3>1. Typed'
      BY DEF Typed, TypeOK
    <3>2. UserInv' /\ GuardInv' /\ FixInv'
      BY DEF AdminInv, UserInv, GuardInv, AtWork, FixInv
    <3>3. EarnInv'
      BY DEF AdminInv, EarnInv, Provisioned, HasPassword, Granted
    <3> QED BY <3>1, <3>2, <3>3 DEF AdminInv
  <2> QED BY <1>1, <2>1, <2>2
<1> QED BY <1>1, Initially, PTL DEF Spec

-----------------------------------------------------------------------------
(* Every variable of the admin step keeps its type: no loop of calls goes  *)
(* past the waits that the code gives it.                                  *)
THEOREM AdminTypeCorrect == Spec => []TypeOK
BY Inductive, PTL DEF Typed

(* On one server never two repairs of a job talk to Google at once, and    *)
(* the guard never stays up (fix_admin, _repairs_running).                 *)
THEOREM RepairsExclude == Spec => []OneRepairPerServer
<1>1. Typed /\ AdminInv => OneRepairPerServer
  BY GuardMeans DEF AdminInv
<1> QED BY <1>1, Inductive, PTL

(* A repair reports, and the history lists, only an admin that Google has  *)
(* shown (repair_admin's read-back).                                       *)
THEOREM FixesAreSeen == Spec => []FixIsReadBack
<1>1. Typed /\ AdminInv => FixIsReadBack
  BY DEF AdminInv, UserInv, FixInv, FixIsReadBack
<1> QED BY <1>1, Inductive, PTL

(* admin_created is not recorded for a domain without the user, nor for    *)
(* one without an admin, unless an operator said so, the mock adapter is   *)
(* in use or the report rests on a PROVISIONED row: whatever earlier jobs  *)
(* left behind, this row is the only way to be wrong.                      *)
THEOREM FlagsAreEarned == Spec => []FlagIsEarned
<1>1. Typed /\ AdminInv => FlagIsEarned
  BY DEF AdminInv, EarnInv, Granted, FlagIsEarned
<1> QED BY <1>1, Inductive, PTL

(* A mail with the block "Admin Credentials" is about a user that exists.  *)
THEOREM CredentialsAreOfUsers == Spec => []CredentialsNameAUser
<1>1. Typed /\ AdminInv => CredentialsNameAUser
  BY DEF AdminInv, EarnInv, CredentialsNameAUser
<1> QED BY <1>1, Inductive, PTL

(* No repair puts a domain back on the list of failed admins, or takes its *)
(* count of attempts back to none.                                         *)
THEOREM RepairsNeverRelist == Spec => RepairNeverRelists
<1> DEFINE Kept ==
      /\ doc.created = "yes" /\ doc'.created # "yes" =>
           \E w \in Workers : pc[w] = "report" /\ pc'[w] = "mail"
      /\ doc.attempts > 0 => doc'.attempts > 0
<1>1. ASSUME Typed /\ AdminInv, [Next]_vars PROVE [Kept]_vars
  <2>1. CASE UNCHANGED vars
    BY <2>1
  <2>2. CASE Next
    <3>1. doc.attempts > 0 => doc'.attempts > 0
      BY <1>1, <2>2, Effects
         DEF Effect, StartEffect, WorkerEffect, WorkerDoc, DeathEffect, FixEffect, FixDoc,
             ClickEffect, MarkEffect, ServerEffect, GoogleEffect
    <3>2. ASSUME doc.created = "yes", doc'.created # "yes"
          PROVE  \E w \in Workers : pc[w] = "report" /\ pc'[w] = "mail"
      <4>1. \E w \in Workers : WorkerEffect(w)
        BY <1>1, <2>2, <3>2, Effects
           DEF Effect, StartEffect, DeathEffect, FixEffect, FixDoc, ClickEffect, MarkEffect,
               ServerEffect, GoogleEffect
      <4>2. PICK w \in Workers : WorkerEffect(w)
        BY <4>1
      <4> QED BY <3>2, <4>2 DEF WorkerEffect, WorkerDoc
    <3> QED BY <3>1, <3>2
  <2> QED BY <1>1, <2>1, <2>2
<1> QED BY <1>1, Inductive, PTL DEF Spec, RepairNeverRelists
=============================================================================
