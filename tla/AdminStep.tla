------------------------------ MODULE AdminStep ------------------------------
(***************************************************************************)
(* The admin user of one job's domain: step 4 of the workflow creates it   *)
(* and makes it super-admin, step 5 mails its password, and the dashboard  *)
(* repairs what went wrong ("Fix admin", "Mark handled").  Workers are the *)
(* attempts at the job, one after another (JobLifecycle's lease); clicks   *)
(* are requests to the dashboard, served by threads of several servers.    *)
(*                                                                         *)
(* Google is eventually consistent: a new user is not visible to makeAdmin *)
(* at once, nor is the right of a new admin when the user is read back.    *)
(***************************************************************************)
EXTENDS Integers, FiniteSets

CONSTANTS
  Workers,      \* attempts at the job
  Fixes,        \* clicks on "Fix admin"
  Marks,        \* clicks on "Mark handled"
  Servers,
  Homes,        \* which server takes which click: a set of [Fixes -> Servers]
  MakeTries,    \* length of MAKE_ADMIN_NOT_FOUND_WAITS
  ConfirmTries, \* length of ADMIN_CONFIRM_WAITS
  Starts,       \* what earlier jobs and the customer may have left behind
  Faults,       \* which of FaultKinds may occur
  MaxMishaps    \* bound on their number

FaultKinds == {"error",     \* a call fails for good, without effect
               "lost",      \* the answer of a call is lost; it is sent again
               "hidden",    \* Google answers 403 for a user that exists
               "store",     \* a read or a write of the store fails
               "crash"}     \* a worker or a server dies

Threads == Workers \cup Fixes
Clicks == Fixes \cup Marks

(* seen: makeAdmin finds the user; shown: reading it back says isAdmin.    *)
User == [exists: BOOLEAN, admin: BOOLEAN, seen: BOOLEAN, shown: BOOLEAN]
Row == [status: {"PROVISIONED", "EXISTING", "FAILED"}, password: BOOLEAN]

(* old: the job was completed before admin_created was recorded.  Rows are *)
(* kept from job to job of a domain, and the user is of course.            *)
MayStart(s) ==
  /\ s \in [old: BOOLEAN, user: User, rows: SUBSET Row]
  /\ s.user.shown => s.user.admin
  /\ s.user.admin \/ s.user.seen => s.user.exists
  /\ (\E r \in s.rows : r.status # "FAILED" \/ r.password) => s.user.exists

ASSUME ConstantsAssumption ==
  /\ IsFiniteSet(Workers) /\ IsFiniteSet(Fixes)
  /\ Workers \cap Clicks = {} /\ Fixes \cap Marks = {}
  /\ Homes \subseteq [Fixes -> Servers]
  /\ MakeTries \in Nat \ {0} /\ ConfirmTries \in Nat \ {0}
  /\ \A s \in Starts : MayStart(s)
  /\ Faults \subseteq FaultKinds
  /\ MaxMishaps \in Nat

VARIABLES
  home,     \* home[f]: the server of click f
  mock,     \* which of the two directory adapters is in use
  user,     \* the user at Google
  rows,     \* the employee rows of its address
  doc,      \* the job document's fields about it
  running,  \* _repairs_running of each server
  pc, mine, \* each thread's position and locals
  mail,     \* what the last confirmation mail said
  audit,    \* ADMIN_REPAIR and ADMIN_MARKED_HANDLED successes
  mishaps

vars == <<home, mock, user, rows, doc, running, pc, mine, mail, audit, mishaps>>

-----------------------------------------------------------------------------
WorkerSteps == {"row", "get", "create", "provisioned", "make", "existing", "failed",
                "report", "mail", "finish"}
FixSteps == {"guard", "get", "create", "make", "confirm", "password", "fixed", "failed",
             "release", "audit"}
Rest == {"idle", "done", "dead"}

NoUser == [exists |-> FALSE, admin |-> FALSE, seen |-> FALSE, shown |-> FALSE]
AdminUser == [exists |-> TRUE, admin |-> TRUE, seen |-> TRUE, shown |-> TRUE]

Blank == [user |-> "none", tries |-> 0, ok |-> FALSE, attempts |-> 0]

TypeOK ==
  /\ home \in Homes
  /\ mock \in BOOLEAN
  /\ user \in User
  /\ rows \subseteq Row
  /\ doc \in [created: {"unset", "yes", "no"}, noUsers: BOOLEAN, finished: BOOLEAN,
              attempts: Nat, byHand: BOOLEAN, byRow: BOOLEAN]
  /\ running \in [Servers -> BOOLEAN]
  /\ \A w \in Workers : pc[w] \in WorkerSteps \cup Rest
  /\ \A f \in Fixes : pc[f] \in FixSteps \cup Rest
  /\ \A m \in Marks : pc[m] \in {"mark"} \cup Rest
  /\ mine \in [Threads -> [user: {"none", "plain", "row"}, ok: BOOLEAN, attempts: Nat,
                           tries: 0 .. (MakeTries + ConfirmTries)]]
  /\ mail \in {"none", "credentials", "intended"}
  /\ audit \subseteq {"repaired", "handled"}
  /\ mishaps \in 0 .. MaxMishaps

(* A new job, be it the domain's first; or an old one, which no worker     *)
(* takes up.                                                               *)
Init ==
  /\ home \in Homes
  /\ mock \in BOOLEAN
  /\ \E s \in Starts :
       /\ doc = [created |-> "unset", noUsers |-> TRUE, finished |-> s.old,
                 attempts |-> 0, byHand |-> FALSE, byRow |-> FALSE]
       /\ user = s.user /\ rows = s.rows
  /\ running = [s \in Servers |-> FALSE]
  /\ pc = [t \in Threads \cup Marks |-> "idle"]
  /\ mine = [t \in Threads |-> Blank]
  /\ mail = "none"
  /\ audit = {}
  /\ mishaps = 0

-----------------------------------------------------------------------------
Goto(t, step) == pc' = [pc EXCEPT ![t] = step]
Forget(t) == mine' = [mine EXCEPT ![t] = Blank]
Mishap(kind) == kind \in Faults /\ mishaps < MaxMishaps /\ mishaps' = mishaps + 1
Fine == UNCHANGED mishaps

(* JobRepository.is_admin_failure                                          *)
OnTheList == doc.created = "no" \/ (doc.created = "unset" /\ doc.finished /\ doc.noUsers)

AddRow(status, password) == rows' = rows \cup {[status |-> status, password |-> password]}

(* A call of a thread fails: the worker's "except Exception" saves a row   *)
(* unless the user was found, a repair records the reason.                 *)
Fails(t) == Goto(t, IF t \in Workers /\ (pc[t] = "get" \/ mine[t].user = "plain")
                    THEN "report" ELSE "failed")

(* get_user_safe: None for a user that is not there, and on a 403.         *)
Look(t) ==
  /\ pc[t] = "get"
  /\ \/ /\ user.exists /\ user.shown
        /\ Goto(t, IF t \in Workers THEN "existing" ELSE "password")
        /\ Fine /\ UNCHANGED mine
     \/ /\ user.exists /\ ~user.shown
        /\ Goto(t, "make") /\ mine' = [mine EXCEPT ![t].user = "plain"]
        /\ Fine
     \/ /\ IF user.exists THEN Mishap("hidden") ELSE Fine
        /\ Goto(t, "create") /\ UNCHANGED mine
     \/ Mishap("error") /\ Fails(t) /\ UNCHANGED mine
  /\ UNCHANGED <<home, mock, user, rows, doc, running, mail, audit>>

(* Mutant: "already exists" taken for success also from Google.            *)
TakenForExistingAlways(t) == t \in Workers

(* MockDirectoryService reports a duplicate as DuplicateEmployeeError,     *)
(* which the workflow answers with EXISTING; Google's 409 is an error.     *)
TakenForExisting(t) == t \in Workers /\ mock

Duplicate(t) ==
  IF TakenForExisting(t)
  THEN Goto(t, "report") /\ mine' = [mine EXCEPT ![t].ok = TRUE]
  ELSE Fails(t) /\ UNCHANGED mine

Created(t) ==
  /\ ~user.exists
  /\ \E seen \in BOOLEAN : user' = [NoUser EXCEPT !.exists = TRUE, !.seen = seen]

Create(t) ==
  /\ pc[t] = "create"
  /\ \/ /\ Created(t) /\ Fine
        /\ Goto(t, IF t \in Workers THEN "provisioned" ELSE "make")
        /\ UNCHANGED mine
     \/ user.exists /\ Duplicate(t) /\ Fine /\ UNCHANGED user
     \/ Mishap("lost") /\ Created(t) /\ Duplicate(t)
     \/ Mishap("error") /\ Fails(t) /\ UNCHANGED <<user, mine>>
  /\ UNCHANGED <<home, mock, rows, doc, running, mail, audit>>

(* Mutant: a user that stays invisible is waited for without end.          *)
NeverLast(t, limit) == FALSE

LastTry(t, limit) == mine[t].tries + 1 >= limit

Promoted == [user EXCEPT !.admin = TRUE]

(* _make_admin: tried again while Google does not find the user.           *)
MakeAdmin(t) ==
  /\ pc[t] = "make"
  /\ \/ /\ user.seen /\ Fine
        /\ user' = Promoted
        /\ Goto(t, IF t \in Fixes THEN "confirm"
                   ELSE IF mine[t].user = "plain" THEN "existing" ELSE "report")
        /\ mine' = [mine EXCEPT ![t].ok = TRUE, ![t].tries = 0, ![t].user = "none"]
     \/ /\ ~user.seen /\ Fine /\ UNCHANGED user
        /\ IF LastTry(t, MakeTries) THEN Fails(t) /\ UNCHANGED mine
           ELSE UNCHANGED pc /\ mine' = [mine EXCEPT ![t].tries = @ + 1]
     \/ /\ Mishap("error") /\ Fails(t)
        /\ user' \in {user} \cup (IF user.seen THEN {Promoted} ELSE {}) /\ UNCHANGED mine
  /\ UNCHANGED <<home, mock, rows, doc, running, mail, audit>>

(* Google catches up.                                                      *)
Propagates ==
  /\ user.exists
  /\ user' = [user EXCEPT !.seen = TRUE, !.shown = user.admin]
  /\ user' # user
  /\ UNCHANGED <<home, mock, rows, doc, running, pc, mine, mail, audit, mishaps>>

(* Somebody finishes the work in the Google Admin console.                 *)
FixedByHand ==
  /\ OnTheList
  /\ user' = AdminUser /\ user' # user
  /\ UNCHANGED <<home, mock, rows, doc, running, pc, mine, mail, audit, mishaps>>

-----------------------------------------------------------------------------
(* The workflow comes to step 4: first attempt, or resumed after a death.  *)
WorkerStarts(w) ==
  /\ pc[w] = "idle" /\ ~doc.finished
  /\ \A v \in Workers : pc[v] \in {"idle", "dead"}
  /\ Goto(w, "row")
  /\ UNCHANGED <<home, mock, user, rows, doc, running, mine, mail, audit, mishaps>>

(* employee_repo.get_by_email takes the first row that the query returns,  *)
(* and a query that fails returns none.  A PROVISIONED row, of this or of  *)
(* an earlier job, is taken for an admin without asking Google.            *)
LookUpRow(w) ==
  /\ pc[w] = "row"
  /\ \/ /\ \E r \in rows : r.status = "PROVISIONED"
        /\ Goto(w, "report") /\ mine' = [mine EXCEPT ![w].ok = TRUE, ![w].user = "row"]
        /\ Fine
     \/ /\ IF rows # {} /\ \A r \in rows : r.status = "PROVISIONED" THEN Mishap("store")
           ELSE Fine
        /\ Goto(w, "get") /\ UNCHANGED mine
  /\ UNCHANGED <<home, mock, user, rows, doc, running, mail, audit>>

SaveProvisioned(w) ==
  /\ pc[w] = "provisioned"
  /\ AddRow("PROVISIONED", TRUE)
  /\ Goto(w, "make")
  /\ UNCHANGED <<home, mock, user, doc, running, mine, mail, audit, mishaps>>

SaveExisting(w) ==
  /\ pc[w] = "existing"
  /\ AddRow("EXISTING", FALSE)
  /\ Goto(w, "report") /\ mine' = [mine EXCEPT ![w].ok = TRUE]
  /\ UNCHANGED <<home, mock, user, doc, running, mail, audit, mishaps>>

(* Mutant: the row of a user that was not created keeps its password.      *)
SaveFailedWithPassword(w) ==
  /\ pc[w] = "failed" /\ w \in Workers
  /\ AddRow("FAILED", TRUE)
  /\ Goto(w, "report") /\ mine' = [mine EXCEPT ![w].ok = FALSE]
  /\ UNCHANGED <<home, mock, user, doc, running, mail, audit, mishaps>>

SaveFailed(w) ==
  /\ pc[w] = "failed" /\ w \in Workers
  /\ AddRow("FAILED", FALSE)
  /\ Goto(w, "report") /\ mine' = [mine EXCEPT ![w].ok = FALSE]
  /\ UNCHANGED <<home, mock, user, doc, running, mail, audit, mishaps>>

(* update_job_status(users_created, ..., admin_created)                    *)
Report(w) ==
  /\ pc[w] = "report"
  /\ doc' = [doc EXCEPT !.created = IF mine[w].ok THEN "yes" ELSE "no",
                         !.noUsers = ~mine[w].ok,
                         !.byRow = mine[w].user = "row"]
  /\ Forget(w) /\ Goto(w, "mail")
  /\ UNCHANGED <<home, mock, user, rows, running, mail, audit, mishaps>>

(* _send_notifications, best effort, to the address of the initiator: the  *)
(* credentials of a row with a password; without one, or when the query    *)
(* fails, the intended address and the standard password, whoever has it.  *)
Mail(w) ==
  /\ pc[w] = "mail"
  /\ \/ (\E r \in rows : r.password) /\ mail' = "credentials" /\ Fine
     \/ /\ IF \E r \in rows : r.password THEN Mishap("store") ELSE Fine
        /\ mail' = "intended"
     \/ Mishap("error") /\ UNCHANGED mail
  /\ Goto(w, "finish")
  /\ UNCHANGED <<home, mock, user, rows, doc, running, mine, audit>>

Finish(w) ==
  /\ pc[w] = "finish"
  /\ doc' = [doc EXCEPT !.finished = TRUE]
  /\ Goto(w, "done")
  /\ UNCHANGED <<home, mock, user, rows, running, mine, mail, audit, mishaps>>

(* The write of a row raises: the "except Exception" of the creation, or   *)
(* the one around the whole step.                                          *)
RowRaises(w) ==
  /\ Mishap("store")
  /\ w \in Workers
  /\ \/ pc[w] = "provisioned" /\ Goto(w, "failed") /\ UNCHANGED mine
     \/ /\ pc[w] \in {"existing", "failed"}
        /\ Goto(w, "report") /\ mine' = [mine EXCEPT ![w].ok = FALSE]
  /\ UNCHANGED <<home, mock, user, rows, doc, running, mail, audit>>

(* The job document's update is refused, which is only logged.             *)
ReportRefused(w) ==
  /\ Mishap("store")
  /\ pc[w] = "report"
  /\ Forget(w) /\ Goto(w, "mail")
  /\ UNCHANGED <<home, mock, user, rows, doc, running, mail, audit>>

WorkerDies(w) ==
  /\ Mishap("crash")
  /\ pc[w] \in WorkerSteps
  /\ \E v \in Workers : pc[v] = "idle"
  /\ Forget(w) /\ Goto(w, "dead")
  /\ UNCHANGED <<home, mock, user, rows, doc, running, mail, audit>>

-----------------------------------------------------------------------------
(* _failed_admin_job, for both buttons: the job is read once, here.        *)
Click(f) ==
  /\ pc[f] = "idle" /\ OnTheList
  /\ IF f \in Fixes
     THEN Goto(f, "guard") /\ mine' = [mine EXCEPT ![f].attempts = doc.attempts]
     ELSE Goto(f, "mark") /\ UNCHANGED mine
  /\ UNCHANGED <<home, mock, user, rows, doc, running, mail, audit, mishaps>>

(* Mutant: the guard only notes the repair.                                *)
GuardUnchecked(f) ==
  /\ pc[f] = "guard"
  /\ Goto(f, "get") /\ running' = [running EXCEPT ![home[f]] = TRUE]
  /\ UNCHANGED <<home, mock, user, rows, doc, mine, mail, audit, mishaps>>

(* fix_admin under _repairs_lock.                                          *)
Guard(f) ==
  /\ pc[f] = "guard"
  /\ IF running[home[f]]
     THEN Goto(f, "done") /\ Forget(f) /\ UNCHANGED running
     ELSE /\ Goto(f, "get") /\ UNCHANGED mine
          /\ running' = [running EXCEPT ![home[f]] = TRUE]
  /\ UNCHANGED <<home, mock, user, rows, doc, mail, audit, mishaps>>

(* Mutant: makeAdmin's answer is believed.                                 *)
ConfirmUnread(f) ==
  /\ pc[f] = "confirm"
  /\ Goto(f, "password")
  /\ UNCHANGED <<home, mock, user, rows, doc, running, mine, mail, audit, mishaps>>

(* The read-back after makeAdmin.                                          *)
Confirm(f) ==
  /\ pc[f] = "confirm"
  /\ \/ /\ user.shown /\ Fine
        /\ Goto(f, "password") /\ UNCHANGED mine
     \/ /\ IF user.shown THEN Mishap("hidden") ELSE Fine
        /\ IF LastTry(f, ConfirmTries) THEN Fails(f) /\ UNCHANGED mine
           ELSE UNCHANGED pc /\ mine' = [mine EXCEPT ![f].tries = @ + 1]
     \/ Mishap("error") /\ Fails(f) /\ UNCHANGED mine
  /\ UNCHANGED <<home, mock, user, rows, doc, running, mail, audit>>

(* The row with the standard password, unless there is one, also for a     *)
(* user that was there and has a password of his own; none is written when *)
(* the company's document cannot be read.                                  *)
SavePassword(f) ==
  /\ pc[f] = "password"
  /\ \/ /\ IF \E r \in rows : r.password THEN UNCHANGED rows ELSE AddRow("PROVISIONED", TRUE)
        /\ Fine
     \/ Mishap("store") /\ UNCHANGED rows
  /\ Goto(f, "fixed")
  /\ UNCHANGED <<home, mock, user, doc, running, mine, mail, audit>>

(* The count goes up from what the click read.                             *)
WriteFixed(f) ==
  /\ pc[f] = "fixed"
  /\ doc' = [doc EXCEPT !.created = "yes", !.noUsers = FALSE, !.byRow = FALSE,
                         !.attempts = mine[f].attempts + 1]
  /\ Goto(f, "release") /\ mine' = [mine EXCEPT ![f].ok = TRUE]
  /\ UNCHANGED <<home, mock, user, rows, running, mail, audit, mishaps>>

(* Mutant: a failed repair puts the domain on the list.                    *)
WriteFailedRelists(f) ==
  /\ pc[f] = "failed" /\ f \in Fixes
  /\ doc' = [doc EXCEPT !.created = "no", !.attempts = mine[f].attempts + 1]
  /\ Goto(f, "release") /\ mine' = [mine EXCEPT ![f].ok = FALSE]
  /\ UNCHANGED <<home, mock, user, rows, running, mail, audit, mishaps>>

WriteFailed(f) ==
  /\ pc[f] = "failed" /\ f \in Fixes
  /\ doc' = [doc EXCEPT !.attempts = mine[f].attempts + 1]
  /\ Goto(f, "release") /\ mine' = [mine EXCEPT ![f].ok = FALSE]
  /\ UNCHANGED <<home, mock, user, rows, running, mail, audit, mishaps>>

(* A write at the end of a repair raises, or is refused and only logged;   *)
(* then a repair that did its work is answered as one.                     *)
WriteLost(f) ==
  /\ Mishap("store")
  /\ f \in Fixes
  /\ pc[f] \in {"password", "fixed", "failed"}
  /\ Goto(f, "release")
  /\ \E ok \in BOOLEAN :
       /\ ok => pc[f] = "fixed"
       /\ mine' = [mine EXCEPT ![f].ok = ok]
  /\ UNCHANGED <<home, mock, user, rows, doc, running, mail, audit>>

(* Mutant: the guard is released on success only.                          *)
ReleaseOnSuccess(f) ==
  /\ pc[f] = "release"
  /\ running' = IF mine[f].ok THEN [running EXCEPT ![home[f]] = FALSE] ELSE running
  /\ Forget(f)
  /\ Goto(f, IF mine[f].ok THEN "audit" ELSE "done")
  /\ UNCHANGED <<home, mock, user, rows, doc, mail, audit, mishaps>>

(* finally: _repairs_running.discard                                       *)
Release(f) ==
  /\ pc[f] = "release"
  /\ running' = [running EXCEPT ![home[f]] = FALSE]
  /\ Forget(f)
  /\ Goto(f, IF mine[f].ok THEN "audit" ELSE "done")
  /\ UNCHANGED <<home, mock, user, rows, doc, mail, audit, mishaps>>

AuditFix(f) ==
  /\ pc[f] = "audit"
  /\ \/ audit' = audit \cup {"repaired"} /\ Fine
     \/ Mishap("store") /\ UNCHANGED audit
  /\ Forget(f) /\ Goto(f, "done")
  /\ UNCHANGED <<home, mock, user, rows, doc, running, mail>>

(* mark_admin_handled: nothing is asked of Google.                         *)
Handled == [doc EXCEPT !.created = "yes", !.byHand = TRUE]

MarkHandled(m) ==
  /\ pc[m] = "mark"
  /\ doc' = Handled
  /\ audit' = audit \cup {"handled"}
  /\ Goto(m, "done")
  /\ UNCHANGED <<home, mock, user, rows, running, mine, mail, mishaps>>

(* One of its two writes raises, or the first is refused and only logged.  *)
MarkLost(m) ==
  /\ Mishap("store")
  /\ pc[m] = "mark"
  /\ \/ doc' \in {doc, Handled} /\ UNCHANGED audit
     \/ UNCHANGED doc /\ audit' = audit \cup {"handled"}
  /\ Goto(m, "done")
  /\ UNCHANGED <<home, mock, user, rows, running, mine, mail>>

(* A server dies with its repairs; the guard was in its memory.            *)
ServerDies(s) ==
  /\ Mishap("crash")
  /\ \E f \in Fixes : home[f] = s /\ pc[f] \in FixSteps
  /\ pc' = [t \in DOMAIN pc |->
              IF t \in Fixes /\ home[t] = s /\ pc[t] \in FixSteps THEN "dead" ELSE pc[t]]
  /\ running' = [running EXCEPT ![s] = FALSE]
  /\ mine' = [t \in Threads |-> IF pc'[t] = "dead" THEN Blank ELSE mine[t]]
  /\ UNCHANGED <<home, mock, user, rows, doc, mail, audit>>

-----------------------------------------------------------------------------
WorkerStep(w) ==
  \/ LookUpRow(w) \/ Look(w) \/ Create(w) \/ SaveProvisioned(w) \/ MakeAdmin(w)
  \/ SaveExisting(w) \/ SaveFailed(w) \/ RowRaises(w)
  \/ Report(w) \/ ReportRefused(w) \/ Mail(w) \/ Finish(w)
FixStep(f) ==
  \/ Guard(f) \/ Look(f) \/ Create(f) \/ MakeAdmin(f) \/ Confirm(f) \/ SavePassword(f)
  \/ WriteFixed(f) \/ WriteFailed(f) \/ WriteLost(f) \/ Release(f) \/ AuditFix(f)

Next ==
  \/ \E w \in Workers : WorkerStarts(w) \/ WorkerStep(w) \/ WorkerDies(w)
  \/ \E f \in Fixes : FixStep(f)
  \/ \E m \in Marks : MarkHandled(m) \/ MarkLost(m)
  \/ \E f \in Clicks : Click(f)
  \/ \E s \in Servers : ServerDies(s)
  \/ Propagates \/ FixedByHand

Spec == Init /\ [][Next]_vars

(* Threads go on and an interrupted job is resumed; operators need not     *)
(* click.  Nothing is asked of Google: it may stay behind for ever.        *)
Fairness == /\ \A w \in Workers : WF_vars(WorkerStarts(w)) /\ WF_vars(WorkerStep(w))
            /\ \A f \in Fixes : WF_vars(FixStep(f))
FairSpec == Spec /\ Fairness
=============================================================================
