-------------------------- MODULE DomainProperties --------------------------
(***************************************************************************)
(* What must hold of the actions on a partner's domains.                   *)
(***************************************************************************)
EXTENDS DomainActions

Sold == SeatsOf({s \in Subs : google[s].held})
Counted == SumFunctionOnSet(InitialSeats, Subs)
Unlisted == SumFunctionOnSet([e \in missing |-> e.licences], missing)
Left == SumFunctionOnSet([r \in Requests |-> local[r].left], Requests)

(* Nothing is under way, and nothing died on the way.                      *)
Quiet == \A r \in Requests : pc[r] \in {"start"} \cup Answers

(* The actions on d are over, what became of them was seen, and no write   *)
(* of a document was refused, which the store only logs, or raised.        *)
AllSeen(d) == \A r \in Requests : DomainOf(r) = d =>
  pc[r] \in {"start"} \cup Answers /\ ~local[r].lost /\ local[r].left = 0 /\ r \notin unsaved

(* The domain lock does its work: of the requests for one domain only one  *)
(* is between its lock and its release (DomainService._domain_lock).       *)
OneActionPerDomain ==
  \A q, r \in Requests :
    /\ DomainOf(q) = DomainOf(r)
    /\ pc[q] \in Inside
    /\ pc[r] \in Inside
    => q = r

(* Licences are reserved before they are bought and released only after    *)
(* they are gone, so whatever fails, is repeated, or dies half-way, Google *)
(* never holds more for the partner than was counted, except for what an   *)
(* increase bought before it failed: its refund takes no account of that.  *)
SoldIsCounted == Sold <= used + Left

(* When all is done, nothing died and every call's outcome was seen, the   *)
(* partner's counter is exactly what Google holds: changes, transfers and  *)
(* failures have moved the two alike.                                      *)
BooksBalance ==
  (Quiet /\ Left = 0 /\ \A r \in Requests : ~local[r].lost) => used = Sold

(* The usage report, added up from the audit log (licence_usage), says     *)
(* what the actions did to the counter, whatever they met: a lost answer,  *)
(* a refund or release that raised, done or not.  It is off by the entries *)
(* it never got and by nothing else: those of actions that ended early on  *)
(* a write that raised (company, record, counter), and those whose own     *)
(* write failed, which _record swallows.                                   *)
ReportMatchesCounter ==
  Quiet /\ Left = 0 => used - Counted = NetChange + Unlisted

(* Our records follow Google: once the actions on a domain are answered,   *)
(* with their outcome seen and no write of the company or the record       *)
(* refused (the store only logs that, and the answer is still "ok") or     *)
(* raised, the record has the seats Google holds, a domain is marked       *)
(* transferred exactly if Google holds nothing for it, and a domain the    *)
(* partner suspended is never shown as active.  The plan statistics, which *)
(* only read our records, then count what Google holds.                    *)
RecordFollowsGoogle ==
  /\ \A d \in Domains : AllSeen(d) =>
       /\ company[d] = "TRANSFERRED" <=> Held(d) = {}
       /\ LocalSub[d] \in Held(d) =>
            /\ record[d].seats = google[LocalSub[d]].seats
            /\ Ours(LocalSub[d]) => company[d] = "SUSPENDED"
  /\ (\A d \in Domains : AllSeen(d)) =>
       \A plan \in {Plan[s] : s \in Subs} :
         LET named == {s \in Subs : google[s].held /\ LocalSub[Customer[s]] = s
                                    /\ Plan[s] = plan} IN
           PlanBreakdown(plan) = [total |-> Cardinality(named), licences |-> SeatsOf(named)]

(* A transfer cannot be undone: no later or slower action on the domain    *)
(* writes another status over it, and nothing touches Google's side again. *)
TransferIsFinal ==
  [][\A d \in Domains : company[d] = "TRANSFERRED" =>
       /\ company'[d] = "TRANSFERRED"
       /\ \A s \in Subs : Customer[s] = d => google'[s] = google[s]]_vars

(* In the end every request is answered, unless its process died, and no   *)
(* domain stays locked, whatever became of the request that locked it.     *)
EveryActionAnswered ==
  <>[](/\ \A r \in Requests : pc[r] \in Answers \cup {"dead"}
       /\ \A d \in Domains : ~lock[d].live)
=============================================================================
