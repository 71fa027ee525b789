-------------------------- MODULE MCDomainActions --------------------------
(***************************************************************************)
(* A small instance of the domain actions for TLC: two calls of any kind   *)
(* on d1, which has two flexible subscriptions, and an increase on d2,     *)
(* which has an annual one that our records do not name.                   *)
(***************************************************************************)
EXTENDS DomainProperties

CONSTANTS q1, q2, q3, d1, d2, s1, s2, s3

On(d, op, targets) == [op: {op}, domain: {d}, target: targets]

(* An increase of d1 takes two calls at Google when Batch is 1.            *)
MCCalls == [r \in Requests |->
  CASE r = q1 -> On(d1, "change", {4}) \cup On(d1, "suspend", {0}) \cup On(d1, "delete", {0})
    [] r = q2 -> On(d1, "change", {1}) \cup On(d1, "activate", {0}) \cup On(d1, "delete", {0})
    [] OTHER  -> On(d2, "change", {3})]
MCCustomer == [s \in Subs |-> IF s = s3 THEN d2 ELSE d1]
MCLocalSub == [d \in Domains |-> IF d = d1 THEN s1 ELSE NoSub]
MCPlan == [s \in Subs |-> IF s = s3 THEN "ANNUAL" ELSE "FLEXIBLE"]
MCInitialSeats == [s \in Subs |-> IF s = s1 THEN 2 ELSE 1]
MCMaxSeats == [p \in {"FLEXIBLE", "ANNUAL"} |-> 4]
=============================================================================
