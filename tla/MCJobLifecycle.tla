--------------------------- MODULE MCJobLifecycle ---------------------------
(***************************************************************************)
(* Small instances of the job life cycle for TLC.                          *)
(***************************************************************************)
EXTENDS JobProperties, TLC

CONSTANTS j1, j2, j3, d1, d2, w1, w2, r1, r2

(* Jobs j1 and j2 compete for one domain, j3 has one of its own.           *)
MCDomainOf == [j \in Jobs |-> IF j = j3 THEN d2 ELSE d1]

(* j1 and j3 need several calls when Batch is 1.                           *)
MCSeats == [j \in Jobs |-> IF j = j2 THEN 2 ELSE 3]

(* d1 is a new customer; d2 already holds a subscription of one seat.      *)
MCInitialSeats == [d \in Domains |-> IF d = d1 THEN 0 ELSE 1]

(* Nothing tells workers, or sweeps, apart; used for safety only.          *)
MCSymmetry == Permutations(Workers) \cup Permutations(Reconcilers)
=============================================================================
