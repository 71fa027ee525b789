---------------------------- MODULE MCGroupCommit ----------------------------
(***************************************************************************)
(* A small instance of the group commit for TLC.                           *)
(***************************************************************************)
EXTENDS GroupCommit, TLC

CONSTANTS c1, c2, c3, s1, s2

(* c1 and c2 share a server, c3 competes with them from another one.       *)
MCServerOf == [c \in Callers |-> IF c = c3 THEN s2 ELSE s1]

(* Two reservations of which the limit admits one, and a refund that is    *)
(* larger than what is held.                                               *)
MCDelta == [c \in Callers |-> IF c = c2 THEN -3 ELSE 1]
=============================================================================
