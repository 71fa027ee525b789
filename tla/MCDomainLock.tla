---------------------------- MODULE MCDomainLock ----------------------------
(***************************************************************************)
(* Small instances of the domain lock for TLC.                             *)
(***************************************************************************)
EXTENDS DomainLock

CONSTANTS j1, j2, a1
=============================================================================
