----------------------------- MODULE MCAdminStep -----------------------------
(* Two attempts, two clicks on one server or on two, one "Mark handled"; a *)
(* new job of a domain without the user, with the customer's own admin, or *)
(* with an earlier job that made the user but no admin; and an old job.    *)
EXTENDS AdminProperties

CONSTANTS w1, w2, f1, f2, m1, s1, s2

Plain == [AdminUser EXCEPT !.admin = FALSE, !.shown = FALSE]
Provisioned == [status |-> "PROVISIONED", password |-> TRUE]
Failed == [status |-> "FAILED", password |-> FALSE]

MCStarts == {[old |-> FALSE, user |-> NoUser, rows |-> {}],
             [old |-> FALSE, user |-> AdminUser, rows |-> {}],
             [old |-> FALSE, user |-> Plain, rows |-> {Provisioned, Failed}],
             [old |-> TRUE, user |-> NoUser, rows |-> {}],
             [old |-> TRUE, user |-> Plain, rows |-> {Provisioned}]}
MCHomes == {[f \in Fixes |-> s1], [f \in Fixes |-> IF f = f1 THEN s1 ELSE s2]}
=============================================================================
