--------------------------- MODULE AdminProperties ---------------------------
(***************************************************************************)
(* What the operators may rely on: the list of failed admins and the       *)
(* buttons beside it.                                                      *)
(***************************************************************************)
EXTENDS AdminStep

(* admin_created says "whether the admin really exists with admin rights"  *)
(* (provisioning_service.py:244).  It does, whatever was lost, refused,    *)
(* retried or late, when the flag was earned at Google by this attempt or  *)
(* by a repair (step 4 of provision_company, repair_admin).  It does not   *)
(* always when the flag rests on a PROVISIONED row (lines 629-635), which  *)
(* is written before makeAdmin: an attempt that is resumed, or a second    *)
(* job of the domain, reports success for a user whose right was refused.  *)
(* Nor does it with the mock adapter, whose duplicate counts as an admin.  *)
(* In these two cases, and they are the only ones without an operator's    *)
(* word, the user at least exists.                                         *)
FlagIsEarned ==
  doc.created = "yes" /\ ~doc.byHand =>
    user.exists /\ (user.admin \/ mock \/ doc.byRow)

(* "The result is read back from Google before the job is marked fixed":   *)
(* when a repair writes its success, and when the history lists it, Google *)
(* shows the user as an admin, although makeAdmin's answer comes earlier.  *)
FixIsReadBack ==
  \/ \E f \in Fixes : pc[f] \in {"fixed", "audit"}
  \/ "repaired" \in audit
  => user.exists /\ user.admin /\ user.shown

(* On one server at most one repair of the job talks to Google; the guard  *)
(* is up exactly while one does.                                           *)
OneRepairPerServer ==
  \A s \in Servers :
    LET busy == {f \in Fixes : home[f] = s /\ pc[f] \in FixSteps \ {"guard", "audit"}} IN
      Cardinality(busy) = (IF running[s] THEN 1 ELSE 0)

(* A repair that fails never puts a domain back on the list, not even one  *)
(* that read the job before another repair or an operator took it off;     *)
(* only a resumed attempt at the job itself does.  Nor does a domain that  *)
(* was tried become untried ("manual" becoming "try") when two servers     *)
(* count their attempts up from the same value; a repair whose last write  *)
(* is lost may not count.                                                  *)
RepairNeverRelists ==
  [][/\ doc.created = "yes" /\ doc'.created # "yes" =>
          \E w \in Workers : pc[w] = "report" /\ pc'[w] = "mail"
     /\ doc.attempts > 0 => doc'.attempts > 0]_vars

(* The mail's block "Admin Credentials" is only ever about a user that     *)
(* exists, although its row may be an earlier attempt's, an earlier job's  *)
(* or a repair's (_send_notifications, 773-791).  That he is an admin, or  *)
(* still has this password, the mail does not know; and its other block    *)
(* names the standard password as the intended one for anybody, also for   *)
(* an address at which no user was created (792-812).                      *)
CredentialsNameAUser == mail = "credentials" => user.exists

(* The job is finished and every repair that was begun is answered, with   *)
(* its guard released, even if Google never catches up.                    *)
RepairsEnd ==
  <>[](/\ doc.finished
       /\ \A f \in Fixes : pc[f] \in Rest
       /\ \A s \in Servers : ~running[s])
=============================================================================
