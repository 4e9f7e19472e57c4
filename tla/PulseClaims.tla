---------------------------- MODULE PulseClaims ----------------------------
(***************************************************************************)
(* What the documentation and the comments of the repository say of the    *)
(* service where the code does otherwise.  Each statement is refuted by a  *)
(* run of its own, which shows the steps.                                  *)
(***************************************************************************)
EXTENDS PulseServer

(* "TTL Management: Automatic cleanup of inactive pods after 2 hours"      *)
(* (README_PROVISIONING.md): what belongs to an expired pod is eventually  *)
(* removed.  The sweep panics between the pod and its claim, and the row   *)
(* is marked expired by then, so that no later sweep returns to it.        *)
ExpiredGetsReleased ==
  \A p \in PulseIDs : (pods[p].status = "expired") ~> (Holds(p) = {})

(* "Default quotas per user: Max pods" (README_PROVISIONING.md): no user   *)
(* has more active pods than the quota row allows.  The count and the      *)
(* insert are separate statements, with the whole provision in between.    *)
QuotaRespected ==
  \A u \in Users : Cardinality(Active(u)) <= Ceiling(u)

(* "Default quotas per user" and "Multi-Tenancy" (README_PROVISIONING.md): *)
(* a user within the quota gets a pod when no call fails.  The default row *)
(* has no tenant, and the foreign key rejects the pod of a tenanted user.  *)
UndoneOnlyAfterFailure ==
  faults = 0 => \A h \in Handlers : req[h].pc \notin UndoSteps
=============================================================================
