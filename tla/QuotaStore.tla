----------------------------- MODULE QuotaStore -----------------------------
(***************************************************************************)
(* The table pulse.quotas, for the rows of the users.  An operator may     *)
(* have inserted a row for a user and tenant (a "custom" row); the service *)
(* itself inserts "default" rows, always with a NULL tenant.  PostgreSQL   *)
(* takes NULLs as distinct in UNIQUE(user_id, tenant_id), so that nothing  *)
(* stops a second default row, nor one next to a custom row.               *)
(***************************************************************************)
EXTENDS Runtime

CONSTANTS Customised,   \* the users with a custom row
          Tenanted,     \* the users whose token carries a tenant
          Sizes,        \* the resource requests that are told apart
          MaxPods,      \* max_pods of a custom and of a default row
          Admits        \* the sizes a custom and a default row admit

QuotaKinds == {"custom", "default"}

ASSUME QuotaAssumption ==
  /\ Customised \subseteq Users
  /\ Tenanted \subseteq Users
  /\ MaxPods \in [QuotaKinds -> Nat]
  /\ Admits \in [QuotaKinds -> SUBSET Sizes]

VARIABLE defaults   \* the number of default rows of each user

QuotaTypeOK == defaults \in [Users -> Nat]

QuotaInit == defaults = [u \in Users |-> 0]

\* The kinds of row that GetByUserID may return: it has no ORDER BY.
QuotaRows(u) ==
  {k \in QuotaKinds : IF k = "custom" THEN u \in Customised ELSE defaults[u] > 0}

InsertDefault(u, o) ==
  defaults' = IF Takes(o) THEN [defaults EXCEPT ![u] = @ + 1] ELSE defaults

\* Constraint fk_user of pulse.pods: with a NULL tenant it is not checked,
\* with a tenant only a custom row satisfies it.
ForeignKeyHolds(u) == u \notin Tenanted \/ u \in Customised

\* The largest number of pods that a quota row can allow user u.
Ceiling(u) ==
  IF u \in Customised /\ MaxPods["custom"] > MaxPods["default"]
  THEN MaxPods["custom"] ELSE MaxPods["default"]
=============================================================================
