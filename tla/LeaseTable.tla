----------------------------- MODULE LeaseTable -----------------------------
(***************************************************************************)
(* What the pulse server promises of its pods, with no word of handlers,   *)
(* calls or processes: a pod is a lease.  A user u is granted a lease while*)
(* holding fewer than Limit[u]; a held lease falls due with time and is    *)
(* renewed by use; it expires only after a reaper noticed it to be due     *)
(* (it may have been renewed since); its owner may release it, expired or  *)
(* not; a lease that expired or was released is never held again.          *)
(***************************************************************************)
EXTENDS Naturals, FiniteSets

CONSTANTS Leases, Users, None, Limit

VARIABLES lease, owner, due, noticed

leaseVars == <<lease, owner, due, noticed>>

HeldBy(u) == {l \in Leases : lease[l] = "held" /\ owner[l] = u}

Init ==
  /\ lease = [l \in Leases |-> "free"]
  /\ owner = [l \in Leases |-> None]
  /\ due = {}
  /\ noticed = {}

Grant(l, u) ==
  /\ lease[l] = "free"
  /\ Cardinality(HeldBy(u)) < Limit[u]
  /\ lease' = [lease EXCEPT ![l] = "held"]
  /\ owner' = [owner EXCEPT ![l] = u]
  /\ UNCHANGED <<due, noticed>>

FallDue(l) ==
  /\ lease[l] = "held"
  /\ l \notin due
  /\ due' = due \cup {l}
  /\ UNCHANGED <<lease, owner, noticed>>

Renew(l) ==
  /\ lease[l] \in {"held", "expired"}
  /\ due' = due \ {l}
  /\ UNCHANGED <<lease, owner, noticed>>

\* The reaper notices due leases, or drops some it had noticed.
Notice ==
  /\ noticed' \in SUBSET (noticed \cup {l \in due : lease[l] = "held"})
  /\ UNCHANGED <<lease, owner, due>>

Expire(l) ==
  /\ lease[l] = "held"
  /\ l \in noticed
  /\ lease' = [lease EXCEPT ![l] = "expired"]
  /\ noticed' \in {noticed, noticed \ {l}}
  /\ UNCHANGED <<owner, due>>

Release(l) ==
  /\ lease[l] \in {"held", "expired"}
  /\ lease' = [lease EXCEPT ![l] = "released"]
  /\ UNCHANGED <<owner, due, noticed>>

Next ==
  \/ Notice
  \/ \E l \in Leases : \/ FallDue(l) \/ Renew(l) \/ Expire(l) \/ Release(l)
                       \/ \E u \in Users : Grant(l, u)

Spec == Init /\ [][Next]_leaseVars
=============================================================================
