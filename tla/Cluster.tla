------------------------------ MODULE Cluster ------------------------------
(***************************************************************************)
(* The Kubernetes objects of the pulses, as the managers in internal/k8s   *)
(* see them: an object exists from the create call that takes effect to    *)
(* the delete call that does.  The names of a pulse's objects derive from  *)
(* its id; they are taken to be distinct, as the code takes them to be.    *)
(* A create of an existing object answers AlreadyExists and a delete of a  *)
(* missing one NotFound, and the managers treat both as success.           *)
(***************************************************************************)
EXTENDS Runtime

CONSTANTS Namespaces,    \* namespace names, one per tenant
          NamespaceOf    \* the namespace of each user's tenant

ASSUME NamespaceAssumption == NamespaceOf \in [Users -> Namespaces]

VARIABLES objects, namespaces

clusterVars == <<objects, namespaces>>

Kinds == {"pv", "pvc", "pod", "service"}

ClusterTypeOK ==
  /\ objects \in SUBSET (Kinds \X PulseIDs)
  /\ namespaces \in SUBSET Namespaces

ClusterInit ==
  /\ objects = {}
  /\ namespaces = {}

\* The objects of pulse p that exist.
Holds(p) == {k \in Kinds : <<k, p>> \in objects}

CreateObject(k, p, o) ==
  /\ objects' = IF Takes(o) THEN objects \cup {<<k, p>>} ELSE objects
  /\ UNCHANGED namespaces

DeleteObject(k, p, o) ==
  /\ objects' = IF Takes(o) THEN objects \ {<<k, p>>} ELSE objects
  /\ UNCHANGED namespaces

\* What a delete call of kind k leaves that no call removes any more: its object
\* if it failed, and the volume of a claim, since DeletePVC returns on an error
\* before it comes to the volume.
LeftBy(k, o) == When(~ Takes(o), {k}) \cup When(k = "pvc" /\ o # "ok", {"pv"})

CreateNamespace(n, o) ==
  /\ namespaces' = IF Takes(o) THEN namespaces \cup {n} ELSE namespaces
  /\ UNCHANGED objects
=============================================================================
