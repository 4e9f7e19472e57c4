---------------------------- MODULE PulseServer ----------------------------
(***************************************************************************)
(* The whole service: the request handlers and the TTL sweep of one        *)
(* process over one database and one cluster, the life of that process     *)
(* (crash, SIGTERM, restart), and the clock.                               *)
(***************************************************************************)
EXTENDS ProvisionService, TTLManager

CONSTANT MaxStops   \* bound: crashes and SIGTERMs from outside

ASSUME StopsAssumption == MaxStops \in Nat

VARIABLE stops      \* crashes and SIGTERMs so far

vars == <<runtimeVars, clusterVars, storeVars, defaults, req, sweepVars, stops>>

TypeOK ==
  /\ RuntimeTypeOK
  /\ ClusterTypeOK
  /\ StoreTypeOK
  /\ QuotaTypeOK
  /\ ServiceTypeOK
  /\ SweepTypeOK
  /\ stops \in 0..MaxStops

Init ==
  /\ RuntimeInit
  /\ ClusterInit
  /\ StoreInit
  /\ QuotaInit
  /\ ServiceInit
  /\ SweepInit
  /\ stops = 0

\* The row lists the pulse as one whose objects are there.
Live(p) == pods[p].status = "pending" /\ ~ pods[p].deleted

\* A delete request that has begun to take the pulse's objects away.
BeingDeleted == {req[h].id : h \in {g \in Handlers : req[g].pc \in DeleteSteps}}

\* The objects that a goroutine has in hand before a step: those that a provision
\* has made, or that a removal has not come to yet.
InHand(pc) ==
  CASE pc \in {"addRow", "undoService", "delService"} -> Kinds
    [] pc \in {"addService", "undoPod", "delPod"} -> {"pv", "pvc", "pod"}
    [] pc \in {"addPod", "undoPVC", "delPVC"} -> {"pv", "pvc"}
    [] pc \in {"addPVC", "undoPV", "delPV"} -> {"pv"}
    [] OTHER -> {}

\* Some goroutine will still come to object k of pulse p.
Attended(k, p) ==
  \/ \E h \in Handlers : req[h].id = p /\ k \in InHand(req[h].pc)
  \/ sweep.cur = p /\ k \in InHand(sweep.pc)

-----------------------------------------------------------------------------
Service(h) == HandlerStep(h) /\ UNCHANGED <<sweepVars, stops>>
Client(h) == ClientStep(h) /\ UNCHANGED <<sweepVars, stops>>
Sweep == SweepStep /\ UNCHANGED <<defaults, req, stops>>

Time(p) ==
  /\ Lapse(p)
  /\ UNCHANGED <<runtimeVars, clusterVars, defaults, req, sweepVars, stops>>

\* What the goroutines leave to nobody if they end here: the objects in hand of a
\* pulse without a live row, a row whose objects are on their way out, a record of
\* the log that was next.
Unfinished ==
  {x \in objects : Attended(x[1], x[2]) /\ ~ Live(x[2])}
  \cup ({"row"} \X BeingDeleted)
  \cup ({"log"} \X {p \in PulseIDs : \E a \in LogSteps : Logging(a, p)})

\* The process ends and takes every goroutine with it.  Nothing is recorded of
\* what they were doing.
Ends ==
  /\ phase' = "down"
  /\ mishap' = mishap \cup Unfinished
  /\ req' = [h \in Handlers |-> Idle]
  /\ sweep' = Stopped
  /\ UNCHANGED <<faults, clusterVars, storeVars, defaults, billed>>

Outside ==
  /\ stops < MaxStops
  /\ stops' = stops + 1

\* The host or the container runtime kills the process.
Crash == phase # "down" /\ Outside /\ Ends

\* Mutant: the goroutine recovers and tries the same pod again.
DieRetries ==
  /\ SweepAt("panic")
  /\ SweepTo("delPod")
  /\ UNCHANGED <<runtimeVars, clusterVars, storeVars, defaults, req, billed, stops>>

\* The nil dereference in the sweep's goroutine.
Die == SweepAt("panic") /\ Ends /\ UNCHANGED stops

\* SIGTERM: main cancels the sweep's context and stops accepting requests.
Shutdown ==
  /\ phase = "up"
  /\ Outside
  /\ phase' = "draining"
  /\ UNCHANGED <<faults, mishap, clusterVars, storeVars, defaults, req, sweepVars>>

\* srv.Shutdown returns: the handlers are done, or thirty seconds are over.
Exit == phase = "draining" /\ Ends /\ UNCHANGED stops

Restart ==
  /\ phase = "down"
  /\ phase' = "up"
  /\ sweep' = Waiting
  /\ UNCHANGED <<faults, mishap, clusterVars, storeVars, defaults, req, billed, stops>>

Process == Crash \/ Die \/ Shutdown \/ Exit \/ Restart

Next ==
  \/ \E h \in Handlers : Service(h) \/ Client(h)
  \/ Sweep
  \/ \E p \in PulseIDs : Time(p)
  \/ Process

\* A goroutine that can take a step takes it; the ticker keeps ticking; main
\* exits when told to; the supervisor restarts the process.  Clients, the clock
\* and the failures owe nothing.
Fairness ==
  /\ \A h \in Handlers : WF_vars(Service(h))
  /\ WF_vars(Sweep)
  /\ WF_vars(Die)
  /\ WF_vars(Exit)
  /\ WF_vars(Restart)

Spec == Init /\ [][Next]_vars
FairSpec == Spec /\ Fairness

-----------------------------------------------------------------------------
(* A pod the API lists as pending has its volume, claim, pod and service:  *)
(* the row is written after the last object and taken out of "pending"     *)
(* before the first one is removed.  Two kinds of row are excepted: one    *)
(* whose owner's DELETE has begun to take the objects, and one that is     *)
(* wrong for good, because its insert took effect and reported an error,   *)
(* its soft delete failed, or the process stopped within the deletion.     *)
(* No failure of a Kubernetes call is excepted.                            *)
Backed ==
  \A p \in PulseIDs :
     Live(p) /\ p \notin BeingDeleted /\ <<"row", p>> \notin mishap => Holds(p) = Kinds

(* Object by object, what the service leaves behind and nothing else: an   *)
(* object belongs to a live row, or some goroutine still comes to it, or   *)
(* it is one of those that the code abandons:                              *)
(*   the object of a create call that reported an error but took effect;   *)
(*   the volume, when the claim cannot be created (CreatePVC) or deleted   *)
(*   (DeletePVC returns before it); the object whose own delete call       *)
(*   failed; the claim and the volume, when PodManager.DeletePod has       *)
(*   panicked under the sweep; all of a row that is marked expired while   *)
(*   the sweep sees an error; what was in hand when the process stopped.   *)
(* A failed call therefore costs no other object of the pulse, and a path  *)
(* whose calls succeed, the sweep's panic apart, costs none.               *)
NothingForgotten ==
  \A p \in PulseIDs :
     \A k \in Holds(p) : Live(p) \/ Attended(k, p) \/ <<k, p>> \in mishap

(* The activity log is complete: a pod whose row exists was logged as      *)
(* created and one that its owner deleted was logged as stopped, or the    *)
(* handler is about to do so.  The record is lost, its error being         *)
(* ignored, when the log call itself fails, when the row call before it    *)
(* took effect but reported an error, and when the process stops between   *)
(* the two: these are excepted.  Nothing is said of the record "expired",  *)
(* which the panic of the sweep precedes.                                  *)
AuditComplete ==
  \A p \in PulseIDs : <<"log", p>> \notin mishap =>
     /\ pods[p].status # "absent" => <<"created", p>> \in activities \/ Logging("logCreated", p)
     /\ pods[p].deleted => <<"stopped", p>> \in activities \/ Logging("logStopped", p)

(* How far concurrent provisions can overrun a quota: each of them counts  *)
(* before any inserts its row, so that a user ends up with at most one pod *)
(* more than the quota for every other handler, whatever fails.            *)
QuotaBound ==
  \A u \in Users :
     Cardinality(Active(u)) + Cardinality(Admitted(u)) < Ceiling(u) + Cardinality(Handlers)

(* A user gets more than one quota row only from as many concurrent first  *)
(* requests or from failed reads, which GetOrCreateDefault takes for "no   *)
(* row": a first request that was answered leaves a row for all others.    *)
QuotaRowBound ==
  \A u \in Users :
     defaults[u] + (IF u \in Customised THEN 1 ELSE 0) <= Cardinality(Handlers) + faults

(* The cost of a pod is added to the metrics before its row is marked, so  *)
(* that it is billed again after a failure in between, but only then: once *)
(* per failed call and once per stop of the process.  An expired pod has   *)
(* been billed.                                                            *)
BilledOncePerFailure ==
  \A p \in PulseIDs :
     /\ billed[p] <= 1 + faults + stops
     /\ pods[p].status = "expired" => billed[p] > 0

(* A handler that got past the ownership check of its endpoint acts on a   *)
(* row of its own user, although the service looks the row up again.       *)
OwnRowsOnly ==
  \A h \in Handlers :
     req[h].pc \in DeleteSteps \cup {"getDelete", "logStopped", "getTouch", "touch"}
       => pods[req[h].id].user = req[h].user

-----------------------------------------------------------------------------
(* A pod whose time is up does not stay: the sweep marks it expired, or    *)
(* its owner uses or deletes it, through failed calls, stops and restarts. *)
(* In a sweep of several pods the panic comes over the first one that is   *)
(* deleted, and drops the snapshot with the others in it: they must be     *)
(* found again after the restart.                                          *)
ReapedOrUsed ==
  \A p \in PulseIDs : (p \in ExpiredPods) ~> (p \notin ExpiredPods)

(* Every request is answered, or its process ends.                         *)
Answered ==
  \A h \in Handlers : (req[h].pc # "idle") ~> (req[h].pc = "idle")

-----------------------------------------------------------------------------
\* The lease that a row stands for.
LeaseOf(r) ==
  IF r.deleted THEN "released"
  ELSE CASE r.status = "absent" -> "free"
         [] r.status = "pending" -> "held"
         [] r.status = "expired" -> "expired"

Lease == INSTANCE LeaseTable WITH
  Leases <- PulseIDs,
  Limit <- [u \in Users |-> Ceiling(u) + Cardinality(Handlers) - 1],
  lease <- [p \in PulseIDs |-> LeaseOf(pods[p])],
  owner <- [p \in PulseIDs |-> pods[p].user],
  due <- {p \in PulseIDs : pods[p].lapsed},
  noticed <- sweep.queue \cup InSweep

(* The table of pods, seen through its rows, is a lease table.             *)
ImplementsLeases == Lease!Spec
=============================================================================
