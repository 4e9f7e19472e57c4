----------------------------- MODULE TTLManager -----------------------------
(***************************************************************************)
(* The background sweep of TTLManager: one goroutine, which on a tick      *)
(* reads the expired rows and cleans them up one after the other.  It      *)
(* works on the rows as that query returned them and never reads them      *)
(* again.  Its context is the one main cancels on SIGTERM.                 *)
(***************************************************************************)
EXTENDS Runtime, Cluster, PodStore

VARIABLES
  sweep,    \* next step, pods of the snapshot still to do, pod at hand
  billed    \* history: how often the cost of a pulse was added to the metrics

sweepVars == <<sweep, billed>>

SweepSteps == {"waiting", "next", "mark", "delService", "delPod", "delPVC",
               "delPV", "log", "panic", "stopped"}

SweepTypeOK ==
  /\ sweep \in [pc : SweepSteps, queue : SUBSET PulseIDs, cur : PulseIDs \cup {None}]
  /\ sweep.cur = None <=> sweep.pc \in {"waiting", "next", "stopped"}
  /\ billed \in [PulseIDs -> Nat]

Waiting == [pc |-> "waiting", queue |-> {}, cur |-> None]
Stopped == [Waiting EXCEPT !.pc = "stopped"]

SweepInit ==
  /\ sweep = Waiting
  /\ billed = [p \in PulseIDs |-> 0]

\* The pulse that the sweep is tearing down.
InSweep == {sweep.cur} \ {None}

SweepAt(pc) == sweep.pc = pc
SweepCtx == IF phase = "up" THEN "live" ELSE "cancelled"
SweepCall(pc, o) == SweepAt(pc) /\ Call(SweepCtx, o)
SweepTo(pc) == sweep' = [sweep EXCEPT !.pc = pc]

\* Mutant: the pod at hand is not put away.
NextPodKeepsCur == sweep' = [sweep EXCEPT !.pc = "next"]

NextPod == sweep' = [sweep EXCEPT !.pc = "next", !.cur = None]

\* A tick: GetExpiredPods.  On an error the loop waits for the next tick.
Tick(o) ==
  /\ SweepAt("waiting")
  /\ Query(SweepCtx, o)
  /\ IF o = "ok" /\ ExpiredPods # {}
     THEN sweep' = [Waiting EXCEPT !.pc = "next", !.queue = ExpiredPods]
     ELSE UNCHANGED sweep
  /\ UNCHANGED <<phase, mishap, clusterVars, storeVars, billed>>

\* <-ctx.Done()
Stop ==
  /\ SweepAt("waiting")
  /\ SweepCtx = "cancelled"
  /\ sweep' = Stopped
  /\ UNCHANGED <<runtimeVars, clusterVars, storeVars, billed>>

\* Mutant: the objects go before the row is marked.
BillThenDelete(p) ==
  /\ SweepAt("next")
  /\ p \in sweep.queue
  /\ billed' = [billed EXCEPT ![p] = @ + 1]
  /\ sweep' = [pc |-> "delService", queue |-> sweep.queue \ {p}, cur |-> p]
  /\ UNCHANGED <<runtimeVars, clusterVars, storeVars>>

\* The next pod of the snapshot: its cost goes to the metrics first.  The order
\* of the rows, by expires_at, is abstracted to any order.
Bill(p) ==
  /\ SweepAt("next")
  /\ p \in sweep.queue
  /\ billed' = [billed EXCEPT ![p] = @ + 1]
  /\ sweep' = [pc |-> "mark", queue |-> sweep.queue \ {p}, cur |-> p]
  /\ UNCHANGED <<runtimeVars, clusterVars, storeVars>>

EndSweep ==
  /\ SweepAt("next")
  /\ sweep.queue = {}
  /\ sweep' = Waiting
  /\ UNCHANGED <<runtimeVars, clusterVars, storeVars, billed>>

\* UpdateStatus.  If it fails, the pod is skipped with everything left in place
\* for the next sweep; but a row that was marked all the same is not returned again.
Mark(o) ==
  /\ SweepCall("mark", o)
  /\ UpdateStatus(sweep.cur, o)
  /\ Leaves(When(o = "lost", Kinds), sweep.cur)
  /\ IF o = "ok" /\ Visible(sweep.cur) THEN SweepTo("delService") ELSE NextPod
  /\ UNCHANGED <<phase, clusterVars, billed>>

SweepDeletes(pc, k, o) ==
  /\ SweepCall(pc, o)
  /\ DeleteObject(k, sweep.cur, o)
  /\ UNCHANGED <<phase, storeVars, billed>>

SweepDelService(o) ==
  /\ SweepDeletes("delService", "service", o)
  /\ Leaves(LeftBy("service", o), sweep.cur)
  /\ SweepTo("delPod")

\* PodManager.DeletePod reads the RequestContext of its context, which only the
\* HTTP middleware sets.  After a successful call it dereferences it: the
\* goroutine panics, nothing recovers, and nobody comes for the claim and the
\* volume any more.  After a failed call it returns before.
SweepDelPod(o) ==
  /\ SweepDeletes("delPod", "pod", o)
  /\ Leaves(IF o = "ok" THEN {"pvc", "pv"} ELSE LeftBy("pod", o), sweep.cur)
  /\ SweepTo(IF o = "ok" THEN "panic" ELSE "delPVC")

SweepDelPVC(o) ==
  /\ SweepDeletes("delPVC", "pvc", o)
  /\ Leaves(LeftBy("pvc", o), sweep.cur)
  /\ SweepTo(IF o = "ok" THEN "delPV" ELSE "log")

SweepDelPV(o) ==
  /\ SweepDeletes("delPV", "pv", o)
  /\ Leaves(LeftBy("pv", o), sweep.cur)
  /\ SweepTo("log")

SweepLog(o) ==
  /\ SweepCall("log", o)
  /\ LogActivity("expired", sweep.cur, o)
  /\ NextPod
  /\ UNCHANGED <<phase, mishap, clusterVars, billed>>

CleanupStep(o) ==
  \/ Mark(o) \/ SweepDelService(o) \/ SweepDelPod(o) \/ SweepDelPVC(o)
  \/ SweepDelPV(o) \/ SweepLog(o)

SweepStep ==
  \/ \E o \in Outcomes : Tick(o) \/ CleanupStep(o)
  \/ \E p \in PulseIDs : Bill(p)
  \/ EndSweep
  \/ Stop
=============================================================================
