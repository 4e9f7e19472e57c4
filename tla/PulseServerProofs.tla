------------------------- MODULE PulseServerProofs -------------------------
(***************************************************************************)
(* Theorems about PulseServer for every set of pulses, users and handlers, *)
(* every quota and every bound on failures and stops.                      *)
(***************************************************************************)
EXTENDS PulseServer, FiniteSetTheorems, TLAPS

-----------------------------------------------------------------------------
\* What the parts of a step do to the types.

LEMMA CallType ==
  ASSUME RuntimeTypeOK, NEW c, NEW o, Call(c, o)
  PROVE  faults' \in 0..MaxFaults
BY FaultsAssumption DEF RuntimeTypeOK, Call, Fault

LEMMA LeavesType ==
  ASSUME RuntimeTypeOK, NEW p \in PulseIDs, NEW ws \in SUBSET Harms, Leaves(ws, p)
  PROVE  mishap' \subseteq Harms \X PulseIDs
BY DEF RuntimeTypeOK, Leaves

\* A step of handler h leaves some harms of its pulse to nobody.
Spoils(h) == \E ws \in SUBSET Harms : Leaves(ws, req[h].id)

LEMMA HarmsKinds ==
  /\ Kinds \subseteq Harms
  /\ \A k \in Kinds : \A o : LeftBy(k, o) \in SUBSET Harms
BY DEF Kinds, Harms, LeftBy, When

LEMMA CreatesSpoils ==
  ASSUME NEW h, NEW o, AddPV(h, o) \/ AddPVC(h, o) \/ AddPod(h, o) \/ AddService(h, o)
  PROVE  Spoils(h)
<1> USE DEF Spoils, When, Harms
<1>1. CASE AddPV(h, o)
  BY <1>1 DEF AddPV
<1>2. CASE AddPVC(h, o)
  BY <1>2 DEF AddPVC
<1>3. CASE AddPod(h, o)
  BY <1>3 DEF AddPod
<1>4. CASE AddService(h, o)
  BY <1>4 DEF AddService
<1> QED BY <1>1, <1>2, <1>3, <1>4

LEMMA ObjectType ==
  ASSUME ClusterTypeOK, NEW k \in Kinds, NEW p \in PulseIDs, NEW o,
         CreateObject(k, p, o) \/ DeleteObject(k, p, o)
  PROVE  ClusterTypeOK'
BY DEF ClusterTypeOK, CreateObject, DeleteObject

LEMMA RowType ==
  ASSUME StoreTypeOK, NEW p \in PulseIDs, NEW u \in Users, NEW o,
         \/ InsertRow(p, u, o) \/ UpdateStatus(p, o) \/ UpdateActivity(p, o)
         \/ SoftDelete(p, o) \/ Lapse(p)
  PROVE  StoreTypeOK'
<1>1. /\ StoreTypeOK /\ activities' = activities
  BY DEF InsertRow, UpdateStatus, UpdateActivity, SoftDelete, Lapse
<1>2. pods[p] \in Rows
  BY DEF StoreTypeOK
<1>3. pods' \in [PulseIDs -> Rows]
  <2>1. CASE InsertRow(p, u, o)
    BY <2>1 DEF InsertRow, StoreTypeOK, Rows, Statuses
  <2>2. CASE UpdateStatus(p, o)
    BY <1>2, <2>2 DEF UpdateStatus, StoreTypeOK, Rows, Statuses
  <2>3. CASE UpdateActivity(p, o)
    BY <1>2, <2>3 DEF UpdateActivity, StoreTypeOK, Rows, Statuses
  <2>4. CASE SoftDelete(p, o)
    BY <1>2, <2>4 DEF SoftDelete, StoreTypeOK, Rows, Statuses
  <2>5. CASE Lapse(p)
    BY <1>2, <2>5 DEF Lapse, StoreTypeOK, Rows, Statuses
  <2>6. QED  BY <2>1, <2>2, <2>3, <2>4, <2>5
<1>4. QED  BY <1>1, <1>3 DEF StoreTypeOK

LEMMA ActivityType ==
  ASSUME StoreTypeOK, NEW t \in ActivityTypes, NEW p \in PulseIDs, NEW o,
         LogActivity(t, p, o)
  PROVE  StoreTypeOK'
BY DEF StoreTypeOK, LogActivity

LEMMA DefaultType ==
  ASSUME QuotaTypeOK, NEW u \in Users, NEW o, InsertDefault(u, o)
  PROVE  QuotaTypeOK'
BY DEF QuotaTypeOK, InsertDefault

\* A handler that is not idle works on a request.
LEMMA BusyRequest ==
  ASSUME ServiceTypeOK, NEW h \in Handlers, req[h].pc # "idle"
  PROVE  req[h] \in Requests
BY DEF ServiceTypeOK, Idle

LEMMA GotoType ==
  ASSUME ServiceTypeOK, NEW h \in Handlers, req[h].pc # "idle",
         NEW pc \in Steps, Goto(h, pc)
  PROVE  ServiceTypeOK'
<1>1. req[h] \in Requests  BY BusyRequest
<1>2. [req[h] EXCEPT !.pc = pc] \in Requests  BY <1>1 DEF Requests
<1>3. req' = [req EXCEPT ![h] = [req[h] EXCEPT !.pc = pc]]  BY DEF Goto
<1>4. QED  BY <1>2, <1>3 DEF ServiceTypeOK

LEMMA FinishType ==
  ASSUME ServiceTypeOK, NEW h \in Handlers, Finish(h)
  PROVE  ServiceTypeOK'
BY DEF ServiceTypeOK, Finish

LEMMA GotoIfType ==
  ASSUME ServiceTypeOK, NEW h \in Handlers, req[h].pc # "idle",
         NEW pc \in Steps, NEW ok, GotoIf(ok, h, pc)
  PROVE  ServiceTypeOK'
BY GotoType, FinishType DEF GotoIf

LEMMA QuotedType ==
  ASSUME ServiceTypeOK, NEW h \in Handlers, req[h].pc # "idle",
         NEW k \in QuotaKinds, Quoted(h, k)
  PROVE  ServiceTypeOK'
<1>1. CASE req[h].size \in Admits[k]
  <2>1. req[h] \in Requests  BY BusyRequest
  <2>2. [req[h] EXCEPT !.pc = "count", !.limit = k] \in Requests
    BY <2>1 DEF Requests, Steps, QuotaSteps
  <2>3. req' = [req EXCEPT ![h] = [req[h] EXCEPT !.pc = "count", !.limit = k]]
    BY <1>1 DEF Quoted
  <2>4. QED  BY <2>2, <2>3 DEF ServiceTypeOK
<1>2. CASE req[h].size \notin Admits[k]
  BY <1>2, FinishType DEF Quoted
<1>3. QED  BY <1>1, <1>2

-----------------------------------------------------------------------------
\* The state that the steps of a handler share with the rest of the system.
WorldTypeOK == RuntimeTypeOK /\ ClusterTypeOK /\ StoreTypeOK /\ QuotaTypeOK

LEMMA ReadsType ==
  ASSUME WorldTypeOK, NEW h \in Handlers, NEW pc, NEW o, Reads(h, pc, o)
  PROVE  WorldTypeOK'
<1>1. RuntimeTypeOK'
  BY CallType DEF WorldTypeOK, Reads, Query, RuntimeTypeOK
<1>2. ClusterTypeOK' /\ StoreTypeOK' /\ QuotaTypeOK'
  BY DEF WorldTypeOK, Reads, clusterVars, storeVars, ClusterTypeOK, StoreTypeOK, QuotaTypeOK
<1>3. QED  BY <1>1, <1>2 DEF WorldTypeOK

LEMMA ObjectStepType ==
  ASSUME WorldTypeOK, ServiceTypeOK, NEW h \in Handlers, NEW pc \in Steps,
         NEW k \in Kinds, NEW o,
         \/ Creates(h, pc, k, o) /\ Spoils(h)
         \/ Deletes(h, pc, k, o)
  PROVE  WorldTypeOK'
<1>1. req[h].id \in PulseIDs
  BY BusyRequest DEF Creates, Deletes, At, Requests, Steps, QuotaSteps, NamespaceSteps,
     CreateSteps, UndoSteps, DeleteSteps, LogSteps, LookupSteps
<1>2. RuntimeTypeOK'
  <2>1. \E ws \in SUBSET Harms : Leaves(ws, req[h].id)
    BY HarmsKinds DEF Deletes, Spoils
  <2> QED BY <1>1, <2>1, CallType, LeavesType DEF WorldTypeOK, Creates, Deletes, RuntimeTypeOK
<1>3. ClusterTypeOK'
  BY <1>1, ObjectType DEF WorldTypeOK, Creates, Deletes
<1>4. StoreTypeOK' /\ QuotaTypeOK'
  BY DEF WorldTypeOK, Creates, Deletes, storeVars, StoreTypeOK, QuotaTypeOK
<1>5. QED  BY <1>2, <1>3, <1>4 DEF WorldTypeOK

LEMMA LogsType ==
  ASSUME WorldTypeOK, ServiceTypeOK, NEW h \in Handlers, NEW pc \in LogSteps,
         NEW t \in ActivityTypes, NEW o, Logs(h, pc, t, o)
  PROVE  WorldTypeOK' /\ ServiceTypeOK'
<1>1. req[h].id \in PulseIDs
  BY BusyRequest DEF Logs, At, Requests, LogSteps
<1>2. RuntimeTypeOK'
  <2>1. \E ws \in SUBSET Harms : Leaves(ws, req[h].id)
    BY DEF Logs, When, Harms
  <2> QED BY <1>1, <2>1, CallType, LeavesType DEF WorldTypeOK, Logs, RuntimeTypeOK
<1>3. StoreTypeOK'
  BY <1>1, ActivityType DEF WorldTypeOK, Logs
<1>4. ClusterTypeOK' /\ QuotaTypeOK'
  BY DEF WorldTypeOK, Logs, clusterVars, ClusterTypeOK, QuotaTypeOK
<1>5. QED  BY <1>2, <1>3, <1>4, FinishType DEF WorldTypeOK, Logs

LEMMA QuotaStepType ==
  ASSUME WorldTypeOK, ServiceTypeOK, NEW h \in Handlers, NEW o, QuotaStep(h, o)
  PROVE  WorldTypeOK' /\ ServiceTypeOK'
<1> USE DEF At, Steps, QuotaSteps, NamespaceSteps
<1>1. CASE GetQuota(h, o)
  BY <1>1, ReadsType, QuotedType, GotoType DEF GetQuota, Reads, QuotaRows
<1>2. CASE AddQuota(h, o)
  <2>1. req[h].user \in Users
    BY <1>2, BusyRequest DEF AddQuota, Requests
  <2>2. RuntimeTypeOK' /\ QuotaTypeOK'
    BY <1>2, <2>1, CallType, DefaultType DEF AddQuota, WorldTypeOK, RuntimeTypeOK
  <2>3. ClusterTypeOK' /\ StoreTypeOK'
    BY <1>2 DEF AddQuota, WorldTypeOK, clusterVars, storeVars, ClusterTypeOK, StoreTypeOK
  <2>4. ServiceTypeOK'
    BY <1>2, QuotedType, GotoType DEF AddQuota, QuotaKinds
  <2>5. QED  BY <2>2, <2>3, <2>4 DEF WorldTypeOK
<1>3. CASE RegetQuota(h, o)
  BY <1>3, ReadsType, QuotedType, FinishType DEF RegetQuota, Reads, QuotaRows
<1>4. CASE Count(h, o)
  <2>1. req[h] \in Requests
    BY <1>4, BusyRequest DEF Count, Reads
  <2>2. [req[h] EXCEPT !.pc = "getNamespace", !.limit = "none"] \in Requests
    BY <2>1 DEF Requests
  <2>3. ServiceTypeOK'
    <3>1. CASE Finish(h)
      BY <3>1, FinishType
    <3>2. CASE req' = [req EXCEPT ![h].pc = "getNamespace", ![h].limit = "none"]
      <4>1. req' = [req EXCEPT ![h] = [req[h] EXCEPT !.pc = "getNamespace", !.limit = "none"]]
        BY <3>2
      <4>2. QED  BY <4>1, <2>2 DEF ServiceTypeOK
    <3>3. QED  BY <3>1, <3>2, <1>4 DEF Count
  <2>4. QED  BY <1>4, <2>3, ReadsType DEF Count
<1>5. QED  BY <1>1, <1>2, <1>3, <1>4 DEF QuotaStep

LEMMA CreateStepType ==
  ASSUME WorldTypeOK, ServiceTypeOK, NEW h \in Handlers, NEW o, CreateStep(h, o)
  PROVE  WorldTypeOK' /\ ServiceTypeOK'
<1> USE DEF At, Steps, NamespaceSteps, CreateSteps, UndoSteps, LogSteps, Kinds
<1>1. CASE GetNamespace(h, o)
  BY <1>1, ReadsType, GotoIfType DEF GetNamespace, Reads
<1>2. CASE AddNamespace(h, o)
  <2>1. NamespaceOf[req[h].user] \in Namespaces
    BY <1>2, BusyRequest, NamespaceAssumption DEF AddNamespace, Requests
  <2>2. RuntimeTypeOK' /\ ClusterTypeOK'
    BY <1>2, <2>1, CallType
       DEF AddNamespace, CreateNamespace, WorldTypeOK, RuntimeTypeOK, ClusterTypeOK
  <2>3. StoreTypeOK' /\ QuotaTypeOK'
    BY <1>2 DEF AddNamespace, WorldTypeOK, storeVars, StoreTypeOK, QuotaTypeOK
  <2>4. ServiceTypeOK'
    BY <1>2, GotoIfType DEF AddNamespace
  <2>5. QED  BY <2>2, <2>3, <2>4 DEF WorldTypeOK
<1>3. CASE RegetNamespace(h, o)
  BY <1>3, ReadsType, GotoIfType DEF RegetNamespace, Reads
<1>4. CASE AddPV(h, o)
  BY <1>4, CreatesSpoils, ObjectStepType, GotoIfType DEF AddPV, Creates
<1>5. CASE AddPVC(h, o)
  BY <1>5, CreatesSpoils, ObjectStepType, GotoIfType DEF AddPVC, Creates
<1>6. CASE AddPod(h, o)
  BY <1>6, CreatesSpoils, ObjectStepType, GotoType DEF AddPod, Creates
<1>7. CASE AddService(h, o)
  BY <1>7, CreatesSpoils, ObjectStepType, GotoType DEF AddService, Creates
<1>8. CASE AddRow(h, o)
  <2>1. req[h].id \in PulseIDs /\ req[h].user \in Users
    BY <1>8, BusyRequest DEF AddRow, Requests
  <2>2. faults' \in 0..MaxFaults
    BY <1>8, CallType DEF AddRow, RowAnswer, WorldTypeOK, RuntimeTypeOK
  <2>3. RuntimeTypeOK'
    <3>1. \E ws \in SUBSET Harms : Leaves(ws, req[h].id)
      BY <1>8 DEF AddRow, When, Harms
    <3> QED BY <1>8, <2>1, <2>2, <3>1, LeavesType DEF AddRow, WorldTypeOK, RuntimeTypeOK
  <2>4. StoreTypeOK'
    BY <1>8, <2>1, RowType DEF AddRow, WorldTypeOK
  <2>5. ClusterTypeOK' /\ QuotaTypeOK'
    BY <1>8 DEF AddRow, WorldTypeOK, clusterVars, ClusterTypeOK, QuotaTypeOK
  <2>6. ServiceTypeOK'
    BY <1>8, GotoType DEF AddRow
  <2>7. QED  BY <2>3, <2>4, <2>5, <2>6 DEF WorldTypeOK
<1>9. CASE LogCreated(h, o)
  BY <1>9, LogsType DEF LogCreated, ActivityTypes
<1>10. QED
  BY <1>1, <1>2, <1>3, <1>4, <1>5, <1>6, <1>7, <1>8, <1>9 DEF CreateStep

LEMMA UndoStepType ==
  ASSUME WorldTypeOK, ServiceTypeOK, NEW h \in Handlers, NEW o, UndoStep(h, o)
  PROVE  WorldTypeOK' /\ ServiceTypeOK'
<1> USE ObjectStepType DEF At, Steps, UndoSteps, Kinds, Deletes
<1>1. CASE UndoService(h, o)
  BY <1>1, GotoType DEF UndoService
<1>2. CASE UndoPod(h, o)
  BY <1>2, GotoType DEF UndoPod
<1>3. CASE UndoPVC(h, o)
  BY <1>3, GotoIfType DEF UndoPVC
<1>4. CASE UndoPV(h, o)
  BY <1>4, FinishType DEF UndoPV
<1>5. QED  BY <1>1, <1>2, <1>3, <1>4 DEF UndoStep

LEMMA DeleteStepType ==
  ASSUME WorldTypeOK, ServiceTypeOK, NEW h \in Handlers, NEW o, DeleteStep(h, o)
  PROVE  WorldTypeOK' /\ ServiceTypeOK'
<1> USE DEF At, Steps, LookupSteps, DeleteSteps, LogSteps, Kinds
<1>1. CASE OwnDelete(h, o)
  BY <1>1, ReadsType, GotoIfType DEF OwnDelete, Owned, Reads
<1>2. CASE GetDelete(h, o)
  BY <1>2, ReadsType, GotoIfType DEF GetDelete, Found, Reads
<1>3. CASE DelService(h, o)
  BY <1>3, ObjectStepType, GotoType DEF DelService, Deletes
<1>4. CASE DelPod(h, o)
  BY <1>4, ObjectStepType, GotoType DEF DelPod, Deletes
<1>5. CASE DelPVC(h, o)
  BY <1>5, ObjectStepType, GotoType DEF DelPVC, Deletes
<1>6. CASE DelPV(h, o)
  BY <1>6, ObjectStepType, GotoType DEF DelPV, Deletes
<1>7. CASE MarkDeleted(h, o)
  <2>1. req[h].id \in PulseIDs /\ req[h].user \in Users
    BY <1>7, BusyRequest DEF MarkDeleted, Requests
  <2>2. RuntimeTypeOK'
    <3>1. \E ws \in SUBSET Harms : Leaves(ws, req[h].id)
      BY <1>7 DEF MarkDeleted, When, Harms
    <3> QED
      BY <1>7, <2>1, <3>1, CallType, LeavesType DEF MarkDeleted, WorldTypeOK, RuntimeTypeOK
  <2>3. StoreTypeOK'
    BY <1>7, <2>1, RowType DEF MarkDeleted, WorldTypeOK
  <2>4. ClusterTypeOK' /\ QuotaTypeOK'
    BY <1>7 DEF MarkDeleted, WorldTypeOK, clusterVars, ClusterTypeOK, QuotaTypeOK
  <2>5. ServiceTypeOK'
    BY <1>7, GotoIfType DEF MarkDeleted
  <2>6. QED  BY <2>2, <2>3, <2>4, <2>5 DEF WorldTypeOK
<1>8. CASE LogStopped(h, o)
  BY <1>8, LogsType DEF LogStopped, ActivityTypes
<1>9. QED
  BY <1>1, <1>2, <1>3, <1>4, <1>5, <1>6, <1>7, <1>8 DEF DeleteStep

LEMMA TouchStepType ==
  ASSUME WorldTypeOK, ServiceTypeOK, NEW h \in Handlers, NEW o, TouchStep(h, o)
  PROVE  WorldTypeOK' /\ ServiceTypeOK'
<1> USE DEF At, Steps, LookupSteps
<1>1. CASE OwnTouch(h, o)
  BY <1>1, ReadsType, GotoIfType DEF OwnTouch, Owned, Reads
<1>2. CASE GetTouch(h, o)
  BY <1>2, ReadsType, GotoIfType DEF GetTouch, Found, Reads
<1>3. CASE Touch(h, o)
  <2>1. req[h].id \in PulseIDs /\ req[h].user \in Users
    BY <1>3, BusyRequest DEF Touch, Requests
  <2>2. RuntimeTypeOK'
    BY <1>3, CallType DEF Touch, WorldTypeOK, RuntimeTypeOK
  <2>3. StoreTypeOK'
    BY <1>3, <2>1, RowType DEF Touch, WorldTypeOK
  <2>4. ClusterTypeOK' /\ QuotaTypeOK'
    BY <1>3 DEF Touch, WorldTypeOK, clusterVars, ClusterTypeOK, QuotaTypeOK
  <2>5. QED  BY <1>3, <2>2, <2>3, <2>4, FinishType DEF Touch, WorldTypeOK
<1>4. QED  BY <1>1, <1>2, <1>3 DEF TouchStep

LEMMA ClientStepType ==
  ASSUME WorldTypeOK, ServiceTypeOK, NEW h \in Handlers, ClientStep(h)
  PROVE  WorldTypeOK' /\ ServiceTypeOK'
<1>1. ASSUME NEW pc \in Steps, NEW p \in PulseIDs, NEW u \in Users,
             NEW z \in Sizes \cup {None}, Arrive(h, pc, p, u, z)
      PROVE  WorldTypeOK' /\ ServiceTypeOK'
  <2>1. [pc |-> pc, id |-> p, user |-> u, size |-> z, limit |-> "none", ctx |-> "live"]
          \in Requests
    BY DEF Requests
  <2>2. ServiceTypeOK'
    BY <1>1, <2>1 DEF Arrive, ServiceTypeOK
  <2>3. WorldTypeOK'
    BY <1>1 DEF Arrive, WorldTypeOK, runtimeVars, clusterVars, storeVars,
                RuntimeTypeOK, ClusterTypeOK, StoreTypeOK, QuotaTypeOK
  <2>4. QED  BY <2>2, <2>3
<1>2. CASE StartProvision(h) \/ StartDelete(h) \/ StartTouch(h)
  BY <1>1, <1>2 DEF StartProvision, StartDelete, StartTouch, Steps, QuotaSteps, LookupSteps
<1>3. CASE Disconnect(h)
  <2>1. req[h] \in Requests
    BY <1>3, BusyRequest DEF Disconnect, At
  <2>2. [req[h] EXCEPT !.ctx = "cancelled"] \in Requests
    BY <2>1 DEF Requests
  <2>3. req' = [req EXCEPT ![h] = [req[h] EXCEPT !.ctx = "cancelled"]]
    BY <1>3 DEF Disconnect
  <2>4. ServiceTypeOK'
    BY <2>2, <2>3 DEF ServiceTypeOK
  <2>5. WorldTypeOK'
    BY <1>3, FaultsAssumption
       DEF Disconnect, Fault, WorldTypeOK, clusterVars, storeVars,
           RuntimeTypeOK, ClusterTypeOK, StoreTypeOK, QuotaTypeOK
  <2>6. QED  BY <2>4, <2>5
<1>4. QED  BY <1>2, <1>3 DEF ClientStep

-----------------------------------------------------------------------------
LEMMA SweepDeletesType ==
  ASSUME WorldTypeOK, SweepTypeOK, NEW pc, NEW k \in Kinds, NEW o,
         NEW ws \in SUBSET Harms, Leaves(ws, sweep.cur),
         sweep.cur \in PulseIDs, SweepDeletes(pc, k, o), UNCHANGED defaults
  PROVE  WorldTypeOK'
<1>1. RuntimeTypeOK'
  BY CallType, LeavesType DEF WorldTypeOK, SweepDeletes, SweepCall, RuntimeTypeOK
<1>2. ClusterTypeOK'
  BY ObjectType DEF WorldTypeOK, SweepDeletes
<1>3. StoreTypeOK'
  BY DEF WorldTypeOK, SweepDeletes, storeVars, StoreTypeOK
<1>4. QuotaTypeOK'
  BY DEF WorldTypeOK, QuotaTypeOK
<1>5. QED  BY <1>1, <1>2, <1>3, <1>4 DEF WorldTypeOK

\* The steps that work on the pod at hand.
LEMMA CleanupStepType ==
  ASSUME WorldTypeOK, SweepTypeOK, NEW o, CleanupStep(o), UNCHANGED defaults
  PROVE  WorldTypeOK' /\ SweepTypeOK'
<1>1. QuotaTypeOK'
  BY DEF WorldTypeOK, QuotaTypeOK
<1>2. sweep.cur \in PulseIDs
  BY DEF CleanupStep, Mark, SweepDelService, SweepDelPod, SweepDelPVC, SweepDelPV,
         SweepLog, SweepDeletes, SweepCall, SweepAt, SweepTypeOK
<1>3. sweep' \in [pc : SweepSteps, queue : SUBSET PulseIDs, cur : PulseIDs \cup {None}]
      /\ (sweep'.cur = None <=> sweep'.pc \in {"waiting", "next", "stopped"})
  BY <1>2, IdsAssumption
     DEF CleanupStep, Mark, SweepDelService, SweepDelPod, SweepDelPVC, SweepDelPV,
         SweepLog, SweepTo, NextPod, SweepTypeOK, SweepSteps
<1>4. billed' = billed
  BY DEF CleanupStep, Mark, SweepDelService, SweepDelPod, SweepDelPVC, SweepDelPV,
         SweepLog, SweepDeletes
<1>5. SweepTypeOK'
  BY <1>3, <1>4 DEF SweepTypeOK
<1>6. CASE Mark(o)
  <2>1. RuntimeTypeOK'
    <3>1. \E ws \in SUBSET Harms : Leaves(ws, sweep.cur)
      BY <1>6, HarmsKinds DEF Mark, When
    <3> QED
      BY <1>2, <1>6, <3>1, CallType, LeavesType DEF Mark, SweepCall, WorldTypeOK, RuntimeTypeOK
  <2>2. StoreTypeOK'
    <3>1. CASE Users = {}
      BY <1>2, <1>6, <3>1 DEF Mark, UpdateStatus, WorldTypeOK, StoreTypeOK, Rows, Statuses
    <3>2. CASE Users # {}
      BY <1>2, <1>6, <3>2, RowType DEF Mark, WorldTypeOK
    <3>3. QED  BY <3>1, <3>2
  <2>3. ClusterTypeOK'
    BY <1>6 DEF Mark, WorldTypeOK, clusterVars, ClusterTypeOK
  <2>4. QED  BY <1>1, <1>5, <2>1, <2>2, <2>3 DEF WorldTypeOK
<1>7. CASE /\ \E pc \in SweepSteps, k \in Kinds : SweepDeletes(pc, k, o)
           /\ \E ws \in SUBSET Harms : Leaves(ws, sweep.cur)
  BY <1>1, <1>2, <1>5, <1>7, SweepDeletesType
<1>8. CASE SweepLog(o)
  <2>1. RuntimeTypeOK'
    BY <1>8, CallType DEF SweepLog, SweepCall, WorldTypeOK, RuntimeTypeOK
  <2>2. StoreTypeOK'
    BY <1>2, <1>8, ActivityType DEF SweepLog, WorldTypeOK, ActivityTypes
  <2>3. ClusterTypeOK'
    BY <1>8 DEF SweepLog, WorldTypeOK, clusterVars, ClusterTypeOK
  <2>4. QED  BY <1>1, <1>5, <2>1, <2>2, <2>3 DEF WorldTypeOK
<1>9. ASSUME SweepDelService(o) \/ SweepDelPod(o) \/ SweepDelPVC(o) \/ SweepDelPV(o)
      PROVE  /\ \E pc \in SweepSteps, k \in Kinds : SweepDeletes(pc, k, o)
             /\ \E ws \in SUBSET Harms : Leaves(ws, sweep.cur)
  <2>1. \E pc \in SweepSteps, k \in Kinds : SweepDeletes(pc, k, o)
    BY <1>9 DEF SweepDelService, SweepDelPod, SweepDelPVC, SweepDelPV, SweepSteps, Kinds
  <2>2. CASE SweepDelPod(o)
    <3>1. (IF o = "ok" THEN {"pvc", "pv"} ELSE LeftBy("pod", o)) \in SUBSET Harms
      BY HarmsKinds DEF Harms, Kinds
    <3> QED BY <2>1, <2>2, <3>1 DEF SweepDelPod
  <2>3. CASE SweepDelService(o) \/ SweepDelPVC(o) \/ SweepDelPV(o)
    <3>1. \E k \in Kinds : Leaves(LeftBy(k, o), sweep.cur)
      BY <2>3 DEF SweepDelService, SweepDelPVC, SweepDelPV, Kinds
    <3> QED BY <2>1, <3>1, HarmsKinds
  <2> QED BY <1>9, <2>2, <2>3
<1>10. QED
  BY <1>6, <1>7, <1>8, <1>9 DEF CleanupStep

LEMMA SweepStepType ==
  ASSUME WorldTypeOK, SweepTypeOK, SweepStep, UNCHANGED defaults
  PROVE  WorldTypeOK' /\ SweepTypeOK'
<1> USE DEF SweepAt
<1>1. ASSUME UNCHANGED <<phase, mishap, clusterVars, storeVars>>, faults' \in 0..MaxFaults
      PROVE  WorldTypeOK'
  BY <1>1 DEF WorldTypeOK, clusterVars, storeVars, RuntimeTypeOK, ClusterTypeOK,
              StoreTypeOK, QuotaTypeOK
<1>2. faults \in 0..MaxFaults
  BY DEF WorldTypeOK, RuntimeTypeOK
<1>3. ASSUME NEW o \in Outcomes, Tick(o)
      PROVE  WorldTypeOK' /\ SweepTypeOK'
  <2>1. WorldTypeOK'
    BY <1>1, <1>3, CallType DEF Tick, Query, WorldTypeOK
  <2>2. SweepTypeOK'
    <3>1. ExpiredPods \in SUBSET PulseIDs
      BY DEF ExpiredPods
    <3>2. \/ sweep' = sweep
          \/ sweep' = [pc |-> "next", queue |-> ExpiredPods, cur |-> None]
      BY <1>3 DEF Tick, Waiting
    <3>3. billed' = billed
      BY <1>3 DEF Tick
    <3>4. QED  BY <3>1, <3>2, <3>3 DEF SweepTypeOK, SweepSteps
  <2>3. QED  BY <2>1, <2>2
<1>4. ASSUME NEW p \in PulseIDs, Bill(p)
      PROVE  WorldTypeOK' /\ SweepTypeOK'
  BY <1>1, <1>2, <1>4, IdsAssumption DEF Bill, runtimeVars, SweepTypeOK, SweepSteps
<1>5. CASE EndSweep
  BY <1>1, <1>2, <1>5 DEF EndSweep, runtimeVars, SweepTypeOK, SweepSteps, Waiting
<1>6. CASE Stop
  BY <1>1, <1>2, <1>6 DEF Stop, runtimeVars, SweepTypeOK, SweepSteps, Waiting, Stopped
<1>7. QED
  BY <1>3, <1>4, <1>5, <1>6, CleanupStepType DEF SweepStep

-----------------------------------------------------------------------------
LEMMA TypeParts == TypeOK <=> WorldTypeOK /\ ServiceTypeOK /\ SweepTypeOK /\ stops \in 0..MaxStops
BY DEF TypeOK, WorldTypeOK

LEMMA InitType == Init => TypeOK
<1> SUFFICES ASSUME Init PROVE TypeOK
  OBVIOUS
<1> USE FaultsAssumption, StopsAssumption, IdsAssumption DEF Init
<1>1. RuntimeTypeOK  BY DEF RuntimeInit, RuntimeTypeOK, Phases
<1>2. ClusterTypeOK  BY DEF ClusterInit, ClusterTypeOK
<1>3. StoreTypeOK  BY DEF StoreInit, StoreTypeOK, NoRow, Rows, Statuses
<1>4. QuotaTypeOK  BY DEF QuotaInit, QuotaTypeOK
<1>5. ServiceTypeOK  BY DEF ServiceInit, ServiceTypeOK
<1>6. SweepTypeOK
  <2>1. sweep = [pc |-> "waiting", queue |-> {}, cur |-> None]
    BY DEF SweepInit, Waiting
  <2>2. sweep.cur = None <=> sweep.pc \in {"waiting", "next", "stopped"}
    BY <2>1
  <2>3. sweep \in [pc : SweepSteps, queue : SUBSET PulseIDs, cur : PulseIDs \cup {None}]
    BY <2>1 DEF SweepSteps
  <2>4. billed \in [PulseIDs -> Nat]
    BY DEF SweepInit
  <2>5. QED  BY <2>2, <2>3, <2>4 DEF SweepTypeOK
<1>7. QED  BY <1>1, <1>2, <1>3, <1>4, <1>5, <1>6 DEF TypeOK

\* What may be left unfinished are harms of pulses.
LEMMA UnfinishedType == TypeOK => Unfinished \subseteq Harms \X PulseIDs
<1> SUFFICES ASSUME TypeOK PROVE Unfinished \subseteq Harms \X PulseIDs
  OBVIOUS
<1>1. objects \subseteq Harms \X PulseIDs
  BY HarmsKinds DEF TypeOK, ClusterTypeOK
<1>2. BeingDeleted \subseteq PulseIDs
  BY BusyRequest DEF TypeOK, BeingDeleted, DeleteSteps, Requests
<1>3. {"row", "log"} \subseteq Harms
  BY DEF Harms
<1> QED BY <1>1, <1>2, <1>3 DEF Unfinished

LEMMA EndsType ==
  ASSUME TypeOK, Ends, stops' \in 0..MaxStops
  PROVE  TypeOK'
<1>1. RuntimeTypeOK'
  BY UnfinishedType DEF TypeOK, Ends, RuntimeTypeOK, Phases
<1>2. ClusterTypeOK' /\ StoreTypeOK' /\ QuotaTypeOK'
  BY DEF TypeOK, Ends, clusterVars, storeVars, ClusterTypeOK, StoreTypeOK, QuotaTypeOK
<1>3. ServiceTypeOK' /\ SweepTypeOK'
  BY DEF TypeOK, Ends, ServiceTypeOK, SweepTypeOK, Stopped, Waiting, SweepSteps
<1>4. QED  BY <1>1, <1>2, <1>3 DEF TypeOK

LEMMA NextType ==
  ASSUME TypeOK, [Next]_vars
  PROVE  TypeOK'
<1>1. ASSUME NEW h \in Handlers, Service(h)
      PROVE  TypeOK'
  <2>1. WorldTypeOK' /\ ServiceTypeOK'
    BY <1>1, TypeParts, QuotaStepType, CreateStepType, UndoStepType, DeleteStepType,
       TouchStepType DEF Service, HandlerStep
  <2>2. SweepTypeOK' /\ stops' \in 0..MaxStops
    BY <1>1 DEF Service, TypeOK, sweepVars, SweepTypeOK
  <2>3. QED  BY <2>1, <2>2 DEF TypeOK, WorldTypeOK
<1>2. ASSUME NEW h \in Handlers, Client(h)
      PROVE  TypeOK'
  <2>1. WorldTypeOK' /\ ServiceTypeOK'
    BY <1>2, TypeParts, ClientStepType DEF Client
  <2>2. SweepTypeOK' /\ stops' \in 0..MaxStops
    BY <1>2 DEF Client, TypeOK, sweepVars, SweepTypeOK
  <2>3. QED  BY <2>1, <2>2 DEF TypeOK, WorldTypeOK
<1>3. CASE Sweep
  <2>1. WorldTypeOK' /\ SweepTypeOK'
    BY <1>3, TypeParts, SweepStepType DEF Sweep
  <2>2. ServiceTypeOK' /\ stops' \in 0..MaxStops
    BY <1>3 DEF Sweep, TypeOK, ServiceTypeOK
  <2>3. QED  BY <2>1, <2>2 DEF TypeOK, WorldTypeOK
<1>4. ASSUME NEW p \in PulseIDs, Time(p)
      PROVE  TypeOK'
  <2>1. StoreTypeOK'
    BY <1>4 DEF Time, Lapse, TypeOK, StoreTypeOK, Rows
  <2>2. QED
    BY <1>4, <2>1 DEF Time, TypeOK, runtimeVars, clusterVars, sweepVars, RuntimeTypeOK,
       ClusterTypeOK, QuotaTypeOK, ServiceTypeOK, SweepTypeOK
<1>5. CASE Crash
  BY <1>5, EndsType, StopsAssumption DEF Crash, Outside, TypeOK
<1>6. CASE Die
  BY <1>6, EndsType DEF Die, TypeOK
<1>7. CASE Exit
  BY <1>7, EndsType DEF Exit, TypeOK
<1>8. CASE Shutdown
  BY <1>8, StopsAssumption DEF Shutdown, Outside, TypeOK, clusterVars, storeVars, sweepVars,
     RuntimeTypeOK, Phases, ClusterTypeOK, StoreTypeOK, QuotaTypeOK, ServiceTypeOK, SweepTypeOK
<1>9. CASE Restart
  BY <1>9 DEF Restart, TypeOK, clusterVars, storeVars, Waiting, SweepSteps,
     RuntimeTypeOK, Phases, ClusterTypeOK, StoreTypeOK, QuotaTypeOK, ServiceTypeOK, SweepTypeOK
<1>10. CASE UNCHANGED vars
  BY <1>10 DEF vars, TypeOK, runtimeVars, clusterVars, storeVars, sweepVars,
     RuntimeTypeOK, ClusterTypeOK, StoreTypeOK, QuotaTypeOK, ServiceTypeOK, SweepTypeOK
<1>11. QED
  BY <1>1, <1>2, <1>3, <1>4, <1>5, <1>6, <1>7, <1>8, <1>9, <1>10 DEF Next, Process

(* Every variable keeps its type, whatever the handlers, the sweep, the    *)
(* failing calls and the restarts do.                                      *)
THEOREM TypeCorrect == Spec => []TypeOK
<1>1. Init => TypeOK  BY InitType
<1>2. TypeOK /\ [Next]_vars => TypeOK'  BY NextType
<1>3. QED  BY <1>1, <1>2, PTL DEF Spec

-----------------------------------------------------------------------------
(* The failures only become more. *)

LEMMA CallGrows ==
  ASSUME TypeOK, NEW c, NEW o, Call(c, o)
  PROVE  faults' >= faults
<1>1. faults \in Nat
  BY FaultsAssumption DEF TypeOK, RuntimeTypeOK
<1> QED BY <1>1 DEF Call, Fault

LEMMA HandlerGrows ==
  ASSUME TypeOK, NEW h \in Handlers, HandlerStep(h)
  PROVE  faults' >= faults /\ phase' = phase
<1>1. faults \in Nat
  BY FaultsAssumption DEF TypeOK, RuntimeTypeOK
<1>2. PICK o \in Outcomes : \/ QuotaStep(h, o) \/ CreateStep(h, o) \/ UndoStep(h, o)
                            \/ DeleteStep(h, o) \/ TouchStep(h, o)
  BY DEF HandlerStep
<1>3. phase' = phase /\ (Call(req[h].ctx, o) \/ UNCHANGED faults)
  <2>1. CASE QuotaStep(h, o)
    BY <2>1 DEF QuotaStep, GetQuota, AddQuota, RegetQuota, Count, Reads, Query
  <2>2. CASE CreateStep(h, o)
    BY <2>2 DEF CreateStep, GetNamespace, AddNamespace, RegetNamespace, AddPV, AddPVC, AddPod,
       AddService, AddRow, RowAnswer, LogCreated, Reads, Query, Creates, Logs
  <2>3. CASE UndoStep(h, o)
    BY <2>3 DEF UndoStep, UndoService, UndoPod, UndoPVC, UndoPV, Deletes
  <2>4. CASE DeleteStep(h, o)
    BY <2>4 DEF DeleteStep, OwnDelete, GetDelete, DelService, DelPod, DelPVC, DelPV,
       MarkDeleted, LogStopped, Owned, Found, Reads, Query, Deletes, Logs
  <2>5. CASE TouchStep(h, o)
    BY <2>5 DEF TouchStep, OwnTouch, GetTouch, Touch, Owned, Found, Reads, Query
  <2> QED BY <1>2, <2>1, <2>2, <2>3, <2>4, <2>5
<1> QED BY <1>1, <1>3, CallGrows

LEMMA SweepGrows ==
  ASSUME TypeOK, SweepStep
  PROVE  faults' >= faults
<1>1. faults \in Nat
  BY FaultsAssumption DEF TypeOK, RuntimeTypeOK
<1>2. (\E c, o : Call(c, o)) \/ UNCHANGED faults
  BY DEF SweepStep, Tick, Query, Bill, EndSweep, Stop, CleanupStep, Mark, SweepDelService,
         SweepDelPod, SweepDelPVC, SweepDelPV, SweepDeletes, SweepLog, SweepCall, runtimeVars
<1> QED BY <1>1, <1>2, CallGrows

LEMMA FaultsGrow ==
  ASSUME TypeOK, [Next]_vars
  PROVE  faults' >= faults
<1>1. faults \in Nat
  BY FaultsAssumption DEF TypeOK, RuntimeTypeOK
<1>2. ASSUME NEW h \in Handlers, Client(h) PROVE faults' >= faults
  BY <1>1, <1>2 DEF Client, ClientStep, StartProvision, StartDelete, StartTouch, Arrive,
     Disconnect, Fault, runtimeVars
<1>3. CASE Process \/ (\E p \in PulseIDs : Time(p)) \/ UNCHANGED vars
  BY <1>1, <1>3 DEF Process, Crash, Die, Shutdown, Exit, Restart, Ends, Time, vars, runtimeVars
<1> QED BY <1>2, <1>3, HandlerGrows, SweepGrows DEF Next, Service, Sweep

-----------------------------------------------------------------------------
(* The ids of the pulses: an id without a row belongs to the one handler   *)
(* that drew it, and a handler that acts on a row has found it to be that  *)
(* of its user.  A row is inserted once and never changes its user.        *)

\* The steps of a provision before its row is inserted.
BeforeRow == QuotaSteps \cup NamespaceSteps \cup CreateSteps

\* The steps of a request for a row, and those after the check of its owner.
Checked == DeleteSteps \cup {"getDelete", "logStopped", "getTouch", "touch"}
Aimed == Checked \cup {"ownDelete", "ownTouch"}

Absent(p) == pods[p].status = "absent"

RowLater(h) == req[h].pc \in BeforeRow => Absent(req[h].id)
RowThere(h) == req[h].pc \in Aimed => ~ Absent(req[h].id)
OwnRow(h) == req[h].pc \in Checked => pods[req[h].id].user = req[h].user

\* Nobody else has the id of h while it has no row.
OneMaker(h) ==
  req[h].pc # "idle" /\ Absent(req[h].id) =>
    \A g \in Handlers \ {h} : req[g].id # req[h].id

IdInv == \A h \in Handlers : RowLater(h) /\ RowThere(h) /\ OwnRow(h) /\ OneMaker(h)

-----------------------------------------------------------------------------
\* A step that inserts no row.
Steady ==
  \A p \in PulseIDs : pods'[p].user = pods[p].user /\ (Absent(p)' <=> Absent(p))

\* A step of h between its arrival and its answer.
Goes(h) ==
  /\ \A g \in Handlers \ {h} : req'[g] = req[g]
  /\ \/ req'[h] = Idle
     \/ /\ req[h].pc # "idle"
        /\ req'[h].id = req[h].id /\ req'[h].user = req[h].user
        /\ req'[h].pc \in BeforeRow => req[h].pc \in BeforeRow
        /\ req'[h].pc \in Aimed => req[h].pc \in Aimed
        /\ req'[h].pc \in Checked =>
             req[h].pc \in Checked \/ pods[req[h].id].user = req[h].user

\* Idle is at no step.
LEMMA IdleStep ==
  /\ Idle.pc = "idle" /\ Idle.id = None
  /\ "idle" \notin BeforeRow /\ "idle" \notin Aimed /\ "idle" \notin Checked
BY DEF Idle, BeforeRow, Aimed, Checked, QuotaSteps, NamespaceSteps, CreateSteps, DeleteSteps

LEMMA GoesIdInv ==
  ASSUME ServiceTypeOK, IdInv, NEW h \in Handlers, Goes(h), Steady
  PROVE  IdInv'
<1>1. \A g \in Handlers : req[g].pc # "idle" => req[g].id \in PulseIDs
  BY BusyRequest DEF Requests
<1>2. \A g \in Handlers : req[g].id \in PulseIDs \/ req[g].id = None
  BY DEF ServiceTypeOK, Requests, Idle
<1>3. \A g \in Handlers :
        req'[g] = Idle \/ (req'[g].id = req[g].id /\ req'[g].user = req[g].user
                           /\ (req[g].pc # "idle" \/ req'[g] = req[g]))
  BY DEF Goes
<1>4. ASSUME NEW g \in Handlers
      PROVE  RowLater(g)' /\ RowThere(g)' /\ OwnRow(g)'
  <2>1. CASE req'[g] = Idle
    BY <2>1, IdleStep DEF RowLater, RowThere, OwnRow
  <2>2. CASE req'[g] # Idle
    <3>1. req[g].pc = "idle" => req'[g].pc = "idle"
      BY <1>3, <2>2
    <3>2. CASE req[g].pc = "idle"
      BY <3>1, <3>2, IdleStep DEF RowLater, RowThere, OwnRow
    <3>3. CASE req[g].pc # "idle"
      <4>1. /\ Absent(req[g].id)' <=> Absent(req[g].id)
            /\ pods'[req[g].id].user = pods[req[g].id].user
            /\ req'[g].id = req[g].id /\ req'[g].user = req[g].user
        BY <1>1, <1>3, <2>2, <3>3 DEF Steady
      <4>2. /\ req'[g].pc \in BeforeRow => req[g].pc \in BeforeRow
            /\ req'[g].pc \in Aimed => req[g].pc \in Aimed
            /\ req'[g].pc \in Checked =>
                 req[g].pc \in Checked \/ pods[req[g].id].user = req[g].user
        BY <2>2 DEF Goes
      <4>3. (Absent(req[g].id))' <=> Absent(req[g].id)
        BY <4>1 DEF Absent
      <4> QED BY <4>1, <4>2, <4>3 DEF IdInv, RowLater, RowThere, OwnRow
    <3> QED BY <3>2, <3>3
  <2> QED BY <2>1, <2>2
<1>5. ASSUME NEW g \in Handlers
      PROVE  OneMaker(g)'
  <2> SUFFICES ASSUME req'[g].pc # "idle", (Absent(req[g].id))', NEW f \in Handlers \ {g}
               PROVE  req'[f].id # req'[g].id
    BY DEF OneMaker
  <2>1. req[g].pc # "idle" /\ req'[g].id = req[g].id /\ req[g].id \in PulseIDs
    BY <1>1, <1>3, IdleStep
  <2>2. Absent(req[g].id)
    BY <2>1 DEF Steady, Absent
  <2>3. req[f].id # req[g].id
    BY <2>1, <2>2 DEF IdInv, OneMaker
  <2> QED BY <1>3, <2>1, <2>3, IdsAssumption, IdleStep
<1> QED BY <1>4, <1>5 DEF IdInv

LEMMA FinishGoes ==
  ASSUME ServiceTypeOK, NEW h \in Handlers, Finish(h)
  PROVE  Goes(h)
BY DEF ServiceTypeOK, Finish, Goes

\* What h keeps when it goes on.
LEMMA GotoKeeps ==
  ASSUME ServiceTypeOK, NEW h \in Handlers, req[h].pc # "idle", NEW to, Goto(h, to)
  PROVE  /\ \A g \in Handlers \ {h} : req'[g] = req[g]
         /\ req'[h] = [req[h] EXCEPT !.pc = to]
         /\ req'[h].pc = to /\ req'[h].id = req[h].id /\ req'[h].user = req[h].user
<1>1. req[h] \in Requests  BY BusyRequest
<1>2. req'[h] = [req[h] EXCEPT !.pc = to] /\ \A g \in Handlers \ {h} : req'[g] = req[g]
  BY DEF ServiceTypeOK, Goto
<1>3. QED  BY <1>1, <1>2 DEF Requests

LEMMA GotoGoes ==
  ASSUME ServiceTypeOK, NEW h \in Handlers, req[h].pc # "idle", NEW to, Goto(h, to),
         to \in BeforeRow => req[h].pc \in BeforeRow,
         to \in Aimed => req[h].pc \in Aimed,
         to \in Checked => req[h].pc \in Checked \/ pods[req[h].id].user = req[h].user
  PROVE  Goes(h)
<1>1. /\ \A g \in Handlers \ {h} : req'[g] = req[g]
      /\ req'[h].pc = to /\ req'[h].id = req[h].id /\ req'[h].user = req[h].user
  BY GotoKeeps
<1>2. /\ req'[h].pc \in BeforeRow => req[h].pc \in BeforeRow
      /\ req'[h].pc \in Aimed => req[h].pc \in Aimed
      /\ req'[h].pc \in Checked => req[h].pc \in Checked \/ pods[req[h].id].user = req[h].user
  BY <1>1
<1> QED BY <1>1, <1>2 DEF Goes

LEMMA QuotedGoes ==
  ASSUME ServiceTypeOK, NEW h \in Handlers, req[h].pc \in QuotaSteps, NEW k, Quoted(h, k)
  PROVE  Goes(h)
<1>1. req[h].pc # "idle" /\ req[h].pc \in BeforeRow
  BY DEF QuotaSteps, BeforeRow
<1>2. req[h] \in Requests  BY <1>1, BusyRequest
<1>3. CASE req' = [req EXCEPT ![h].pc = "count", ![h].limit = k]
  <2>1. /\ \A g \in Handlers \ {h} : req'[g] = req[g]
        /\ req'[h].pc = "count" /\ req'[h].id = req[h].id /\ req'[h].user = req[h].user
    BY <1>2, <1>3 DEF ServiceTypeOK, Requests
  <2>2. "count" \notin Aimed /\ "count" \notin Checked
    BY DEF Aimed, Checked, DeleteSteps
  <2> QED BY <1>1, <2>1, <2>2 DEF Goes
<1> QED BY <1>3, FinishGoes DEF Quoted
-----------------------------------------------------------------------------
\* The UPDATEs of a row change neither its user nor that it is there.
LEMMA UpdatesSteady ==
  ASSUME StoreTypeOK, NEW p \in PulseIDs, NEW o,
         \/ UpdateStatus(p, o) \/ UpdateActivity(p, o) \/ SoftDelete(p, o) \/ Lapse(p)
         \/ UNCHANGED pods
  PROVE  Steady
<1> SUFFICES ASSUME NEW q \in PulseIDs
             PROVE  pods'[q].user = pods[q].user /\ (Absent(q)' <=> Absent(q))
  BY DEF Steady
<1>1. CASE UNCHANGED pods
  BY <1>1 DEF Absent
<1>2. CASE UpdateStatus(p, o)
  BY <1>2 DEF UpdateStatus, Visible, Absent, StoreTypeOK, Rows
<1>3. CASE UpdateActivity(p, o) \/ SoftDelete(p, o)
  BY <1>3 DEF UpdateActivity, SoftDelete, Absent, StoreTypeOK, Rows
<1>4. CASE Lapse(p)
  BY <1>4 DEF Lapse, Absent, StoreTypeOK, Rows
<1> QED BY <1>1, <1>2, <1>3, <1>4

\* The steps of a handler other than the insert.
LEMMA HandlerGoes ==
  ASSUME ServiceTypeOK, IdInv, NEW h \in Handlers, NEW o,
         \/ QuotaStep(h, o) \/ (CreateStep(h, o) /\ ~ AddRow(h, o))
         \/ UndoStep(h, o) \/ DeleteStep(h, o) \/ TouchStep(h, o)
  PROVE  Goes(h)
<1> USE FinishGoes, GotoGoes
    DEF At, BeforeRow, Aimed, Checked, QuotaSteps, NamespaceSteps, CreateSteps, DeleteSteps
<1>1. CASE GetQuota(h, o) \/ AddQuota(h, o) \/ RegetQuota(h, o)
  <2>1. req[h].pc \in QuotaSteps
    BY <1>1 DEF GetQuota, AddQuota, RegetQuota, Reads
  <2>2. \/ \E k \in QuotaKinds : Quoted(h, k)
        \/ Finish(h) \/ Goto(h, "addQuota") \/ Goto(h, "regetQuota")
    BY <1>1 DEF GetQuota, AddQuota, RegetQuota, QuotaRows, QuotaKinds
  <2> QED BY <2>1, <2>2, QuotedGoes
<1>2. CASE Count(h, o)
  <2>1. req[h].pc = "count" /\ req[h] \in Requests
    BY <1>2, BusyRequest DEF Count, Reads
  <2>2. CASE req' = [req EXCEPT ![h].pc = "getNamespace", ![h].limit = "none"]
    <3>1. /\ \A g \in Handlers \ {h} : req'[g] = req[g]
          /\ req'[h].pc = "getNamespace" /\ req'[h].id = req[h].id /\ req'[h].user = req[h].user
      BY <2>1, <2>2 DEF ServiceTypeOK, Requests
    <3> QED BY <2>1, <3>1 DEF Goes
  <2> QED BY <1>2, <2>2 DEF Count
<1>3. CASE GetNamespace(h, o) \/ AddNamespace(h, o) \/ RegetNamespace(h, o)
  BY <1>3 DEF GetNamespace, AddNamespace, RegetNamespace, Reads, GotoIf
<1>4. CASE AddPV(h, o) \/ AddPVC(h, o) \/ AddPod(h, o) \/ AddService(h, o)
  BY <1>4 DEF AddPV, AddPVC, AddPod, AddService, Creates, GotoIf
<1>5. CASE LogCreated(h, o) \/ LogStopped(h, o)
  BY <1>5 DEF LogCreated, LogStopped, Logs
<1>6. CASE UndoStep(h, o)
  BY <1>6 DEF UndoStep, UndoService, UndoPod, UndoPVC, UndoPV, Deletes, GotoIf
<1>7. CASE OwnDelete(h, o) \/ OwnTouch(h, o)
  BY <1>7 DEF OwnDelete, OwnTouch, Owned, Reads, GotoIf
<1>8. CASE GetDelete(h, o) \/ GetTouch(h, o)
  BY <1>8 DEF GetDelete, GetTouch, Found, Reads, GotoIf
<1>9. CASE DelService(h, o) \/ DelPod(h, o) \/ DelPVC(h, o) \/ DelPV(h, o)
  BY <1>9 DEF DelService, DelPod, DelPVC, DelPV, Deletes
<1>10. CASE MarkDeleted(h, o) \/ Touch(h, o)
  BY <1>10 DEF MarkDeleted, Touch, GotoIf
<1> QED BY <1>1, <1>2, <1>3, <1>4, <1>5, <1>6, <1>7, <1>8, <1>9, <1>10
        DEF QuotaStep, CreateStep, DeleteStep, TouchStep

LEMMA HandlerSteady ==
  ASSUME StoreTypeOK, ServiceTypeOK, NEW h \in Handlers, NEW o,
         \/ QuotaStep(h, o) \/ (CreateStep(h, o) /\ ~ AddRow(h, o))
         \/ UndoStep(h, o) \/ DeleteStep(h, o) \/ TouchStep(h, o)
  PROVE  Steady
<1>1. CASE MarkDeleted(h, o) \/ Touch(h, o)
  <2>1. req[h].id \in PulseIDs
    BY <1>1, BusyRequest DEF MarkDeleted, Touch, At, Requests
  <2> QED BY <1>1, <2>1, UpdatesSteady DEF MarkDeleted, Touch
<1>2. CASE QuotaStep(h, o)
  BY <1>2 DEF QuotaStep, GetQuota, AddQuota, RegetQuota, Count, Reads, storeVars, Steady, Absent
<1>3. CASE CreateStep(h, o) /\ ~ AddRow(h, o)
  BY <1>3 DEF CreateStep, GetNamespace, AddNamespace, RegetNamespace, AddPV, AddPVC, AddPod,
     AddService, LogCreated, Reads, Creates, Logs, LogActivity, storeVars, Steady, Absent
<1>4. CASE UndoStep(h, o)
  BY <1>4 DEF UndoStep, UndoService, UndoPod, UndoPVC, UndoPV, Deletes, storeVars, Steady, Absent
<1>5. CASE DeleteStep(h, o) /\ ~ MarkDeleted(h, o)
  BY <1>5 DEF DeleteStep, OwnDelete, GetDelete, DelService, DelPod, DelPVC, DelPV,
     LogStopped, Owned, Found, Reads, Deletes, Logs, LogActivity, storeVars, Steady, Absent
<1>6. CASE TouchStep(h, o) /\ ~ Touch(h, o)
  BY <1>6 DEF TouchStep, OwnTouch, GetTouch, Owned, Found, Reads, storeVars, Steady, Absent
<1> QED BY <1>1, <1>2, <1>3, <1>4, <1>5, <1>6

\* The insert: no other request is for the row, because it was not there.
LEMMA AddRowIdInv ==
  ASSUME StoreTypeOK, ServiceTypeOK, IdInv, NEW h \in Handlers, NEW o, AddRow(h, o)
  PROVE  IdInv'
<1> DEFINE p == req[h].id
<1>1. req[h] \in Requests /\ req[h].pc = "addRow" /\ p \in PulseIDs
  BY BusyRequest DEF AddRow, At, Requests
<1>2. /\ \A g \in Handlers \ {h} : req'[g] = req[g]
      /\ req'[h].id = p /\ req'[h].user = req[h].user
      /\ req'[h].pc \in {"logCreated", "undoService"}
  BY <1>1, GotoKeeps DEF AddRow
<1>3. Absent(p) /\ \A g \in Handlers \ {h} : req[g].id # p
  BY <1>1 DEF IdInv, RowLater, OneMaker, BeforeRow, CreateSteps
<1>4. \A q \in PulseIDs \ {p} : pods'[q] = pods[q]
  BY DEF AddRow, InsertRow, StoreTypeOK
<1>5. ASSUME NEW g \in Handlers \ {h}
      PROVE  RowLater(g)' /\ RowThere(g)' /\ OwnRow(g)' /\ OneMaker(g)'
  <2>1. CASE req[g].pc = "idle"
    BY <1>2, <2>1, IdleStep DEF RowLater, RowThere, OwnRow, OneMaker
  <2>2. CASE req[g].pc # "idle"
    <3>1. req[g].id \in PulseIDs \ {p}
      BY <1>3, <2>2, BusyRequest DEF Requests
    <3>2. req'[g] = req[g] /\ pods'[req[g].id] = pods[req[g].id]
      BY <1>2, <1>4, <3>1
    <3>3. \A f \in Handlers : req'[f].id = req[f].id
      BY <1>2
    <3> QED BY <3>2, <3>3 DEF IdInv, RowLater, RowThere, OwnRow, OneMaker, Absent
  <2> QED BY <2>1, <2>2
<1>6. RowLater(h)' /\ RowThere(h)' /\ OwnRow(h)' /\ OneMaker(h)'
  <2>1. req'[h].pc \notin BeforeRow /\ req'[h].pc \notin Aimed /\ req'[h].pc \notin Checked
    BY <1>2 DEF BeforeRow, Aimed, Checked, QuotaSteps, NamespaceSteps, CreateSteps, DeleteSteps
  <2>2. \A f \in Handlers \ {h} : req'[f].id # req'[h].id
    BY <1>2, <1>3
  <2> QED BY <2>1, <2>2 DEF RowLater, RowThere, OwnRow, OneMaker
<1> QED BY <1>5, <1>6 DEF IdInv

LEMMA ClientIdInv ==
  ASSUME ServiceTypeOK, IdInv, NEW h \in Handlers, ClientStep(h)
  PROVE  IdInv'
<1>1. ASSUME NEW pc, NEW p \in PulseIDs, NEW u, NEW z, Arrive(h, pc, p, u, z),
             pc \in {"getQuota", "ownDelete", "ownTouch"},
             IF pc = "getQuota" THEN Fresh(p) ELSE Known(p)
      PROVE  IdInv'
  <2>1. /\ pods' = pods
        /\ \A g \in Handlers \ {h} : req'[g] = req[g]
        /\ req'[h].pc = pc /\ req'[h].id = p /\ req[h].pc = "idle"
    BY <1>1 DEF Arrive, At, storeVars, ServiceTypeOK
  <2>2. pc \notin Checked /\ (pc \in BeforeRow => Absent(p)) /\ (pc \in Aimed => ~ Absent(p))
    BY <1>1 DEF Fresh, Known, Absent, Checked, BeforeRow, Aimed, DeleteSteps, QuotaSteps,
                NamespaceSteps, CreateSteps
  <2>3. Absent(p) => \A g \in Handlers : req[g].id # p
    BY <1>1 DEF Fresh, Known, Absent
  <2>4. \A g \in Handlers \ {h} : RowLater(g)' /\ RowThere(g)' /\ OwnRow(g)' /\ OneMaker(g)'
    BY <2>1, <2>3 DEF IdInv, RowLater, RowThere, OwnRow, OneMaker, Absent
  <2>5. RowLater(h)' /\ RowThere(h)' /\ OwnRow(h)' /\ OneMaker(h)'
    BY <2>1, <2>2, <2>3 DEF RowLater, RowThere, OwnRow, OneMaker, Absent
  <2> QED BY <2>4, <2>5 DEF IdInv
<1>2. CASE StartProvision(h) \/ StartDelete(h) \/ StartTouch(h)
  BY <1>1, <1>2 DEF StartProvision, StartDelete, StartTouch
<1>3. CASE Disconnect(h)
  <2>1. req[h] \in Requests /\ req[h].pc # "idle"
    BY <1>3, BusyRequest DEF Disconnect, At
  <2>2. /\ \A g \in Handlers \ {h} : req'[g] = req[g]
        /\ req'[h].pc = req[h].pc /\ req'[h].id = req[h].id /\ req'[h].user = req[h].user
    BY <1>3, <2>1 DEF Disconnect, ServiceTypeOK, Requests
  <2>3. Goes(h) /\ Steady
    BY <1>3, <2>1, <2>2 DEF Disconnect, storeVars, Goes, Steady, Absent
  <2> QED BY <2>3, GoesIdInv
<1> QED BY <1>2, <1>3 DEF ClientStep

\* Steps that leave the requests alone.
LEMMA SteadyIdInv ==
  ASSUME ServiceTypeOK, IdInv, Steady, UNCHANGED req
  PROVE  IdInv'
<1> SUFFICES ASSUME NEW h \in Handlers PROVE IdInv'
  BY DEF IdInv
<1>1. req[h].pc = "idle" => req[h] = Idle
  BY DEF ServiceTypeOK, Requests, Steps, QuotaSteps, NamespaceSteps, CreateSteps, UndoSteps,
         DeleteSteps, LogSteps, LookupSteps
<1>2. Goes(h)
  BY <1>1 DEF Goes
<1> QED BY <1>2, GoesIdInv

LEMMA EndsIdInv ==
  ASSUME Ends
  PROVE  IdInv'
<1>1. \A h \in Handlers : req'[h] = Idle
  BY DEF Ends
<1> QED BY <1>1, IdleStep DEF IdInv, RowLater, RowThere, OwnRow, OneMaker

LEMMA SweepSteady ==
  ASSUME StoreTypeOK, SweepTypeOK, SweepStep
  PROVE  Steady
<1>1. ASSUME NEW o, Mark(o) PROVE Steady
  <2>1. sweep.cur \in PulseIDs
    BY <1>1 DEF Mark, SweepCall, SweepAt, SweepTypeOK
  <2> QED BY <1>1, <2>1, UpdatesSteady DEF Mark
<1>2. UNCHANGED pods => Steady
  BY DEF Steady, Absent
<1> QED
  BY <1>1, <1>2 DEF SweepStep, CleanupStep, Tick, Bill, EndSweep, Stop, SweepDelService,
     SweepDelPod, SweepDelPVC, SweepDelPV, SweepDeletes, SweepLog, LogActivity, storeVars

LEMMA NextIdInv ==
  ASSUME TypeOK, IdInv, [Next]_vars
  PROVE  IdInv'
<1>1. StoreTypeOK /\ ServiceTypeOK /\ SweepTypeOK
  BY DEF TypeOK
<1>2. ASSUME NEW h \in Handlers, Service(h) PROVE IdInv'
  BY <1>1, <1>2, HandlerGoes, HandlerSteady, GoesIdInv, AddRowIdInv
     DEF Service, HandlerStep, CreateStep
<1>3. ASSUME NEW h \in Handlers, Client(h) PROVE IdInv'
  BY <1>1, <1>3, ClientIdInv DEF Client
<1>4. CASE Sweep
  BY <1>1, <1>4, SweepSteady, SteadyIdInv DEF Sweep
<1>5. ASSUME NEW p \in PulseIDs, Time(p) PROVE IdInv'
  BY <1>1, <1>5, UpdatesSteady, SteadyIdInv DEF Time
<1>6. CASE Crash \/ Die \/ Exit
  BY <1>6, EndsIdInv DEF Crash, Die, Exit
<1>7. CASE Shutdown \/ Restart \/ UNCHANGED vars
  BY <1>1, <1>7, SteadyIdInv DEF Shutdown, Restart, vars, storeVars, Steady, Absent
<1> QED BY <1>2, <1>3, <1>4, <1>5, <1>6, <1>7 DEF Next, Process

LEMMA InitIdInv == Init => IdInv
BY IdleStep DEF Init, ServiceInit, IdInv, RowLater, RowThere, OwnRow, OneMaker

(* A handler that got past the ownership check of its endpoint acts on a   *)
(* row of its own user, although the service looks the row up again.       *)
THEOREM OwnRowsTouched == Spec => []OwnRowsOnly
<1>1. Init => TypeOK /\ IdInv
  BY InitType, InitIdInv
<1>2. TypeOK /\ IdInv /\ [Next]_vars => (TypeOK /\ IdInv)'
  BY NextType, NextIdInv
<1>3. IdInv => OwnRowsOnly
  BY DEF IdInv, OwnRow, OwnRowsOnly, Checked
<1> QED BY <1>1, <1>2, <1>3, PTL DEF Spec
=============================================================================
