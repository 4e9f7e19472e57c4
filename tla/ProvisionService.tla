-------------------------- MODULE ProvisionService --------------------------
(***************************************************************************)
(* The HTTP requests that change something: POST /provision, DELETE        *)
(* /provision/{pulse_id} and every request under /pulse/{pulse_id}, with   *)
(* the methods of ProvisionService they call.  A request is served by its  *)
(* own goroutine; each of its calls to PostgreSQL or Kubernetes is one     *)
(* step, named after the call it is about to make.  All its calls, the     *)
(* cleanup calls included, use the context of the HTTP request, which      *)
(* net/http cancels when the client goes away.                             *)
(***************************************************************************)
EXTENDS Runtime, Cluster, PodStore, QuotaStore

VARIABLE req   \* per handler: the next call and the locals of the goroutine

serviceVars == <<runtimeVars, clusterVars, storeVars, defaults, req>>

QuotaSteps == {"getQuota", "addQuota", "regetQuota", "count"}
NamespaceSteps == {"getNamespace", "addNamespace", "regetNamespace"}
CreateSteps == {"addPV", "addPVC", "addPod", "addService", "addRow"}
UndoSteps == {"undoService", "undoPod", "undoPVC", "undoPV"}
DeleteSteps == {"delService", "delPod", "delPVC", "delPV", "softDelete"}
LogSteps == {"logCreated", "logStopped"}
LookupSteps == {"ownDelete", "getDelete", "ownTouch", "getTouch", "touch"}

Steps == QuotaSteps \cup NamespaceSteps \cup CreateSteps \cup UndoSteps
         \cup DeleteSteps \cup LogSteps \cup LookupSteps

Idle == [pc |-> "idle", id |-> None, user |-> None, size |-> None,
         limit |-> "none", ctx |-> "live"]

Requests == [pc : Steps, id : PulseIDs, user : Users, size : Sizes \cup {None},
             limit : QuotaKinds \cup {"none"}, ctx : {"live", "cancelled"}]

ServiceTypeOK == req \in [Handlers -> Requests \cup {Idle}]

ServiceInit == req = [h \in Handlers |-> Idle]

\* The handlers that a quota check has let pass and whose row is not inserted.
PassedCount == NamespaceSteps \cup CreateSteps
Admitted(u) == {h \in Handlers : req[h].pc \in PassedCount /\ req[h].user = u}

\* Some handler is about to write this record of the log.
Logging(pc, p) == \E h \in Handlers : req[h].pc = pc /\ req[h].id = p

At(h, pc) == req[h].pc = pc
Goto(h, pc) == req' = [req EXCEPT ![h].pc = pc]
Finish(h) == req' = [req EXCEPT ![h] = Idle]
GotoIf(ok, h, pc) == IF ok THEN Goto(h, pc) ELSE Finish(h)

-----------------------------------------------------------------------------
\* A query step of handler h, and what it leaves alone.
Reads(h, pc, o) ==
  /\ At(h, pc)
  /\ Query(req[h].ctx, o)
  /\ UNCHANGED <<phase, mishap, clusterVars, storeVars, defaults>>

\* uuid.New(): an id that nothing has been made for.
Fresh(p) ==
  /\ pods[p].status = "absent"
  /\ Holds(p) = {}
  /\ \A w \in Harms : <<w, p>> \notin mishap
  /\ \A h \in Handlers : req[h].id # p

Arrive(h, pc, p, u, z) ==
  /\ phase = "up"
  /\ At(h, "idle")
  /\ req' = [req EXCEPT ![h] = [pc |-> pc, id |-> p, user |-> u, size |-> z,
                                limit |-> "none", ctx |-> "live"]]
  /\ UNCHANGED <<runtimeVars, clusterVars, storeVars, defaults>>

\* POST /provision.  The id is drawn on arrival, before its first use.
StartProvision(h) ==
  \E p \in PulseIDs, u \in Users, z \in Sizes :
     Fresh(p) /\ Arrive(h, "getQuota", p, u, z)

\* DELETE /provision/{pulse_id} and /pulse/{pulse_id}/*, by any user.
Known(p) == pods[p].status # "absent"

StartDelete(h) ==
  \E p \in PulseIDs, u \in Users : Known(p) /\ Arrive(h, "ownDelete", p, u, None)

StartTouch(h) ==
  \E p \in PulseIDs, u \in Users : Known(p) /\ Arrive(h, "ownTouch", p, u, None)

\* The client closes the connection: r.Context() is cancelled.
Disconnect(h) ==
  /\ ~ At(h, "idle")
  /\ req[h].ctx = "live"
  /\ Fault
  /\ req' = [req EXCEPT ![h].ctx = "cancelled"]
  /\ UNCHANGED <<phase, mishap, clusterVars, storeVars, defaults>>

-----------------------------------------------------------------------------
\* GetOrCreateDefault and the checks against the quota row it returned.
Quoted(h, k) ==
  IF req[h].size \in Admits[k]
  THEN req' = [req EXCEPT ![h].pc = "count", ![h].limit = k]
  ELSE Finish(h)

\* Mutant: the row that was read is not used.
GetQuotaAndAdd(h, o) ==
  /\ Reads(h, "getQuota", o)
  /\ Goto(h, "addQuota")

GetQuota(h, o) ==
  /\ Reads(h, "getQuota", o)
  /\ IF o = "ok" /\ QuotaRows(req[h].user) # {}
     THEN \E k \in QuotaRows(req[h].user) : Quoted(h, k)
     ELSE Goto(h, "addQuota")

AddQuota(h, o) ==
  /\ At(h, "addQuota")
  /\ Call(req[h].ctx, o)
  /\ InsertDefault(req[h].user, o)
  /\ IF o = "ok" THEN Quoted(h, "default") ELSE Goto(h, "regetQuota")
  /\ UNCHANGED <<phase, mishap, clusterVars, storeVars>>

\* Mutant: a failed second read starts over instead of giving up.
RegetQuotaForever(h, o) ==
  /\ Reads(h, "regetQuota", o)
  /\ IF o = "ok" /\ QuotaRows(req[h].user) # {}
     THEN \E k \in QuotaRows(req[h].user) : Quoted(h, k)
     ELSE Goto(h, "getQuota")

RegetQuota(h, o) ==
  /\ Reads(h, "regetQuota", o)
  /\ IF o = "ok" /\ QuotaRows(req[h].user) # {}
     THEN \E k \in QuotaRows(req[h].user) : Quoted(h, k)
     ELSE Finish(h)

\* Mutant: the count is compared with > instead of >=.
CountOffByOne(h, o) ==
  /\ Reads(h, "count", o)
  /\ IF o = "ok" /\ Cardinality(Active(req[h].user)) <= MaxPods[req[h].limit]
     THEN req' = [req EXCEPT ![h].pc = "getNamespace", ![h].limit = "none"]
     ELSE Finish(h)

\* CountActiveByUserID and the comparison with max_pods.
Count(h, o) ==
  /\ Reads(h, "count", o)
  /\ IF o = "ok" /\ Cardinality(Active(req[h].user)) < MaxPods[req[h].limit]
     THEN req' = [req EXCEPT ![h].pc = "getNamespace", ![h].limit = "none"]
     ELSE Finish(h)

-----------------------------------------------------------------------------
\* CreateOrGetNamespace.  Only NotFound leads on to the create call.
GetNamespace(h, o) ==
  /\ Reads(h, "getNamespace", o)
  /\ GotoIf(o = "ok", h,
            IF NamespaceOf[req[h].user] \in namespaces THEN "addPV" ELSE "addNamespace")

\* AlreadyExists: another request created it between the get and the create.
AddNamespace(h, o) ==
  /\ At(h, "addNamespace")
  /\ Call(req[h].ctx, o)
  /\ CreateNamespace(NamespaceOf[req[h].user], o)
  /\ GotoIf(o = "ok", h,
            IF NamespaceOf[req[h].user] \in namespaces THEN "regetNamespace" ELSE "addPV")
  /\ UNCHANGED <<phase, mishap, storeVars, defaults>>

RegetNamespace(h, o) ==
  /\ Reads(h, "regetNamespace", o)
  /\ GotoIf(o = "ok", h, "addPV")

-----------------------------------------------------------------------------
\* A call of handler h that creates or deletes the object of kind k.
Creates(h, pc, k, o) ==
  /\ At(h, pc)
  /\ Call(req[h].ctx, o)
  /\ CreateObject(k, req[h].id, o)
  /\ UNCHANGED <<phase, storeVars, defaults>>

Deletes(h, pc, k, o) ==
  /\ At(h, pc)
  /\ Call(req[h].ctx, o)
  /\ DeleteObject(k, req[h].id, o)
  /\ Leaves(LeftBy(k, o), req[h].id)
  /\ UNCHANGED <<phase, storeVars, defaults>>

\* CreatePVC makes the volume first.  Without it there is nothing to undo.  Here
\* and below, an object whose create call reported an error stays if it exists.
AddPV(h, o) ==
  /\ Creates(h, "addPV", "pv", o)
  /\ Leaves(When(o = "lost", {"pv"}), req[h].id)
  /\ GotoIf(o = "ok", h, "addPVC")

\* The volume stays behind when the claim cannot be created: CreatePVC returns,
\* and ProvisionPod undoes nothing.
AddPVC(h, o) ==
  /\ Creates(h, "addPVC", "pvc", o)
  /\ Leaves(When(o # "ok", {"pv"}) \cup When(o = "lost", {"pvc"}), req[h].id)
  /\ GotoIf(o = "ok", h, "addPod")

AddPod(h, o) ==
  /\ Creates(h, "addPod", "pod", o)
  /\ Leaves(When(o = "lost", {"pod"}), req[h].id)
  /\ Goto(h, IF o = "ok" THEN "addService" ELSE "undoPVC")

\* Mutant: a failed service creation forgets the pod.
AddServiceKeepsPod(h, o) ==
  /\ Creates(h, "addService", "service", o)
  /\ Leaves(When(o = "lost", {"service"}), req[h].id)
  /\ Goto(h, IF o = "ok" THEN "addRow" ELSE "undoPVC")

\* Mutant: the row is inserted although there is no service.
AddServiceUnchecked(h, o) ==
  /\ Creates(h, "addService", "service", o)
  /\ Leaves(When(o = "lost", {"service"}), req[h].id)
  /\ Goto(h, "addRow")

AddService(h, o) ==
  /\ Creates(h, "addService", "service", o)
  /\ Leaves(When(o = "lost", {"service"}), req[h].id)
  /\ Goto(h, IF o = "ok" THEN "addRow" ELSE "undoPod")

\* podRepo.Create.  The foreign key rejects the row of a tenanted user for
\* whom no operator has made a quota row.
RowAnswer(h, o) ==
  IF ForeignKeyHolds(req[h].user) THEN Call(req[h].ctx, o)
  ELSE o = "err" /\ UNCHANGED faults

\* A row whose insert reported an error stays, and its objects go.
AddRow(h, o) ==
  /\ At(h, "addRow")
  /\ RowAnswer(h, o)
  /\ InsertRow(req[h].id, req[h].user, o)
  /\ Leaves(When(o = "lost", {"row", "log"}), req[h].id)
  /\ Goto(h, IF o = "ok" THEN "logCreated" ELSE "undoService")
  /\ UNCHANGED <<phase, clusterVars, defaults>>

\* The best-effort activity record, then the answer to the client.
Logs(h, pc, t, o) ==
  /\ At(h, pc)
  /\ Call(req[h].ctx, o)
  /\ LogActivity(t, req[h].id, o)
  /\ Leaves(When(o # "ok", {"log"}), req[h].id)
  /\ Finish(h)
  /\ UNCHANGED <<phase, clusterVars, defaults>>

LogCreated(h, o) == Logs(h, "logCreated", "created", o)

\* The cleanup on the error paths.  DeletePVC deletes the volume only after
\* the claim is gone; every error is ignored.
UndoService(h, o) == Deletes(h, "undoService", "service", o) /\ Goto(h, "undoPod")
UndoPod(h, o) == Deletes(h, "undoPod", "pod", o) /\ Goto(h, "undoPVC")
UndoPVC(h, o) == Deletes(h, "undoPVC", "pvc", o) /\ GotoIf(o = "ok", h, "undoPV")
UndoPV(h, o) == Deletes(h, "undoPV", "pv", o) /\ Finish(h)

-----------------------------------------------------------------------------
\* Mutant: the handler does not compare the row's user with its own.
OwnedByAnyone(h, pc, to, o) ==
  /\ Reads(h, pc, o)
  /\ GotoIf(o = "ok" /\ Visible(req[h].id), h, to)

\* The handlers look the pod up and compare its user with the token's.
Owned(h, pc, to, o) ==
  /\ Reads(h, pc, o)
  /\ GotoIf(o = "ok" /\ Visible(req[h].id) /\ pods[req[h].id].user = req[h].user, h, to)

\* The service looks it up again.
Found(h, pc, to, o) ==
  /\ Reads(h, pc, o)
  /\ GotoIf(o = "ok" /\ Visible(req[h].id), h, to)

OwnDelete(h, o) == Owned(h, "ownDelete", "getDelete", o)
GetDelete(h, o) == Found(h, "getDelete", "delService", o)

\* Best effort, as in the cleanup; the row is soft-deleted whatever happened.
DelService(h, o) == Deletes(h, "delService", "service", o) /\ Goto(h, "delPod")
DelPod(h, o) == Deletes(h, "delPod", "pod", o) /\ Goto(h, "delPVC")

\* Mutant: the claim is deleted and its volume is not.
DelPVCKeepsVolume(h, o) == Deletes(h, "delPVC", "pvc", o) /\ Goto(h, "softDelete")

DelPVC(h, o) ==
  Deletes(h, "delPVC", "pvc", o) /\ Goto(h, IF o = "ok" THEN "delPV" ELSE "softDelete")
DelPV(h, o) == Deletes(h, "delPV", "pv", o) /\ Goto(h, "softDelete")

\* Mutant: the activity record is left out.
MarkDeletedSilently(h, o) ==
  /\ At(h, "softDelete")
  /\ Call(req[h].ctx, o)
  /\ SoftDelete(req[h].id, o)
  /\ Leaves(When(o = "err", {"row"}) \cup When(o = "lost", {"log"}), req[h].id)
  /\ Finish(h)
  /\ UNCHANGED <<phase, clusterVars, defaults>>

\* SoftDelete changes no row, and reports "pod not found", the second time.  If
\* it fails the row stays, without its objects.
MarkDeleted(h, o) ==
  /\ At(h, "softDelete")
  /\ Call(req[h].ctx, o)
  /\ SoftDelete(req[h].id, o)
  /\ Leaves(When(o = "err", {"row"}) \cup When(o = "lost", {"log"}), req[h].id)
  /\ GotoIf(o = "ok" /\ Visible(req[h].id), h, "logStopped")
  /\ UNCHANGED <<phase, clusterVars, defaults>>

LogStopped(h, o) == Logs(h, "logStopped", "stopped", o)

-----------------------------------------------------------------------------
\* ProxyToPod up to the reverse proxy: the row's expiry moves on.
OwnTouch(h, o) == Owned(h, "ownTouch", "getTouch", o)
GetTouch(h, o) == Found(h, "getTouch", "touch", o)

Touch(h, o) ==
  /\ At(h, "touch")
  /\ Call(req[h].ctx, o)
  /\ UpdateActivity(req[h].id, o)
  /\ Finish(h)
  /\ UNCHANGED <<phase, mishap, clusterVars, defaults>>

-----------------------------------------------------------------------------
QuotaStep(h, o) ==
  GetQuota(h, o) \/ AddQuota(h, o) \/ RegetQuota(h, o) \/ Count(h, o)

CreateStep(h, o) ==
  \/ GetNamespace(h, o) \/ AddNamespace(h, o) \/ RegetNamespace(h, o)
  \/ AddPV(h, o) \/ AddPVC(h, o) \/ AddPod(h, o) \/ AddService(h, o)
  \/ AddRow(h, o) \/ LogCreated(h, o)

UndoStep(h, o) ==
  UndoService(h, o) \/ UndoPod(h, o) \/ UndoPVC(h, o) \/ UndoPV(h, o)

DeleteStep(h, o) ==
  \/ OwnDelete(h, o) \/ GetDelete(h, o) \/ DelService(h, o) \/ DelPod(h, o)
  \/ DelPVC(h, o) \/ DelPV(h, o) \/ MarkDeleted(h, o) \/ LogStopped(h, o)

TouchStep(h, o) == OwnTouch(h, o) \/ GetTouch(h, o) \/ Touch(h, o)

\* What the goroutine of handler h does by itself.
HandlerStep(h) ==
  \E o \in Outcomes : \/ QuotaStep(h, o) \/ CreateStep(h, o) \/ UndoStep(h, o)
                      \/ DeleteStep(h, o) \/ TouchStep(h, o)

\* What its client does.
ClientStep(h) == StartProvision(h) \/ StartDelete(h) \/ StartTouch(h) \/ Disconnect(h)

ServiceNext == \E h \in Handlers : HandlerStep(h) \/ ClientStep(h)
=============================================================================
