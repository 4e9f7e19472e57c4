--------------------------- MODULE AccountProofs ---------------------------
(***************************************************************************)
(* What a user may hold and what it is billed for.                         *)
(*                                                                         *)
(* The quota theorem: a user has fewer than Ceiling(u) + |Handlers| pods,  *)
(* counting the requests that the quota check has let pass.  QuotaBound is *)
(* inductive together with the types and with LimitFits, which says where  *)
(* the limit at the count came from.                                       *)
(*                                                                         *)
(* How often a pod is billed.  The sweep bills before it marks the row, so *)
(* that a failed mark leaves the row to be billed again.  Each time costs  *)
(* a failure or a stop of the process; a process that is draining has been *)
(* stopped already and may spend that stop on every pod it still holds.    *)
(***************************************************************************)
EXTENDS PulseClaims, ObjectProofs

-----------------------------------------------------------------------------
(* Quotas. *)

\* A handler about to count compares with a quota row its user can have.
LimitFits ==
  \A h \in Handlers :
     req[h].pc = "count" => /\ req[h].limit \in QuotaKinds
                            /\ MaxPods[req[h].limit] <= Ceiling(req[h].user)

QuotaInv == TypeOK /\ LimitFits /\ QuotaBound

Bound(u) ==
  Cardinality(Active(u)) + Cardinality(Admitted(u)) < Ceiling(u) + Cardinality(Handlers)

LEMMA CeilingType ==
  /\ \A u \in Users : Ceiling(u) \in Nat
  /\ \A u \in Users : MaxPods["default"] <= Ceiling(u)
  /\ \A u \in Users \cap Customised : MaxPods["custom"] <= Ceiling(u)
<1>1. MaxPods["custom"] \in Nat /\ MaxPods["default"] \in Nat
  BY QuotaAssumption DEF QuotaKinds
<1>2. QED  BY <1>1 DEF Ceiling

LEMMA FiniteParts ==
  ASSUME NEW u
  PROVE  /\ IsFiniteSet(Active(u)) /\ Cardinality(Active(u)) \in Nat
         /\ IsFiniteSet(Admitted(u)) /\ Cardinality(Admitted(u)) \in Nat
         /\ Cardinality(Admitted(u)) <= Cardinality(Handlers)
         /\ Cardinality(Handlers) \in Nat
<1>1. Active(u) \subseteq PulseIDs /\ Admitted(u) \subseteq Handlers
  BY DEF Active, Admitted
<1>2. QED
  BY <1>1, IdsAssumption, FS_Subset, FS_CardinalityType

\* A step that adds neither an active row nor an admitted handler.
LEMMA ShrinkKeepsBound ==
  ASSUME NEW u \in Users, Bound(u), Active(u)' \subseteq Active(u),
         Admitted(u)' \subseteq Admitted(u)
  PROVE  Bound(u)'
<1>1. Cardinality(Active(u)') \in Nat /\ Cardinality(Active(u)') <= Cardinality(Active(u))
  BY FiniteParts, FS_Subset, FS_CardinalityType
<1>2. Cardinality(Admitted(u)') \in Nat
      /\ Cardinality(Admitted(u)') <= Cardinality(Admitted(u))
  BY FiniteParts, FS_Subset, FS_CardinalityType
<1>3. Cardinality(Active(u)') + Cardinality(Admitted(u)')
        < Ceiling(u) + Cardinality(Handlers)
  BY <1>1, <1>2, FiniteParts, CeilingType DEF Bound
<1>4. QED  BY <1>3 DEF Bound

\* A row statement other than the insert adds no active row.
LEMMA RowsShrink ==
  ASSUME StoreTypeOK, NEW u \in Users, NEW p \in PulseIDs, NEW o,
         \/ UpdateStatus(p, o) \/ UpdateActivity(p, o) \/ SoftDelete(p, o) \/ Lapse(p)
         \/ UNCHANGED pods
  PROVE  Active(u)' \subseteq Active(u)
<1>1. ASSUME NEW q \in PulseIDs
      PROVE  /\ pods'[q].user = pods[q].user
             /\ pods'[q].status \in {pods[q].status, "expired"}
             /\ pods[q].deleted => pods'[q].deleted
  BY DEF UpdateStatus, UpdateActivity, SoftDelete, Lapse, StoreTypeOK, Rows
<1>2. QED
  BY <1>1 DEF Active, ActiveRow

\* What a step may do to the step counter of a handler, when it neither passes
\* the count nor inserts the row.
Moves(h) ==
  \/ Finish(h)
  \/ \E to \in Steps \ {"count"} :
        Goto(h, to) /\ (to \in PassedCount => req[h].pc \in PassedCount)
  \/ \E k \in QuotaRows(req[h].user) \cup {"default"} : Quoted(h, k)
  \/ \E r \in Requests : /\ r.pc \in {"getQuota", "ownDelete", "ownTouch"}
                         /\ req' = [req EXCEPT ![h] = r]
  \/ req' = [req EXCEPT ![h].ctx = "cancelled"]

LEMMA MovesKeep ==
  ASSUME ServiceTypeOK, LimitFits, NEW h \in Handlers, Moves(h),
         req[h].pc # "idle" \/ \E r \in Requests : /\ r.pc \in {"getQuota", "ownDelete", "ownTouch"}
                                                   /\ req' = [req EXCEPT ![h] = r]
  PROVE  LimitFits' /\ \A u \in Users : Admitted(u)' \subseteq Admitted(u)
<1>1. \A g \in Handlers \ {h} : req'[g] = req[g]
  BY DEF Moves, Finish, Goto, Quoted, ServiceTypeOK
<1>2. SUFFICES /\ req'[h].pc = "count" =>
                    /\ req'[h].limit \in QuotaKinds
                    /\ MaxPods[req'[h].limit] <= Ceiling(req'[h].user)
               /\ req'[h].pc \in PassedCount =>
                    req[h].pc \in PassedCount /\ req'[h].user = req[h].user
  BY <1>1 DEF LimitFits, Admitted
<1> USE DEF PassedCount, NamespaceSteps, CreateSteps
<1>3. CASE Finish(h)
  BY <1>3 DEF Finish, ServiceTypeOK, Idle
<1>4. CASE \E r \in Requests : /\ r.pc \in {"getQuota", "ownDelete", "ownTouch"}
                               /\ req' = [req EXCEPT ![h] = r]
  BY <1>4 DEF ServiceTypeOK
<1>5. ASSUME req[h] \in Requests, NEW to \in Steps \ {"count"}, Goto(h, to),
             to \in PassedCount => req[h].pc \in PassedCount
      PROVE  /\ req'[h].pc # "count"
             /\ req'[h].pc \in PassedCount =>
                    req[h].pc \in PassedCount /\ req'[h].user = req[h].user
  BY <1>5 DEF Goto, ServiceTypeOK, Requests
<1>6. ASSUME req[h] \in Requests, NEW k \in QuotaRows(req[h].user) \cup {"default"}, Quoted(h, k)
      PROVE  /\ req'[h].pc \notin PassedCount
             /\ req'[h].pc = "count" => /\ req'[h].limit \in QuotaKinds
                                        /\ MaxPods[req'[h].limit] <= Ceiling(req'[h].user)
  <2>1. req[h].user \in Users
    BY <1>6 DEF Requests
  <2>2. k \in QuotaKinds /\ MaxPods[k] <= Ceiling(req[h].user)
    BY <2>1, CeilingType DEF QuotaRows, QuotaKinds
  <2>3. CASE Finish(h)
    BY <2>3 DEF Finish, ServiceTypeOK, Idle
  <2>4. CASE req' = [req EXCEPT ![h].pc = "count", ![h].limit = k]
    <3>1. req'[h].pc = "count" /\ req'[h].limit = k /\ req'[h].user = req[h].user
      BY <1>6, <2>4 DEF ServiceTypeOK, Requests
    <3>2. QED  BY <2>2, <3>1
  <2>5. QED  BY <1>6, <2>3, <2>4 DEF Quoted
<1>7. ASSUME req[h] \in Requests, req' = [req EXCEPT ![h].ctx = "cancelled"]
      PROVE  req'[h].pc = req[h].pc /\ req'[h].user = req[h].user /\ req'[h].limit = req[h].limit
  BY <1>7 DEF ServiceTypeOK, Requests
<1>8. QED
  BY <1>3, <1>4, <1>5, <1>6, <1>7, BusyRequest DEF Moves, LimitFits

-----------------------------------------------------------------------------
\* The steps of a handler other than the count and the insert.
LEMMA OtherStepMoves ==
  ASSUME ServiceTypeOK, NEW h \in Handlers, NEW o,
         \/ GetQuota(h, o) \/ AddQuota(h, o) \/ RegetQuota(h, o)
         \/ CreateStep(h, o) /\ ~ AddRow(h, o)
         \/ UndoStep(h, o) \/ DeleteStep(h, o) \/ TouchStep(h, o)
  PROVE  Moves(h) /\ req[h].pc # "idle"
<1> USE DEF At, Steps, QuotaSteps, NamespaceSteps, CreateSteps, UndoSteps, DeleteSteps,
            LogSteps, LookupSteps, PassedCount, Moves
<1>1. CASE GetQuota(h, o) \/ AddQuota(h, o) \/ RegetQuota(h, o)
  BY <1>1 DEF GetQuota, AddQuota, RegetQuota, Reads
<1>2. CASE GetNamespace(h, o) \/ AddNamespace(h, o) \/ RegetNamespace(h, o)
  BY <1>2 DEF GetNamespace, AddNamespace, RegetNamespace, Reads, GotoIf
<1>3. CASE AddPV(h, o) \/ AddPVC(h, o) \/ AddPod(h, o) \/ AddService(h, o)
  BY <1>3 DEF AddPV, AddPVC, AddPod, AddService, Creates, GotoIf
<1>4. CASE LogCreated(h, o) \/ LogStopped(h, o)
  BY <1>4 DEF LogCreated, LogStopped, Logs
<1>5. CASE UndoStep(h, o)
  BY <1>5 DEF UndoStep, UndoService, UndoPod, UndoPVC, UndoPV, Deletes, GotoIf
<1>6. CASE OwnDelete(h, o) \/ GetDelete(h, o)
  BY <1>6 DEF OwnDelete, GetDelete, Owned, Found, Reads, GotoIf
<1>7. CASE DelService(h, o) \/ DelPod(h, o) \/ DelPVC(h, o) \/ DelPV(h, o)
  BY <1>7 DEF DelService, DelPod, DelPVC, DelPV, Deletes
<1>8. CASE MarkDeleted(h, o)
  BY <1>8 DEF MarkDeleted, GotoIf
<1>9. CASE TouchStep(h, o)
  BY <1>9 DEF TouchStep, OwnTouch, GetTouch, Touch, Owned, Found, Reads, GotoIf
<1>10. QED
  BY <1>1, <1>2, <1>3, <1>4, <1>5, <1>6, <1>7, <1>8, <1>9 DEF CreateStep, DeleteStep

LEMMA OtherStepRows ==
  ASSUME StoreTypeOK, ServiceTypeOK, NEW h \in Handlers, NEW o, NEW u \in Users,
         \/ GetQuota(h, o) \/ AddQuota(h, o) \/ RegetQuota(h, o)
         \/ CreateStep(h, o) /\ ~ AddRow(h, o)
         \/ UndoStep(h, o) \/ DeleteStep(h, o) \/ TouchStep(h, o)
  PROVE  Active(u)' \subseteq Active(u)
<1>1. CASE MarkDeleted(h, o) \/ Touch(h, o)
  <2>1. req[h].id \in PulseIDs
    BY <1>1, BusyRequest DEF MarkDeleted, Touch, At, Requests
  <2>2. QED  BY <1>1, <2>1, RowsShrink DEF MarkDeleted, Touch
<1>2. CASE GetQuota(h, o) \/ AddQuota(h, o) \/ RegetQuota(h, o)
  BY <1>2 DEF GetQuota, AddQuota, RegetQuota, Reads, storeVars, Active
<1>3. CASE CreateStep(h, o) /\ ~ AddRow(h, o)
  BY <1>3 DEF CreateStep, GetNamespace, AddNamespace, RegetNamespace, AddPV, AddPVC,
     AddPod, AddService, LogCreated, Reads, Creates, Logs, LogActivity, storeVars, Active
<1>4. CASE UndoStep(h, o)
  BY <1>4 DEF UndoStep, UndoService, UndoPod, UndoPVC, UndoPV, Deletes, storeVars, Active
<1>5. CASE DeleteStep(h, o) /\ ~ MarkDeleted(h, o)
  BY <1>5 DEF DeleteStep, OwnDelete, GetDelete, DelService, DelPod, DelPVC, DelPV,
     LogStopped, Owned, Found, Reads, Deletes, Logs, LogActivity, storeVars, Active
<1>6. CASE TouchStep(h, o) /\ ~ Touch(h, o)
  BY <1>6 DEF TouchStep, OwnTouch, GetTouch, Owned, Found, Reads, storeVars, Active
<1>7. QED  BY <1>1, <1>2, <1>3, <1>4, <1>5, <1>6

\* The count lets a handler pass only while the active rows are below the limit.
LEMMA CountKeeps ==
  ASSUME QuotaInv, NEW h \in Handlers, NEW o, Count(h, o)
  PROVE  LimitFits' /\ \A u \in Users : Bound(u)'
<1>1. req[h] \in Requests /\ req[h].pc = "count"
  BY BusyRequest DEF QuotaInv, TypeOK, Count, Reads, At
<1>2. \A u : Active(u)' = Active(u)
  BY DEF Count, Reads, storeVars, Active
<1>3. CASE Finish(h)
  <2>1. Moves(h) /\ ServiceTypeOK /\ LimitFits
    BY <1>3 DEF Moves, QuotaInv, TypeOK
  <2>2. LimitFits' /\ \A u \in Users : Admitted(u)' \subseteq Admitted(u)
    BY <1>1, <2>1, MovesKeep
  <2>3. QED
    BY <1>2, <2>2, ShrinkKeepsBound DEF QuotaInv, QuotaBound, Bound
<1>4. CASE /\ Cardinality(Active(req[h].user)) < MaxPods[req[h].limit]
           /\ req' = [req EXCEPT ![h].pc = "getNamespace", ![h].limit = "none"]
  <2>1. /\ req'[h].pc = "getNamespace" /\ req'[h].user = req[h].user
        /\ \A g \in Handlers \ {h} : req'[g] = req[g]
    BY <1>1, <1>4 DEF QuotaInv, TypeOK, ServiceTypeOK, Requests
  <2>2. LimitFits'
    BY <2>1 DEF QuotaInv, LimitFits
  <2>3. ASSUME NEW u \in Users, u # req[h].user
        PROVE  Bound(u)'
    <3>1. Admitted(u)' \subseteq Admitted(u)
      BY <2>1, <2>3 DEF Admitted
    <3>2. QED
      BY <1>2, <3>1, ShrinkKeepsBound DEF QuotaInv, QuotaBound, Bound
  <2>4. ASSUME NEW u \in Users, u = req[h].user
        PROVE  Bound(u)'
    <3>1. req[h].limit \in QuotaKinds /\ MaxPods[req[h].limit] <= Ceiling(u)
      BY <1>1, <2>4 DEF QuotaInv, LimitFits
    <3>2. MaxPods[req[h].limit] \in Nat /\ Ceiling(u) \in Nat
      BY <3>1, CeilingType, QuotaAssumption
    <3>3. Admitted(u)' \subseteq Handlers
      BY DEF Admitted
    <3>4. /\ Cardinality(Admitted(u)') \in Nat
          /\ Cardinality(Admitted(u)') <= Cardinality(Handlers)
      BY <3>3, IdsAssumption, FS_Subset, FS_CardinalityType
    <3>5. /\ Cardinality(Active(u)) \in Nat /\ Cardinality(Handlers) \in Nat
          /\ Active(u)' = Active(u)
      BY <1>2, FiniteParts
    <3>6. Cardinality(Active(u)) < Ceiling(u)
      BY <1>4, <2>4, <3>1, <3>2, <3>5
    <3>7. Cardinality(Active(u)') + Cardinality(Admitted(u)')
            < Ceiling(u) + Cardinality(Handlers)
      BY <3>2, <3>4, <3>5, <3>6
    <3>8. QED  BY <3>7 DEF Bound
  <2>5. QED  BY <2>2, <2>3, <2>4
<1>5. QED  BY <1>3, <1>4 DEF Count

\* The insert turns an admitted handler into an active row.
LEMMA AddRowKeeps ==
  ASSUME QuotaInv, NEW h \in Handlers, NEW o, AddRow(h, o)
  PROVE  LimitFits' /\ \A u \in Users : Bound(u)'
<1>1. req[h] \in Requests /\ req[h].pc = "addRow" /\ StoreTypeOK /\ ServiceTypeOK /\ LimitFits
  BY BusyRequest DEF QuotaInv, TypeOK, AddRow, At
<1>2. \E to \in {"logCreated", "undoService"} : Goto(h, to)
  BY DEF AddRow
<1>3. Moves(h)
  BY <1>2 DEF Moves, Steps, LogSteps, UndoSteps, PassedCount, NamespaceSteps, CreateSteps
<1>4. LimitFits' /\ \A u \in Users : Admitted(u)' \subseteq Admitted(u)
  BY <1>1, <1>3, MovesKeep
<1>5. pods' \in {pods, [pods EXCEPT ![req[h].id] = [status |-> "pending", deleted |-> FALSE,
                                      lapsed |-> FALSE, user |-> req[h].user]]}
  BY DEF AddRow, InsertRow
<1>6. ASSUME NEW u \in Users
      PROVE  /\ Active(u)' \subseteq Active(u) \cup {req[h].id}
             /\ u # req[h].user => Active(u)' \subseteq Active(u)
  BY <1>1, <1>5 DEF Active, ActiveRow, StoreTypeOK
<1>7. ASSUME NEW u \in Users, u # req[h].user
      PROVE  Bound(u)'
  BY <1>4, <1>6, <1>7, ShrinkKeepsBound DEF QuotaInv, QuotaBound, Bound
<1>8. ASSUME NEW u \in Users, u = req[h].user
      PROVE  Bound(u)'
  <2>1. h \in Admitted(u)
    BY <1>1, <1>8 DEF Admitted, PassedCount, CreateSteps
  <2>2. req'[h].pc \in {"logCreated", "undoService"}
    BY <1>1, <1>2 DEF Goto, ServiceTypeOK, Requests
  <2>3. Admitted(u)' \subseteq Admitted(u) \ {h}
    BY <1>4, <2>2 DEF Admitted, PassedCount, NamespaceSteps, CreateSteps
  <2>4. /\ IsFiniteSet(Admitted(u) \ {h})
        /\ Cardinality(Admitted(u) \ {h}) = Cardinality(Admitted(u)) - 1
        /\ Cardinality(Admitted(u)) \in Nat
        /\ Cardinality(Admitted(u) \ {h}) \in Nat
    BY <2>1, FiniteParts, FS_RemoveElement, FS_CardinalityType
  <2>5. /\ Cardinality(Admitted(u)') <= Cardinality(Admitted(u) \ {h})
        /\ Cardinality(Admitted(u)') \in Nat
    BY <2>3, <2>4, FS_Subset, FS_CardinalityType
  <2>6. /\ IsFiniteSet(Active(u) \cup {req[h].id})
        /\ Cardinality(Active(u) \cup {req[h].id}) <= Cardinality(Active(u)) + 1
        /\ Cardinality(Active(u) \cup {req[h].id}) \in Nat
        /\ Cardinality(Active(u)) \in Nat
    <3>1. IsFiniteSet(Active(u)) /\ Cardinality(Active(u)) \in Nat
      BY FiniteParts
    <3>2. /\ IsFiniteSet(Active(u) \cup {req[h].id})
          /\ Cardinality(Active(u) \cup {req[h].id})
               \in {Cardinality(Active(u)), Cardinality(Active(u)) + 1}
      BY <3>1, FS_AddElement
    <3>3. QED  BY <3>1, <3>2
  <2>7. /\ Cardinality(Active(u)') <= Cardinality(Active(u) \cup {req[h].id})
        /\ Cardinality(Active(u)') \in Nat
    BY <1>6, <2>6, FS_Subset, FS_CardinalityType
  <2>8. /\ Cardinality(Active(u)) + Cardinality(Admitted(u)) < Ceiling(u) + Cardinality(Handlers)
        /\ Ceiling(u) \in Nat /\ Cardinality(Handlers) \in Nat
    BY CeilingType, FiniteParts DEF QuotaInv, QuotaBound
  <2>9. Cardinality(Active(u)') + Cardinality(Admitted(u)') < Ceiling(u) + Cardinality(Handlers)
    BY <2>4, <2>5, <2>6, <2>7, <2>8
  <2>10. QED  BY <2>9 DEF Bound
<1>9. QED  BY <1>4, <1>7, <1>8

-----------------------------------------------------------------------------
LEMMA InitQuota ==
  ASSUME Init
  PROVE  QuotaInv
<1>1. TypeOK
  BY InitType
<1>2. LimitFits
  BY DEF Init, ServiceInit, Idle, LimitFits
<1>3. ASSUME NEW u \in Users
      PROVE  Cardinality(Active(u)) + Cardinality(Admitted(u)) < Ceiling(u) + Cardinality(Handlers)
  <2>1. Active(u) = {}
    BY DEF Init, StoreInit, NoRow, Active, ActiveRow
  <2>2. Admitted(u) = {}
    BY DEF Init, ServiceInit, Idle, Admitted, PassedCount, NamespaceSteps, CreateSteps
  <2>3. Cardinality(Handlers) > 0 /\ Cardinality(Handlers) \in Nat
    BY IdsAssumption, FS_CardinalityType, FS_EmptySet
  <2>4. QED
    BY <2>1, <2>2, <2>3, FS_EmptySet, CeilingType
<1>4. QED  BY <1>1, <1>2, <1>3 DEF QuotaInv, QuotaBound

LEMMA NextQuota ==
  ASSUME QuotaInv, [Next]_vars
  PROVE  LimitFits' /\ \A u \in Users : Bound(u)'
<1>1. TypeOK /\ StoreTypeOK /\ ServiceTypeOK /\ SweepTypeOK /\ LimitFits /\ \A u \in Users : Bound(u)
  BY DEF QuotaInv, TypeOK, QuotaBound, Bound
<1>2. ASSUME NEW h \in Handlers, Service(h)
      PROVE  LimitFits' /\ \A u \in Users : Bound(u)'
  <2>1. PICK o \in Outcomes : \/ QuotaStep(h, o) \/ CreateStep(h, o) \/ UndoStep(h, o)
                             \/ DeleteStep(h, o) \/ TouchStep(h, o)
    BY <1>2 DEF Service, HandlerStep
  <2>2. CASE Count(h, o)
    BY <2>2, CountKeeps
  <2>3. CASE AddRow(h, o)
    BY <2>3, AddRowKeeps
  <2>4. CASE ~ Count(h, o) /\ ~ AddRow(h, o)
    <3>1. \/ GetQuota(h, o) \/ AddQuota(h, o) \/ RegetQuota(h, o)
          \/ CreateStep(h, o) /\ ~ AddRow(h, o)
          \/ UndoStep(h, o) \/ DeleteStep(h, o) \/ TouchStep(h, o)
      BY <2>1, <2>4 DEF QuotaStep
    <3>2. Moves(h) /\ req[h].pc # "idle"
      BY <1>1, <3>1, OtherStepMoves
    <3>3. LimitFits' /\ \A u \in Users : Admitted(u)' \subseteq Admitted(u)
      BY <1>1, <3>2, MovesKeep
    <3>4. \A u \in Users : Active(u)' \subseteq Active(u)
      BY <1>1, <3>1, OtherStepRows
    <3>5. QED  BY <1>1, <3>3, <3>4, ShrinkKeepsBound
  <2>5. QED  BY <2>2, <2>3, <2>4
<1>3. ASSUME NEW h \in Handlers, Client(h)
      PROVE  LimitFits' /\ \A u \in Users : Bound(u)'
  <2>1. \A u \in Users : Active(u)' \subseteq Active(u)
    BY <1>3 DEF Client, ClientStep, StartProvision, StartDelete, StartTouch, Arrive,
       Disconnect, storeVars, Active
  <2>2. CASE Disconnect(h)
    <3>1. Moves(h) /\ req[h].pc # "idle"
      BY <2>2 DEF Disconnect, At, Moves
    <3>2. QED  BY <1>1, <2>1, <3>1, MovesKeep, ShrinkKeepsBound
  <2>3. CASE StartProvision(h) \/ StartDelete(h) \/ StartTouch(h)
    <3>1. \E r \in Requests : /\ r.pc \in {"getQuota", "ownDelete", "ownTouch"}
                             /\ req' = [req EXCEPT ![h] = r]
      <4>1. ASSUME NEW pc \in {"getQuota", "ownDelete", "ownTouch"}, NEW p \in PulseIDs,
                   NEW u \in Users, NEW z \in Sizes \cup {None}, Arrive(h, pc, p, u, z)
            PROVE  \E r \in Requests : /\ r.pc \in {"getQuota", "ownDelete", "ownTouch"}
                                      /\ req' = [req EXCEPT ![h] = r]
        <5>1. [pc |-> pc, id |-> p, user |-> u, size |-> z, limit |-> "none", ctx |-> "live"]
                \in Requests
          BY DEF Requests, Steps, QuotaSteps, LookupSteps
        <5>2. QED  BY <4>1, <5>1 DEF Arrive
      <4>2. QED  BY <2>3, <4>1 DEF StartProvision, StartDelete, StartTouch
    <3>2. Moves(h)
      BY <3>1 DEF Moves
    <3>3. QED  BY <1>1, <2>1, <3>1, <3>2, MovesKeep, ShrinkKeepsBound
  <2>4. QED  BY <1>3, <2>2, <2>3 DEF Client, ClientStep
<1>4. ASSUME req' = req, \A u \in Users : Active(u)' \subseteq Active(u)
      PROVE  LimitFits' /\ \A u \in Users : Bound(u)'
  <2>1. LimitFits' /\ \A u \in Users : Admitted(u)' = Admitted(u)
    BY <1>1, <1>4 DEF LimitFits, Admitted
  <2>2. QED  BY <1>1, <1>4, <2>1, ShrinkKeepsBound
<1>5. CASE Sweep
  <2>1. ASSUME NEW u \in Users, NEW o, Mark(o)
        PROVE  Active(u)' \subseteq Active(u)
    BY <1>1, <2>1, RowsShrink DEF Mark, SweepCall, SweepAt, SweepTypeOK
  <2>2. ASSUME NEW u \in Users, \A o : ~ Mark(o)
        PROVE  Active(u)' \subseteq Active(u)
    BY <1>5, <2>2 DEF Sweep, SweepStep, Tick, Bill, EndSweep, Stop, CleanupStep,
       SweepDelService, SweepDelPod, SweepDelPVC, SweepDelPV, SweepDeletes, SweepLog,
       LogActivity, storeVars, Active
  <2>3. QED  BY <1>4, <1>5, <2>1, <2>2 DEF Sweep
<1>6. ASSUME NEW p \in PulseIDs, Time(p)
      PROVE  LimitFits' /\ \A u \in Users : Bound(u)'
  BY <1>1, <1>4, <1>6, RowsShrink DEF Time
<1>7. CASE Crash \/ Die \/ Exit
  <2>1. req' = [h \in Handlers |-> Idle] /\ pods' = pods
    BY <1>7 DEF Crash, Die, Exit, Ends, storeVars
  <2>2. LimitFits' /\ \A u \in Users : Admitted(u)' = {} /\ Active(u)' = Active(u)
    BY <2>1 DEF LimitFits, Admitted, Idle, PassedCount, NamespaceSteps, CreateSteps, Active
  <2>3. QED  BY <1>1, <2>2, ShrinkKeepsBound
<1>8. CASE Shutdown \/ Restart
  BY <1>4, <1>8 DEF Shutdown, Restart, storeVars, Active
<1>9. CASE UNCHANGED vars
  BY <1>4, <1>9 DEF vars, storeVars, Active
<1>10. QED
  BY <1>2, <1>3, <1>5, <1>6, <1>7, <1>8, <1>9 DEF Next, Process

(* For every user and every number of concurrent requests, in spite of     *)
(* failing calls, disconnects, crashes and restarts: the pods of a user    *)
(* overrun the quota by at most one for each other request in flight.      *)
THEOREM QuotaOverrun == Spec => []QuotaBound
<1>1. Init => QuotaInv  BY InitQuota
<1>2. QuotaInv /\ [Next]_vars => QuotaInv'
  BY NextQuota, NextType DEF QuotaInv, QuotaBound, Bound
<1>3. QuotaInv => QuotaBound  BY DEF QuotaInv
<1>4. QED  BY <1>1, <1>2, <1>3, PTL DEF Spec

(* A user whose requests are served one at a time never exceeds the quota. *)
COROLLARY QuotaWhenSequential ==
  ASSUME Cardinality(Handlers) = 1
  PROVE  Spec => []QuotaRespected
<1>1. QuotaBound => QuotaRespected
  <2>1. SUFFICES ASSUME QuotaBound, NEW u \in Users
                 PROVE  Cardinality(Active(u)) <= Ceiling(u)
    BY DEF QuotaRespected
  <2>2. Cardinality(Active(u)) + Cardinality(Admitted(u)) < Ceiling(u) + 1
    BY <2>1 DEF QuotaBound
  <2>3. QED  BY <2>2, FiniteParts, CeilingType
<1>2. QED  BY <1>1, QuotaOverrun, PTL

-----------------------------------------------------------------------------
(* The quota rows.  A handler on its way to the insert found no row, or    *)
(* failed to read one: it counts as the row it may insert.  With its       *)
(* context cancelled it will insert none.                                  *)
Adding(u) == {h \in Handlers : req[h].pc = "addQuota" /\ req[h].user = u /\ req[h].ctx = "live"}

CustomRows(u) == IF u \in Customised THEN 1 ELSE 0

RowsFit(u) ==
  defaults[u] + CustomRows(u) + Cardinality(Adding(u)) <= Cardinality(Handlers) + faults

RowsInv == \A u \in Users : RowsFit(u)

LEMMA RowNumbers ==
  ASSUME TypeOK, NEW u \in Users
  PROVE  /\ defaults[u] \in Nat /\ CustomRows(u) \in Nat /\ faults \in Nat
         /\ IsFiniteSet(Adding(u)) /\ Cardinality(Adding(u)) \in Nat
         /\ Cardinality(Handlers) \in Nat /\ Cardinality(Adding(u)) <= Cardinality(Handlers)
<1>1. Adding(u) \subseteq Handlers
  BY DEF Adding
<1> QED BY <1>1, IdsAssumption, FaultsAssumption, FS_Subset, FS_CardinalityType
        DEF TypeOK, RuntimeTypeOK, QuotaTypeOK, CustomRows

LEMMA ShrinkKeepsRows ==
  ASSUME TypeOK, NEW u \in Users, RowsFit(u), defaults'[u] = defaults[u],
         faults' \in Nat, faults' >= faults, Adding(u)' \subseteq Adding(u)
  PROVE  RowsFit(u)'
<1>1. /\ Cardinality(Adding(u)') \in Nat
      /\ Cardinality(Adding(u)') <= Cardinality(Adding(u))
  BY RowNumbers, FS_Subset, FS_CardinalityType
<1>2. \A d, c, a, b, n, f, g \in Nat :
        d + c + a <= n + f /\ b <= a /\ g >= f => d + c + b <= n + g
  OBVIOUS
<1>3. CustomRows(u)' = CustomRows(u)
  BY DEF CustomRows
<1>4. defaults[u] + CustomRows(u) + Cardinality(Adding(u)') <= Cardinality(Handlers) + faults'
  BY <1>1, <1>2, RowNumbers DEF RowsFit
<1> QED BY <1>3, <1>4 DEF RowsFit

\* Only the first read leads to the insert.
LEMMA NoOtherAdds ==
  ASSUME ServiceTypeOK, NEW h \in Handlers, NEW o,
         \/ AddQuota(h, o) \/ RegetQuota(h, o) \/ Count(h, o)
         \/ CreateStep(h, o) \/ UndoStep(h, o) \/ DeleteStep(h, o) \/ TouchStep(h, o)
  PROVE  /\ \A g \in Handlers \ {h} : req'[g] = req[g]
         /\ req'[h].pc # "addQuota"
<1> USE DEF At
<1>1. ASSUME Finish(h) PROVE req'[h].pc # "addQuota" /\ \A g \in Handlers \ {h} : req'[g] = req[g]
  BY <1>1 DEF Finish, Idle, ServiceTypeOK
<1>2. ASSUME req[h].pc # "idle", NEW to, to # "addQuota", Goto(h, to)
      PROVE  req'[h].pc # "addQuota" /\ \A g \in Handlers \ {h} : req'[g] = req[g]
  BY <1>2, GotoKeeps
<1>3. ASSUME req[h].pc # "idle", NEW to, to # "addQuota", NEW k,
             req' = [req EXCEPT ![h].pc = to, ![h].limit = k]
      PROVE  req'[h].pc # "addQuota" /\ \A g \in Handlers \ {h} : req'[g] = req[g]
  BY <1>3, BusyRequest DEF ServiceTypeOK, Requests
<1>4. CASE AddQuota(h, o) \/ RegetQuota(h, o)
  BY <1>1, <1>2, <1>3, <1>4 DEF AddQuota, RegetQuota, Reads, Quoted
<1>5. CASE Count(h, o)
  BY <1>1, <1>3, <1>5 DEF Count, Reads
<1>6. CASE CreateStep(h, o)
  BY <1>1, <1>2, <1>6 DEF CreateStep, GetNamespace, AddNamespace, RegetNamespace, AddPV, AddPVC,
     AddPod, AddService, AddRow, LogCreated, Reads, Creates, Logs, GotoIf
<1>7. CASE UndoStep(h, o)
  BY <1>1, <1>2, <1>7 DEF UndoStep, UndoService, UndoPod, UndoPVC, UndoPV, Deletes, GotoIf
<1>8. CASE DeleteStep(h, o)
  BY <1>1, <1>2, <1>8 DEF DeleteStep, OwnDelete, GetDelete, DelService, DelPod, DelPVC, DelPV,
     MarkDeleted, LogStopped, Owned, Found, Reads, Deletes, Logs, GotoIf
<1>9. CASE TouchStep(h, o)
  BY <1>1, <1>2, <1>9 DEF TouchStep, OwnTouch, GetTouch, Touch, Owned, Found, Reads, GotoIf
<1> QED BY <1>4, <1>5, <1>6, <1>7, <1>8, <1>9

\* A read that finds no row, or that fails: there is none yet, or one more failure.
LEMMA GetQuotaKeepsRows ==
  ASSUME TypeOK, TypeOK', RowsInv, NEW h \in Handlers, NEW o, GetQuota(h, o)
  PROVE  RowsInv'
<1> SUFFICES ASSUME NEW u \in Users PROVE RowsFit(u)'
  BY DEF RowsInv
<1>1. /\ req[h] \in Requests /\ req[h].pc = "getQuota" /\ ServiceTypeOK
      /\ defaults' = defaults /\ Call(req[h].ctx, o)
  BY BusyRequest DEF TypeOK, GetQuota, Reads, At, Query
<1>2. RowsFit(u) /\ faults' >= faults /\ faults' \in Nat
  BY <1>1, CallGrows, FaultsAssumption DEF RowsInv, TypeOK, RuntimeTypeOK
<1>3. CASE Adding(u)' \subseteq Adding(u)
  BY <1>1, <1>2, <1>3, ShrinkKeepsRows
<1>4. CASE ~ (Adding(u)' \subseteq Adding(u))
  <2>1. /\ \A g \in Handlers \ {h} : req'[g] = req[g]
        /\ req'[h].pc = "addQuota" => Goto(h, "addQuota")
    <3>1. CASE Goto(h, "addQuota")
      BY <1>1, <3>1, GotoKeeps
    <3>2. CASE \E k : Quoted(h, k)
      BY <1>1, <3>2 DEF Quoted, Finish, Idle, ServiceTypeOK, Requests
    <3> QED BY <3>1, <3>2 DEF GetQuota
  <2>2. Goto(h, "addQuota") /\ h \in Adding(u)' /\ Adding(u)' \subseteq Adding(u) \cup {h}
    BY <1>4, <2>1 DEF Adding
  <2>3. req[h].user = u /\ req[h].ctx = "live"
    BY <1>1, <2>2, GotoKeeps DEF Adding, Requests
  <2>4. Cardinality(Adding(u)') \in Nat /\ Cardinality(Adding(u)') <= Cardinality(Handlers)
    <3>1. Adding(u)' \subseteq Handlers
      BY DEF Adding
    <3> QED BY <3>1, IdsAssumption, FS_Subset, FS_CardinalityType
  <2>5. Cardinality(Adding(u)') <= Cardinality(Adding(u)) + 1
    <3>1. /\ IsFiniteSet(Adding(u) \cup {h})
          /\ Cardinality(Adding(u) \cup {h}) \in {Cardinality(Adding(u)), Cardinality(Adding(u)) + 1}
      BY RowNumbers, FS_AddElement
    <3> QED BY <2>2, <2>4, <3>1, RowNumbers, FS_Subset, FS_CardinalityType
  <2>6. CustomRows(u)' = CustomRows(u)
    BY DEF CustomRows
  <2>7. CASE o = "ok"
    <3>1. QuotaRows(u) = {}
      <4>1. ASSUME QuotaRows(u) # {} PROVE FALSE
        <5>1. \E k : Quoted(h, k)
          BY <2>3, <2>7, <4>1 DEF GetQuota
        <5>2. req'[h].pc # "addQuota"
          BY <1>1, <5>1 DEF Quoted, Finish, Idle, ServiceTypeOK, Requests
        <5> QED BY <2>2, <5>2 DEF Adding
      <4> QED BY <4>1
    <3>2. defaults[u] = 0 /\ u \notin Customised
      BY <3>1, RowNumbers DEF QuotaRows, QuotaKinds
    <3> QED BY <1>1, <1>2, <2>4, <2>6, <3>2, RowNumbers DEF RowsFit, CustomRows
  <2>8. CASE o # "ok"
    <3>1. faults' = faults + 1
      BY <1>1, <2>3, <2>8 DEF Call, Fault
    <3>2. \A d, c, a, b, n, f \in Nat :
            d + c + a <= n + f /\ b <= a + 1 => d + c + b <= n + (f + 1)
      OBVIOUS
    <3>3. defaults[u] + CustomRows(u) + Cardinality(Adding(u)') <= Cardinality(Handlers) + (faults + 1)
      BY <1>2, <2>4, <2>5, <3>2, RowNumbers DEF RowsFit
    <3> QED BY <1>1, <2>6, <3>1, <3>3 DEF RowsFit
  <2> QED BY <2>7, <2>8
<1> QED BY <1>3, <1>4

\* The insert turns a handler that counted into a row.
LEMMA AddQuotaKeepsRows ==
  ASSUME TypeOK, TypeOK', RowsInv, NEW h \in Handlers, NEW o, AddQuota(h, o)
  PROVE  RowsInv'
<1> SUFFICES ASSUME NEW u \in Users PROVE RowsFit(u)'
  BY DEF RowsInv
<1>1. /\ req[h] \in Requests /\ req[h].pc = "addQuota" /\ ServiceTypeOK
      /\ InsertDefault(req[h].user, o) /\ Call(req[h].ctx, o)
  BY BusyRequest DEF TypeOK, AddQuota, At
<1>2. RowsFit(u) /\ faults' >= faults /\ faults' \in Nat
  BY <1>1, CallGrows, FaultsAssumption DEF RowsInv, TypeOK, RuntimeTypeOK
<1>3. req'[h].pc # "addQuota" /\ \A g \in Handlers \ {h} : req'[g] = req[g]
  BY <1>1, NoOtherAdds
<1>4. Adding(u)' \subseteq Adding(u) \ {h}
  BY <1>3 DEF Adding
<1>5. CASE defaults'[u] = defaults[u]
  BY <1>2, <1>4, <1>5, ShrinkKeepsRows
<1>6. CASE defaults'[u] # defaults[u]
  <2>1. req[h].user = u /\ Takes(o) /\ defaults'[u] = defaults[u] + 1
    BY <1>1, <1>6 DEF InsertDefault, TypeOK, QuotaTypeOK
  <2>2. h \in Adding(u)
    BY <1>1, <2>1 DEF Adding, Call, Takes, Requests
  <2>3. /\ IsFiniteSet(Adding(u) \ {h})
        /\ Cardinality(Adding(u) \ {h}) = Cardinality(Adding(u)) - 1
        /\ Cardinality(Adding(u) \ {h}) \in Nat
    BY <2>2, RowNumbers, FS_RemoveElement, FS_CardinalityType
  <2>4. Cardinality(Adding(u)') \in Nat
        /\ Cardinality(Adding(u)') <= Cardinality(Adding(u) \ {h})
    BY <1>4, <2>3, FS_Subset, FS_CardinalityType
  <2>5. \A d, c, a, b, n, f, g \in Nat :
          d + c + a <= n + f /\ b <= a - 1 /\ g >= f => (d + 1) + c + b <= n + g
    OBVIOUS
  <2>6. CustomRows(u)' = CustomRows(u)
    BY DEF CustomRows
  <2>7. (defaults[u] + 1) + CustomRows(u) + Cardinality(Adding(u)') <= Cardinality(Handlers) + faults'
    BY <1>2, <2>3, <2>4, <2>5, RowNumbers DEF RowsFit
  <2> QED BY <2>1, <2>6, <2>7 DEF RowsFit
<1> QED BY <1>5, <1>6

LEMMA NextRows ==
  ASSUME TypeOK, TypeOK', RowsInv, [Next]_vars
  PROVE  RowsInv'
<1>1. /\ faults' >= faults /\ faults' \in Nat /\ ServiceTypeOK
      /\ \A u \in Users : RowsFit(u)
  BY FaultsGrow, FaultsAssumption DEF TypeOK, RuntimeTypeOK, RowsInv
<1>2. ASSUME UNCHANGED defaults, \A u \in Users : Adding(u)' \subseteq Adding(u)
      PROVE  RowsInv'
  BY <1>1, <1>2, ShrinkKeepsRows DEF RowsInv
<1>3. ASSUME UNCHANGED defaults, NEW h \in Handlers, \A g \in Handlers \ {h} : req'[g] = req[g],
             req'[h].pc # "addQuota"
      PROVE  RowsInv'
  BY <1>2, <1>3 DEF Adding
<1>4. ASSUME NEW h \in Handlers, Service(h) PROVE RowsInv'
  <2>1. PICK o \in Outcomes : \/ QuotaStep(h, o) \/ CreateStep(h, o) \/ UndoStep(h, o)
                              \/ DeleteStep(h, o) \/ TouchStep(h, o)
    BY <1>4 DEF Service, HandlerStep
  <2>2. CASE GetQuota(h, o)
    BY <2>2, GetQuotaKeepsRows
  <2>3. CASE AddQuota(h, o)
    BY <2>3, AddQuotaKeepsRows
  <2>4. CASE \/ RegetQuota(h, o) \/ Count(h, o)
             \/ CreateStep(h, o) \/ UndoStep(h, o) \/ DeleteStep(h, o) \/ TouchStep(h, o)
    <3>1. UNCHANGED defaults
      BY <2>4 DEF RegetQuota, Count, CreateStep, GetNamespace, AddNamespace, RegetNamespace, AddPV,
         AddPVC, AddPod, AddService, AddRow, LogCreated, UndoStep, UndoService, UndoPod, UndoPVC,
         UndoPV, DeleteStep, OwnDelete, GetDelete, DelService, DelPod, DelPVC, DelPV, MarkDeleted,
         LogStopped, TouchStep, OwnTouch, GetTouch, Touch, Owned, Found, Reads, Creates, Deletes,
         Logs
    <3> QED BY <1>1, <1>3, <2>4, <3>1, NoOtherAdds
  <2> QED BY <2>1, <2>2, <2>3, <2>4 DEF QuotaStep
<1>5. ASSUME NEW h \in Handlers, Client(h) PROVE RowsInv'
  <2>1. UNCHANGED defaults
    BY <1>5 DEF Client, ClientStep, StartProvision, StartDelete, StartTouch, Arrive, Disconnect
  <2>2. CASE StartProvision(h) \/ StartDelete(h) \/ StartTouch(h)
    <3>1. req'[h].pc # "addQuota" /\ \A g \in Handlers \ {h} : req'[g] = req[g]
      BY <1>1, <2>2 DEF StartProvision, StartDelete, StartTouch, Arrive, ServiceTypeOK
    <3> QED BY <1>3, <2>1, <3>1
  <2>3. CASE Disconnect(h)
    <3>1. req[h] \in Requests
      BY <1>1, <2>3, BusyRequest DEF Disconnect, At
    <3>2. req'[h].ctx = "cancelled" /\ \A g \in Handlers \ {h} : req'[g] = req[g]
      BY <1>1, <2>3, <3>1 DEF Disconnect, ServiceTypeOK, Requests
    <3> QED BY <1>2, <2>1, <3>2 DEF Adding
  <2> QED BY <1>5, <2>2, <2>3 DEF Client, ClientStep
<1>6. CASE UNCHANGED <<defaults, req>>
  BY <1>2, <1>6 DEF Adding
<1>7. CASE Sweep \/ (\E p \in PulseIDs : Time(p)) \/ Shutdown \/ Restart \/ UNCHANGED vars
  BY <1>6, <1>7 DEF Sweep, Time, Shutdown, Restart, vars
<1>8. CASE Crash \/ Die \/ Exit
  <2>1. UNCHANGED defaults /\ req' = [h \in Handlers |-> Idle]
    BY <1>8 DEF Crash, Die, Exit, Ends
  <2> QED BY <1>2, <2>1 DEF Adding, Idle
<1> QED BY <1>4, <1>5, <1>7, <1>8 DEF Next, Process

LEMMA InitRows == Init => RowsInv
<1> SUFFICES ASSUME Init, NEW u \in Users PROVE RowsFit(u)
  BY DEF RowsInv
<1>1. Adding(u) = {} /\ defaults[u] = 0 /\ faults = 0
  BY DEF Init, ServiceInit, QuotaInit, RuntimeInit, Adding, Idle
<1>2. Cardinality(Handlers) \in Nat /\ Cardinality(Handlers) # 0
  BY IdsAssumption, FS_CardinalityType, FS_EmptySet
<1> QED BY <1>1, <1>2, FS_EmptySet DEF RowsFit, CustomRows

(* A user never has more quota rows than the server has handlers, but for  *)
(* one more for each failure.                                              *)
THEOREM FewQuotaRows == Spec => []QuotaRowBound
<1>1. Init => TypeOK /\ RowsInv
  BY InitType, InitRows
<1>2. TypeOK /\ RowsInv /\ [Next]_vars => (TypeOK /\ RowsInv)'
  BY NextType, NextRows
<1>3. TypeOK /\ RowsInv => QuotaRowBound
  <2> SUFFICES ASSUME TypeOK, RowsInv, NEW u \in Users
               PROVE  defaults[u] + CustomRows(u) <= Cardinality(Handlers) + faults
    BY DEF QuotaRowBound, CustomRows
  <2>1. \A d, c, a, n, f \in Nat : d + c + a <= n + f => d + c <= n + f
    OBVIOUS
  <2> QED BY <2>1, RowNumbers DEF RowsInv, RowsFit
<1> QED BY <1>1, <1>2, <1>3, PTL DEF Spec

-----------------------------------------------------------------------------
(* The bills. *)

Marking(p) == sweep.pc = "mark" /\ sweep.cur = p

\* The failures and stops that billing p may have cost.
Losses == faults + stops

BilledFits(p) ==
  /\ Absent(p) => billed[p] = 0
  /\ Marking(p) \/ pods[p].status = "expired" => billed[p] > 0
  /\ p \in sweep.queue => ~ Marking(p) /\ pods[p].status # "expired"
  /\ billed[p] <= 1 + Losses
  /\ p \in sweep.queue => billed[p] <= Losses
  /\ p \in sweep.queue /\ phase = "draining" => billed[p] + 1 <= Losses
  /\ Live(p) /\ ~ (Marking(p) /\ phase = "up") => billed[p] <= Losses

BillInv == \A p \in PulseIDs : BilledFits(p)

LEMMA LossesType == TypeOK => Losses \in Nat /\ \A p \in PulseIDs : billed[p] \in Nat
BY FaultsAssumption, StopsAssumption DEF TypeOK, RuntimeTypeOK, SweepTypeOK, Losses

LEMMA LossesGrow ==
  ASSUME TypeOK, TypeOK', faults' >= faults, stops' >= stops
  PROVE  Losses \in Nat /\ Losses' \in Nat /\ Losses' >= Losses
<1>1. faults \in Nat /\ stops \in Nat /\ faults' \in Nat /\ stops' \in Nat
  BY FaultsAssumption, StopsAssumption DEF TypeOK, RuntimeTypeOK
<1>2. \A a, b, c, d \in Nat : c >= a /\ d >= b => a + b \in Nat /\ c + d \in Nat /\ c + d >= a + b
  OBVIOUS
<1>3. Losses = faults + stops /\ Losses' = faults' + stops'
  BY DEF Losses
<1> QED BY <1>1, <1>2, <1>3

\* What a step may do to the rows, marking apart.
RowsStay ==
  \A p \in PulseIDs : /\ Absent(p)' => Absent(p)
                      /\ pods'[p].status = "expired" => pods[p].status = "expired"
                      /\ Live(p)' => Live(p) \/ Absent(p)

\* A step that neither bills nor marks.
LEMMA OtherBillInv ==
  ASSUME TypeOK, TypeOK', BillInv, faults' >= faults, stops' >= stops,
         UNCHANGED <<phase, billed>>, RowsStay, sweep'.queue \subseteq sweep.queue,
         \A p \in PulseIDs : Marking(p)' <=> Marking(p)
  PROVE  BillInv'
<1> SUFFICES ASSUME NEW p \in PulseIDs PROVE BilledFits(p)'
  BY DEF BillInv
<1>1. Losses \in Nat /\ Losses' \in Nat /\ Losses' >= Losses /\ billed[p] \in Nat
  BY LossesGrow, LossesType
<1>2. BilledFits(p)
  BY DEF BillInv
<1>3. /\ Absent(p)' => Absent(p)
      /\ pods'[p].status = "expired" => pods[p].status = "expired"
      /\ Live(p)' => Live(p) \/ Absent(p)
  BY DEF RowsStay
<1>4. p \in sweep'.queue => p \in sweep.queue
  OBVIOUS
<1> QED BY <1>1, <1>2, <1>3, <1>4 DEF BilledFits

-----------------------------------------------------------------------------
(* The rows. *)

LEMMA SameRowsStay == UNCHANGED pods => RowsStay
BY DEF RowsStay, Absent, Live

LEMMA UpdatesStay ==
  ASSUME StoreTypeOK, NEW p \in PulseIDs, NEW o,
         UpdateActivity(p, o) \/ SoftDelete(p, o) \/ Lapse(p)
  PROVE  RowsStay
<1> SUFFICES ASSUME NEW q \in PulseIDs
             PROVE  pods'[q].status = pods[q].status /\ (pods[q].deleted => pods'[q].deleted)
  BY DEF RowsStay, Absent, Live
<1>1. CASE UpdateActivity(p, o)
  BY <1>1 DEF UpdateActivity, StoreTypeOK, Rows
<1>2. CASE SoftDelete(p, o)
  BY <1>2 DEF SoftDelete, StoreTypeOK, Rows
<1>3. CASE Lapse(p)
  BY <1>3 DEF Lapse, StoreTypeOK, Rows
<1> QED BY <1>1, <1>2, <1>3

LEMMA InsertStays ==
  ASSUME StoreTypeOK, NEW p \in PulseIDs, NEW u, NEW o, InsertRow(p, u, o), Absent(p)
  PROVE  RowsStay
<1>1. CASE UNCHANGED pods
  BY <1>1, SameRowsStay
<1>2. CASE pods' # pods
  <2>1. /\ pods'[p].status = "pending"
        /\ \A q \in PulseIDs \ {p} : pods'[q] = pods[q]
    BY <1>2 DEF InsertRow, StoreTypeOK
  <2> QED BY <2>1 DEF RowsStay, Absent, Live
<1> QED BY <1>1, <1>2

LEMMA HandlerRowsStay ==
  ASSUME StoreTypeOK, ServiceTypeOK, IdInv, NEW h \in Handlers, HandlerStep(h)
  PROVE  RowsStay
<1>1. PICK o \in Outcomes : \/ QuotaStep(h, o) \/ CreateStep(h, o) \/ UndoStep(h, o)
                            \/ DeleteStep(h, o) \/ TouchStep(h, o)
  BY DEF HandlerStep
<1>2. CASE AddRow(h, o)
  <2>1. req[h].id \in PulseIDs /\ req[h].pc \in BeforeRow
    BY <1>2, BusyRequest DEF AddRow, At, Requests, BeforeRow, CreateSteps
  <2> QED BY <1>2, <2>1, InsertStays DEF AddRow, IdInv, RowLater
<1>3. CASE MarkDeleted(h, o) \/ Touch(h, o)
  <2>1. req[h].id \in PulseIDs
    BY <1>3, BusyRequest DEF MarkDeleted, Touch, At, Requests
  <2> QED BY <1>3, <2>1, UpdatesStay DEF MarkDeleted, Touch
<1>4. CASE QuotaStep(h, o)
  BY <1>4, SameRowsStay DEF QuotaStep, GetQuota, AddQuota, RegetQuota, Count, Reads, storeVars
<1>5. CASE CreateStep(h, o) /\ ~ AddRow(h, o)
  BY <1>5, SameRowsStay DEF CreateStep, GetNamespace, AddNamespace, RegetNamespace, AddPV,
     AddPVC, AddPod, AddService, LogCreated, Reads, Creates, Logs, LogActivity, storeVars
<1>6. CASE UndoStep(h, o)
  BY <1>6, SameRowsStay DEF UndoStep, UndoService, UndoPod, UndoPVC, UndoPV, Deletes, storeVars
<1>7. CASE DeleteStep(h, o) /\ ~ MarkDeleted(h, o)
  BY <1>7, SameRowsStay DEF DeleteStep, OwnDelete, GetDelete, DelService, DelPod, DelPVC,
     DelPV, LogStopped, Owned, Found, Reads, Deletes, Logs, LogActivity, storeVars
<1>8. CASE TouchStep(h, o) /\ ~ Touch(h, o)
  BY <1>8, SameRowsStay DEF TouchStep, OwnTouch, GetTouch, Owned, Found, Reads, storeVars
<1> QED BY <1>1, <1>2, <1>3, <1>4, <1>5, <1>6, <1>7, <1>8

-----------------------------------------------------------------------------
(* The sweep. *)

\* The steps of the sweep that neither pick a pod nor mark one.
LEMMA QuietSweepBillInv ==
  ASSUME TypeOK, TypeOK', BillInv, SweepStep, UNCHANGED stops,
         \A o \in Outcomes : ~ Tick(o) /\ ~ Mark(o), \A p \in PulseIDs : ~ Bill(p)
  PROVE  BillInv'
<1>1. faults \in Nat /\ stops \in Nat /\ StoreTypeOK /\ SweepTypeOK
  BY FaultsAssumption, StopsAssumption DEF TypeOK, RuntimeTypeOK
<1>2. CASE EndSweep \/ Stop
  <2>1. /\ UNCHANGED <<faults, phase, billed, pods>>
        /\ sweep.pc \in {"next", "waiting"} /\ sweep'.pc # "mark" /\ sweep'.queue = {}
    BY <1>2 DEF EndSweep, Stop, Waiting, Stopped, SweepAt, runtimeVars, storeVars
  <2>2. \A p \in PulseIDs : Marking(p)' <=> Marking(p)
    BY <2>1 DEF Marking
  <2> QED BY <1>1, <2>1, <2>2, SameRowsStay, OtherBillInv
<1>3. ASSUME NEW o \in Outcomes, CleanupStep(o) PROVE BillInv'
  <2>1. /\ Call(SweepCtx, o) /\ UNCHANGED <<phase, billed, pods>>
        /\ sweep.pc # "mark" /\ sweep'.pc # "mark" /\ sweep'.queue = sweep.queue
    BY <1>1, <1>3 DEF CleanupStep, SweepDelService, SweepDelPod, SweepDelPVC, SweepDelPV,
       SweepLog, LogActivity, SweepDeletes, SweepCall, SweepAt, SweepTo, NextPod, SweepTypeOK,
       storeVars
  <2>2. \A p \in PulseIDs : Marking(p)' <=> Marking(p)
    BY <2>1 DEF Marking
  <2>3. faults' >= faults /\ stops' >= stops
    BY <1>1, <2>1, CallGrows
  <2> QED BY <2>1, <2>2, <2>3, SameRowsStay, OtherBillInv
<1> QED BY <1>2, <1>3 DEF SweepStep

\* The snapshot holds live pods only, and none is taken while draining.
LEMMA TickBillInv ==
  ASSUME TypeOK, TypeOK', BillInv, NEW o, Tick(o), UNCHANGED stops, phase # "down"
  PROVE  BillInv'
<1>1. /\ faults' >= faults /\ UNCHANGED <<phase, billed, pods>>
      /\ sweep.pc = "waiting" /\ sweep'.pc # "mark"
  BY CallGrows DEF Tick, Query, SweepAt, Waiting, storeVars
<1>2. Losses \in Nat /\ Losses' \in Nat /\ Losses' >= Losses
  BY <1>1, LossesGrow, StopsAssumption DEF TypeOK
<1>3. ASSUME NEW p \in PulseIDs PROVE BilledFits(p)'
  <2>1. BilledFits(p) /\ billed[p] \in Nat
    BY LossesType DEF BillInv
  <2>2. ~ Marking(p) /\ ~ Marking(p)'
    BY <1>1 DEF Marking
  <2>3. (Absent(p)' <=> Absent(p)) /\ (Live(p)' <=> Live(p)) /\ pods'[p] = pods[p]
    BY <1>1 DEF Absent, Live
  <2>4. p \in sweep'.queue => p \in sweep.queue \/ (Live(p) /\ phase = "up")
    <3>1. CASE UNCHANGED sweep
      BY <3>1
    <3>2. CASE o = "ok" /\ sweep'.queue = ExpiredPods
      <4>1. phase = "up"
        BY <3>2 DEF Tick, Query, Call, SweepCtx
      <4>2. p \in ExpiredPods => Live(p)
        BY DEF ExpiredPods, Visible, Live, TypeOK, StoreTypeOK, Rows, Statuses
      <4> QED BY <3>2, <4>1, <4>2
    <3> QED BY <3>1, <3>2 DEF Tick, Waiting
  <2>5. Live(p) => pods[p].status # "expired"
    BY DEF Live
  <2> QED BY <1>1, <1>2, <2>1, <2>2, <2>3, <2>4, <2>5 DEF BilledFits
<1> QED BY <1>3 DEF BillInv

LEMMA BillBillInv ==
  ASSUME TypeOK, BillInv, NEW p \in PulseIDs, Bill(p), ~ Absent(p), UNCHANGED stops,
         phase # "down"
  PROVE  BillInv'
<1>1. /\ UNCHANGED <<phase, faults, pods>> /\ sweep.pc = "next"
      /\ sweep'.pc = "mark" /\ sweep'.cur = p /\ sweep'.queue = sweep.queue \ {p}
      /\ p \in sweep.queue
  BY DEF Bill, SweepAt, runtimeVars, storeVars
<1>2. Losses \in Nat /\ Losses' = Losses /\ phase \in {"up", "draining"}
  BY <1>1, LossesType DEF Losses, TypeOK, RuntimeTypeOK, Phases
<1>3. \A q \in PulseIDs : billed[q] \in Nat /\ billed'[q] = billed[q] + (IF q = p THEN 1 ELSE 0)
  BY LossesType DEF Bill, TypeOK, SweepTypeOK
<1>4. \A q \in PulseIDs : ~ Marking(q) /\ (Marking(q)' <=> q = p)
  BY <1>1 DEF Marking
<1>5. \A q \in PulseIDs :
        (Absent(q)' <=> Absent(q)) /\ (Live(q)' <=> Live(q)) /\ pods'[q] = pods[q]
  BY <1>1 DEF Absent, Live
<1>6. BilledFits(p)'
  <2>1. BilledFits(p) /\ billed'[p] = billed[p] + 1 /\ billed[p] \in Nat
    BY <1>3 DEF BillInv
  <2> QED BY <1>1, <1>2, <1>4, <1>5, <2>1 DEF BilledFits
<1>7. ASSUME NEW q \in PulseIDs \ {p} PROVE BilledFits(q)'
  <2>1. BilledFits(q) /\ billed'[q] = billed[q] /\ billed[q] \in Nat
    BY <1>3 DEF BillInv
  <2> QED BY <1>1, <1>2, <1>4, <1>5, <2>1 DEF BilledFits
<1> QED BY <1>6, <1>7 DEF BillInv

\* A mark that fails costs a failure, or the stop that made the process drain.
LEMMA MarkBillInv ==
  ASSUME TypeOK, TypeOK', BillInv, NEW o \in Outcomes, Mark(o), UNCHANGED stops,
         ~ Absent(sweep.cur), phase # "down"
  PROVE  BillInv'
<1>0. PICK p \in PulseIDs : sweep.cur = p
  BY DEF Mark, SweepCall, SweepAt, TypeOK, SweepTypeOK
<1>1. /\ sweep.pc = "mark" /\ UNCHANGED <<phase, billed>>
      /\ sweep'.pc \in {"delService", "next"} /\ sweep'.queue = sweep.queue
      /\ Call(SweepCtx, o) /\ faults' >= faults
  BY CallGrows DEF Mark, SweepCall, SweepAt, SweepTo, NextPod, TypeOK, SweepTypeOK
<1>2. Losses \in Nat /\ Losses' \in Nat /\ Losses' >= Losses
  BY <1>1, LossesGrow, StopsAssumption DEF TypeOK
<1>3. \A q \in PulseIDs : ~ Marking(q)'
  BY <1>1 DEF Marking
<1>4. /\ \A q \in PulseIDs \ {p} : pods'[q] = pods[q]
      /\ pods'[p].deleted = pods[p].deleted
      /\ pods'[p].status \in {pods[p].status, "expired"}
      /\ o = "ok" /\ Visible(p) => pods'[p].status = "expired"
  BY <1>0 DEF Mark, UpdateStatus, TypeOK, StoreTypeOK, Rows, Takes
<1>5. ASSUME NEW q \in PulseIDs \ {p} PROVE BilledFits(q)'
  <2>1. BilledFits(q) /\ billed[q] \in Nat /\ ~ Marking(q)
    BY <1>0, LossesType DEF BillInv, Marking
  <2>2. (Absent(q)' <=> Absent(q)) /\ (Live(q)' <=> Live(q)) /\ pods'[q] = pods[q]
    BY <1>4 DEF Absent, Live
  <2> QED BY <1>1, <1>2, <1>3, <2>1, <2>2 DEF BilledFits
<1>6. BilledFits(p)'
  <2>1. BilledFits(p) /\ billed[p] \in Nat /\ Marking(p) /\ Losses \in Nat
    BY <1>0, <1>1, LossesType DEF BillInv, Marking
  <2>2. ~ Absent(p)' /\ p \notin sweep'.queue /\ billed[p] > 0 /\ billed[p] <= 1 + Losses
    BY <1>0, <1>1, <1>4, <2>1 DEF BilledFits, Absent
  <2>3. Live(p)' => billed[p] <= Losses'
    <3> SUFFICES ASSUME Live(p)' PROVE billed[p] <= Losses'
      OBVIOUS
    <3>1. Live(p) /\ o # "ok"
      BY <1>4 DEF Live, Visible
    <3>2. CASE phase = "draining"
      BY <1>2, <2>1, <3>1, <3>2 DEF BilledFits
    <3>3. CASE phase = "up"
      <4>1. faults' = faults + 1 /\ faults \in Nat /\ stops \in Nat
        BY <1>1, <3>1, <3>3, FaultsAssumption, StopsAssumption
           DEF Call, Fault, SweepCtx, TypeOK, RuntimeTypeOK
      <4>2. Losses = faults + stops /\ Losses' = faults' + stops
        BY DEF Losses
      <4> QED BY <2>1, <2>2, <4>1, <4>2
    <3> QED BY <3>2, <3>3 DEF TypeOK, RuntimeTypeOK, Phases
  <2> QED BY <1>1, <1>2, <1>3, <2>1, <2>2, <2>3 DEF BilledFits
<1> QED BY <1>5, <1>6 DEF BillInv

LEMMA SweepBillInv ==
  ASSUME WholeInv, TypeOK', BillInv, SweepStep, UNCHANGED stops
  PROVE  BillInv'
<1>1. TypeOK /\ \A p \in PulseIDs : p \in sweep.queue \cup {sweep.cur} => ~ Absent(p)
  BY DEF WholeInv, ObjInv, PulseInv
<1>2. phase # "down"
  BY DEF WholeInv, NoSweep, SweepStep, Tick, Bill, EndSweep, Stop, CleanupStep, Mark,
     SweepDelService, SweepDelPod, SweepDelPVC, SweepDelPV, SweepDeletes, SweepLog, SweepCall,
     SweepAt
<1>3. ASSUME NEW o \in Outcomes, Tick(o) PROVE BillInv'
  BY <1>1, <1>2, <1>3, TickBillInv
<1>4. ASSUME NEW p \in PulseIDs, Bill(p) PROVE BillInv'
  BY <1>1, <1>2, <1>4, BillBillInv DEF Bill
<1>5. ASSUME NEW o \in Outcomes, Mark(o) PROVE BillInv'
  <2>1. sweep.cur \in PulseIDs
    BY <1>1, <1>5 DEF Mark, SweepCall, SweepAt, TypeOK, SweepTypeOK
  <2> QED BY <1>1, <1>2, <1>5, <2>1, MarkBillInv
<1> QED BY <1>1, <1>3, <1>4, <1>5, QuietSweepBillInv

-----------------------------------------------------------------------------
(* The process. *)

\* A stop of the process, or its end, by which a mark in flight is lost.
LEMMA ProcessBillInv ==
  ASSUME TypeOK, TypeOK', NoSweep, BillInv, Process
  PROVE  BillInv'
<1> SUFFICES ASSUME NEW p \in PulseIDs PROVE BilledFits(p)'
  BY DEF BillInv
<1>1. faults \in Nat /\ stops \in Nat
  BY FaultsAssumption, StopsAssumption DEF TypeOK, RuntimeTypeOK
<1>2. /\ UNCHANGED <<faults, billed, pods>>
      /\ stops' \in {stops, stops + 1}
      /\ Crash \/ Shutdown => stops' = stops + 1
  BY DEF Process, Crash, Die, Shutdown, Exit, Restart, Ends, Outside, sweepVars, storeVars
<1>3. /\ Losses \in Nat /\ Losses' \in {Losses, Losses + 1}
      /\ Crash \/ Shutdown => Losses' = Losses + 1
  <2>1. Losses = faults + stops /\ Losses' = faults + stops'
    BY <1>2 DEF Losses
  <2>2. \A a, b \in Nat : a + b \in Nat /\ a + (b + 1) = (a + b) + 1
    OBVIOUS
  <2> QED BY <1>1, <1>2, <2>1, <2>2
<1>4. BilledFits(p) /\ billed[p] \in Nat /\ billed'[p] = billed[p]
  BY <1>2, LossesType DEF BillInv
<1>5. (Absent(p)' <=> Absent(p)) /\ (Live(p)' <=> Live(p)) /\ pods'[p] = pods[p]
  BY <1>2 DEF Absent, Live
<1>6. CASE Shutdown
  <2>1. phase = "up" /\ phase' = "draining" /\ sweep' = sweep
    BY <1>6 DEF Shutdown, sweepVars
  <2>2. Marking(p)' <=> Marking(p)
    BY <2>1 DEF Marking
  <2> QED BY <1>3, <1>4, <1>5, <1>6, <2>1, <2>2 DEF BilledFits
<1>7. CASE ~ Shutdown
  <2>1. p \notin sweep'.queue /\ ~ Marking(p)'
    BY <1>7 DEF Process, Crash, Die, Exit, Restart, Ends, Waiting, Stopped, Marking
  <2>2. Crash \/ ~ (Marking(p) /\ phase = "up")
    BY <1>7 DEF Process, Die, Exit, Restart, SweepAt, Marking
  <2> QED BY <1>3, <1>4, <1>5, <2>1, <2>2 DEF BilledFits
<1> QED BY <1>6, <1>7

LEMMA NextBillInv ==
  ASSUME WholeInv, TypeOK', BillInv, [Next]_vars
  PROVE  BillInv'
<1>1. /\ TypeOK /\ IdInv /\ NoSweep /\ StoreTypeOK /\ ServiceTypeOK
      /\ faults \in Nat /\ stops \in Nat
  BY FaultsAssumption, StopsAssumption DEF WholeInv, TypeOK, RuntimeTypeOK
<1>2. UNCHANGED sweep => \A p \in PulseIDs : Marking(p)' <=> Marking(p)
  BY DEF Marking
<1>3. ASSUME NEW h \in Handlers, Service(h) PROVE BillInv'
  BY <1>1, <1>2, <1>3, HandlerRowsStay, HandlerGrows, OtherBillInv DEF Service, sweepVars
<1>4. ASSUME NEW h \in Handlers, Client(h) PROVE BillInv'
  <2>1. faults' >= faults /\ UNCHANGED <<phase, pods, sweep, billed, stops>>
    BY <1>1, <1>4 DEF Client, ClientStep, StartProvision, StartDelete, StartTouch, Arrive,
       Disconnect, Fault, runtimeVars, storeVars, sweepVars
  <2> QED BY <1>1, <1>2, <2>1, SameRowsStay, OtherBillInv
<1>5. CASE Sweep
  BY <1>5, SweepBillInv DEF Sweep
<1>6. ASSUME NEW p \in PulseIDs, Time(p) PROVE BillInv'
  BY <1>1, <1>2, <1>6, UpdatesStay, OtherBillInv DEF Time, runtimeVars, sweepVars
<1>7. CASE Process
  BY <1>1, <1>7, ProcessBillInv
<1>8. CASE UNCHANGED vars
  BY <1>1, <1>2, <1>8, SameRowsStay, OtherBillInv DEF vars, runtimeVars, storeVars, sweepVars
<1> QED BY <1>3, <1>4, <1>5, <1>6, <1>7, <1>8 DEF Next

LEMMA InitBillInv == Init => BillInv
<1> SUFFICES ASSUME Init, NEW p \in PulseIDs PROVE BilledFits(p)
  BY DEF BillInv
<1>1. Absent(p) /\ ~ Live(p) /\ pods[p].status # "expired"
  BY DEF Init, StoreInit, NoRow, Absent, Live
<1>2. billed[p] = 0 /\ p \notin sweep.queue /\ ~ Marking(p) /\ Losses = 0
  BY DEF Init, SweepInit, Waiting, RuntimeInit, Marking, Losses
<1> QED BY <1>1, <1>2 DEF BilledFits

(* The cost of a pod is added to the metrics once, and again only after a  *)
(* failed call or a stop of the process; an expired pod has been billed.   *)
THEOREM BilledOnce == Spec => []BilledOncePerFailure
<1>1. Init => WholeInv /\ BillInv
  BY InitType, InitIdInv, InitObjInv, InitBillInv DEF WholeInv
<1>2. WholeInv /\ BillInv /\ [Next]_vars => (WholeInv /\ BillInv)'
  BY NextType, NextIdInv, NoSweepInv, NextObjInv, NextBillInv DEF WholeInv
<1>3. WholeInv /\ BillInv => BilledOncePerFailure
  <2> SUFFICES ASSUME WholeInv, BillInv, NEW p \in PulseIDs
               PROVE  /\ billed[p] <= 1 + faults + stops
                      /\ pods[p].status = "expired" => billed[p] > 0
    BY DEF BilledOncePerFailure
  <2>1. faults \in Nat /\ stops \in Nat /\ billed[p] \in Nat /\ BilledFits(p)
    BY FaultsAssumption, StopsAssumption, LossesType
       DEF WholeInv, TypeOK, RuntimeTypeOK, BillInv
  <2> QED BY <2>1 DEF BilledFits, Losses
<1> QED BY <1>1, <1>2, <1>3, PTL DEF Spec
=============================================================================
