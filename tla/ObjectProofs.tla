---------------------------- MODULE ObjectProofs ----------------------------
(***************************************************************************)
(* The Kubernetes objects of a pulse against its row: a pod that is listed *)
(* has its objects, none is left to nobody, and the activity log tells of  *)
(* every pod.  The invariant says of every step of a provision, a deletion *)
(* and the sweep which objects may be there before it.  It speaks of the   *)
(* objects that the code has not abandoned: a failed call takes the ones   *)
(* it costs out of its scope, and no other.                                *)
(***************************************************************************)
EXTENDS PulseServerProofs

\* The steps of the sweep once the row is marked.
TearDown == {"delService", "delPod", "delPVC", "delPV", "panic", "log"}

\* The objects of p that somebody has to account for.
Loose(p) == {k \in Holds(p) : <<k, p>> \notin mishap}

HandlerFits(h, p) ==
  /\ req[h].pc \in BeforeRow => Holds(p) = InHand(req[h].pc)
  /\ req[h].pc \in UndoSteps => Absent(p) \/ <<"row", p>> \in mishap
  /\ req[h].pc \in UndoSteps \cup DeleteSteps => Loose(p) \subseteq InHand(req[h].pc)

SweepFits(p) == sweep.pc \in TearDown => ~ Live(p) /\ Loose(p) \subseteq InHand(sweep.pc)

HasObjects(p) ==
  Live(p) /\ p \notin BeingDeleted /\ <<"row", p>> \notin mishap => Holds(p) = Kinds
Kept(p) == \A k \in Loose(p) : Live(p) \/ Attended(k, p)
Logged(p) == <<"log", p>> \notin mishap =>
  /\ ~ Absent(p) => <<"created", p>> \in activities \/ Logging("logCreated", p)
  /\ pods[p].deleted => <<"stopped", p>> \in activities \/ Logging("logStopped", p)

PulseInv(p) ==
  /\ p \in sweep.queue \cup {sweep.cur} \/ pods[p].deleted => ~ Absent(p)
  /\ \A h \in Handlers : req[h].id = p => HandlerFits(h, p)
  /\ sweep.cur = p => SweepFits(p)
  /\ HasObjects(p) /\ Kept(p) /\ Logged(p)

ObjInv == \A p \in PulseIDs : PulseInv(p)

-----------------------------------------------------------------------------
\* A step that leaves pulse p alone.
Untouched(p) ==
  /\ pods'[p].status = pods[p].status /\ pods'[p].deleted = pods[p].deleted
  /\ Holds(p)' = Holds(p)
  /\ \A t \in ActivityTypes : <<t, p>> \in activities' <=> <<t, p>> \in activities
  /\ \A w \in Harms : <<w, p>> \in mishap' <=> <<w, p>> \in mishap

\* A step of h that touches p alone.
Touches(h, p) ==
  /\ sweep' = sweep
  /\ \A g \in Handlers \ {h} : req'[g] = req[g]
  /\ req'[h] = Idle \/ req'[h].id = p
  /\ \A q \in PulseIDs \ {p} : Untouched(q)

\* A step before which nothing of the pulse is there, or at which only the row
\* is looked at or its time moved on.
Plain == QuotaSteps \cup NamespaceSteps \cup {"addPV"} \cup LookupSteps \cup {"idle"}

\* The steps of the sweep between two pods.
Between == {"waiting", "next", "mark", "stopped"}

LEMMA EmptyHands ==
  \A pc \in Plain \cup LogSteps \cup Between \cup {"softDelete", "panic", "log"} : InHand(pc) = {}
BY DEF InHand, Plain, QuotaSteps, NamespaceSteps, LookupSteps, LogSteps, Between

LEMMA FullHands ==
  /\ \A pc \in {"addRow", "undoService", "delService"} : InHand(pc) = Kinds
  /\ \A pc \in {"addService", "undoPod", "delPod"} : InHand(pc) = {"pv", "pvc", "pod"}
  /\ \A pc \in {"addPod", "undoPVC", "delPVC"} : InHand(pc) = {"pv", "pvc"}
  /\ \A pc \in {"addPVC", "undoPV", "delPV"} : InHand(pc) = {"pv"}
BY DEF InHand

LEMMA HoldsKinds == \A p : Holds(p) \subseteq Kinds /\ Loose(p) \subseteq Holds(p)
BY DEF Holds, Loose

LEMMA IdleFits ==
  /\ Idle.pc = "idle" /\ Idle.id = None
  /\ "idle" \notin BeforeRow \cup UndoSteps \cup DeleteSteps \cup LogSteps
BY DEF Idle, BeforeRow, QuotaSteps, NamespaceSteps, CreateSteps, UndoSteps, DeleteSteps,
       LogSteps

LEMMA CreateHolds ==
  ASSUME NEW k \in Kinds, NEW p, NEW o, CreateObject(k, p, o)
  PROVE  /\ Holds(p)' = IF Takes(o) THEN Holds(p) \cup {k} ELSE Holds(p)
         /\ \A q : q # p => Holds(q)' = Holds(q)
<1>1. CASE Takes(o)
  <2>1. objects' = objects \cup {<<k, p>>}
    BY <1>1 DEF CreateObject
  <2> QED BY <1>1, <2>1 DEF Holds
<1>2. CASE ~ Takes(o)
  BY <1>2 DEF CreateObject, Holds
<1> QED BY <1>1, <1>2

LEMMA DeleteHolds ==
  ASSUME NEW k \in Kinds, NEW p, NEW o, DeleteObject(k, p, o)
  PROVE  /\ Holds(p)' = IF Takes(o) THEN Holds(p) \ {k} ELSE Holds(p)
         /\ \A q : q # p => Holds(q)' = Holds(q)
<1>1. CASE Takes(o)
  <2>1. objects' = objects \ {<<k, p>>}
    BY <1>1 DEF DeleteObject
  <2> QED BY <1>1, <2>1 DEF Holds
<1>2. CASE ~ Takes(o)
  BY <1>2 DEF DeleteObject, Holds
<1> QED BY <1>1, <1>2

\* What a step leaves to nobody is added to what was left before.
LEMMA LeavesMore ==
  ASSUME NEW ws, NEW p, Leaves(ws, p)
  PROVE  /\ mishap \subseteq mishap'
         /\ \A w \in ws : <<w, p>> \in mishap'
         /\ \A w : w \notin ws => (<<w, p>> \in mishap' <=> <<w, p>> \in mishap)
         /\ \A q : q # p => \A w : <<w, q>> \in mishap' <=> <<w, q>> \in mishap
BY DEF Leaves

\* After a delete call, whatever its outcome, nobody has to account for its object
\* any more; nor for the volume, when the call was a failed one for the claim.
LEMMA DeleteLoose ==
  ASSUME NEW k \in Kinds, NEW p, NEW o \in Outcomes,
         DeleteObject(k, p, o), Leaves(LeftBy(k, o), p)
  PROVE  /\ Holds(p)' \subseteq Holds(p)
         /\ Loose(p)' \subseteq Loose(p) \ {k}
         /\ k = "pvc" /\ o # "ok" => Loose(p)' \subseteq {"pod", "service"}
<1>1. /\ Holds(p)' = IF Takes(o) THEN Holds(p) \ {k} ELSE Holds(p)
  BY DeleteHolds
<1>2. mishap \subseteq mishap' /\ \A w \in LeftBy(k, o) : <<w, p>> \in mishap'
  BY LeavesMore
<1>3. /\ Takes(o) \/ k \in LeftBy(k, o)
      /\ k = "pvc" /\ o # "ok" => "pv" \in LeftBy(k, o)
  BY DEF LeftBy, When
<1>4. Loose(p)' \subseteq Loose(p) \ {k}
  BY <1>1, <1>2, <1>3 DEF Loose
<1>5. ASSUME k = "pvc", o # "ok" PROVE "pv" \notin Loose(p)'
  BY <1>2, <1>3, <1>5 DEF Loose
<1> QED BY <1>1, <1>4, <1>5, HoldsKinds DEF Kinds

\* What a step keeps of a pulse it leaves alone.
LEMMA UntouchedKeeps ==
  ASSUME NEW q, Untouched(q)
  PROVE  /\ Holds(q)' = Holds(q) /\ Loose(q)' = Loose(q)
         /\ (Absent(q)' <=> Absent(q)) /\ (Live(q)' <=> Live(q))
         /\ (pods'[q].deleted <=> pods[q].deleted)
         /\ (<<"created", q>> \in activities' <=> <<"created", q>> \in activities)
         /\ (<<"stopped", q>> \in activities' <=> <<"stopped", q>> \in activities)
         /\ (<<"row", q>> \in mishap' <=> <<"row", q>> \in mishap)
         /\ (<<"log", q>> \in mishap' <=> <<"log", q>> \in mishap)
<1>1. Loose(q)' = Loose(q)
  BY HarmsKinds, HoldsKinds DEF Untouched, Loose
<1> QED BY <1>1 DEF Untouched, Absent, Live, ActivityTypes, Harms

\* What is said of a pulse depends on what is there of it and on its handlers.
LEMMA Elsewhere ==
  ASSUME NEW h \in Handlers, NEW p, NEW q \in PulseIDs \ {p}, req[h].id = p,
         PulseInv(q), Touches(h, p)
  PROVE  PulseInv(q)'
<1>1. Untouched(q) /\ sweep' = sweep
  BY DEF Touches
<1>2. \A g \in Handlers : IF g = h THEN req'[g].id # q /\ req[g].id # q ELSE req'[g] = req[g]
  BY IdsAssumption, IdleFits DEF Touches
<1>3. /\ \A k : Attended(k, q)' <=> Attended(k, q)
      /\ q \in BeingDeleted' <=> q \in BeingDeleted
      /\ Logging("logCreated", q)' <=> Logging("logCreated", q)
      /\ Logging("logStopped", q)' <=> Logging("logStopped", q)
  BY <1>1, <1>2 DEF Attended, BeingDeleted, Logging
<1>4. \A g \in Handlers : req'[g].id = q => req'[g] = req[g]
  BY <1>2
<1>5. \A g \in Handlers : req'[g].id = q => HandlerFits(g, q)'
  BY <1>1, <1>4, UntouchedKeeps DEF PulseInv, HandlerFits
<1>6. HasObjects(q)' /\ Kept(q)' /\ Logged(q)'
  BY <1>1, <1>3, UntouchedKeeps DEF PulseInv, HasObjects, Kept, Logged
<1> QED BY <1>1, <1>5, <1>6, UntouchedKeeps DEF PulseInv, SweepFits

LEMMA OnePulse ==
  ASSUME ObjInv, NEW h \in Handlers, NEW p \in PulseIDs, req[h].id = p, Touches(h, p), PulseInv(p)'
  PROVE  ObjInv'
BY Elsewhere DEF ObjInv
-----------------------------------------------------------------------------
(* The steps of a handler. *)

\* No other request, nor the sweep, is about a pulse without a row.
LEMMA Alone ==
  ASSUME IdInv, NEW h \in Handlers, NEW p, req[h].id = p, req[h].pc # "idle",
         Absent(p), PulseInv(p)
  PROVE  /\ \A g \in Handlers \ {h} : req[g].id # p
         /\ p \notin sweep.queue \cup {sweep.cur}
BY DEF IdInv, OneMaker, PulseInv

LEMMA PlainInv ==
  ASSUME ObjInv, NEW h \in Handlers, NEW p \in PulseIDs, req[h].id = p,
         Touches(h, p), Untouched(p),
         req[h].pc \in Plain, req'[h].pc \in Plain \cup {"delService"},
         req'[h].pc \in BeforeRow => req[h].pc \in BeforeRow
  PROVE  PulseInv(p)'
<1> USE DEF Plain, QuotaSteps, NamespaceSteps, LookupSteps, CreateSteps, UndoSteps, DeleteSteps
<1>1. /\ sweep' = sweep
      /\ \A g \in Handlers \ {h} : req'[g] = req[g]
  BY DEF Touches
<1>2. InHand(req[h].pc) = {}
  BY EmptyHands
<1>3. /\ \A k : Attended(k, p) => Attended(k, p)'
      /\ p \in BeingDeleted => p \in BeingDeleted'
      /\ Logging("logCreated", p) => Logging("logCreated", p)'
      /\ Logging("logStopped", p) => Logging("logStopped", p)'
  <2>1. \A k : Attended(k, p) => Attended(k, p)'
    BY <1>1, <1>2 DEF Attended
  <2>2. p \in BeingDeleted => p \in BeingDeleted'
    BY <1>1 DEF BeingDeleted
  <2>3. \A pc \in {"logCreated", "logStopped"} : Logging(pc, p) => Logging(pc, p)'
    BY <1>1 DEF Logging
  <2> QED BY <2>1, <2>2, <2>3
<1>4. PulseInv(p)
  BY DEF ObjInv
<1>5. HandlerFits(h, p)'
  <2>1. req'[h].pc \in BeforeRow => Holds(p)' = InHand(req'[h].pc)
    <3> SUFFICES ASSUME req'[h].pc \in BeforeRow PROVE Holds(p)' = InHand(req'[h].pc)
      OBVIOUS
    <3>1. Holds(p)' = {}
      BY <1>2, <1>4, UntouchedKeeps DEF PulseInv, HandlerFits
    <3>2. req'[h].pc \in Plain
      BY DEF BeforeRow
    <3> QED BY <3>1, <3>2, EmptyHands
  <2>2. req'[h].pc \notin UndoSteps
    OBVIOUS
  <2>3. req'[h].pc \in DeleteSteps => InHand(req'[h].pc) = Kinds
    BY FullHands
  <2>4. Loose(p)' \subseteq Kinds
    BY HoldsKinds, UntouchedKeeps
  <2> QED BY <2>1, <2>2, <2>3, <2>4 DEF HandlerFits
<1>6. ASSUME NEW g \in Handlers \ {h}, req'[g].id = p PROVE HandlerFits(g, p)'
  BY <1>1, <1>4, <1>6, UntouchedKeeps DEF PulseInv, HandlerFits
<1>7. HasObjects(p)' /\ Kept(p)' /\ Logged(p)'
  BY <1>3, <1>4, UntouchedKeeps DEF PulseInv, HasObjects, Kept, Logged
<1> QED BY <1>1, <1>4, <1>5, <1>6, <1>7, UntouchedKeeps DEF PulseInv, SweepFits

\* A step of the only request about a pulse without a row.
LEMMA MakerInv ==
  ASSUME IdInv, ObjInv, NEW h \in Handlers, NEW p \in PulseIDs, req[h].id = p,
         req[h].pc \in CreateSteps, Absent(p),
         Touches(h, p), Absent(p)', ~ pods'[p].deleted,
         req'[h] # Idle => HandlerFits(h, p)',
         \A k \in Loose(p)' : req'[h].id = p /\ k \in InHand(req'[h].pc)
  PROVE  PulseInv(p)'
<1>1. PulseInv(p) /\ req[h].pc # "idle"
  BY DEF ObjInv, CreateSteps
<1>2. \A g \in Handlers \ {h} : req'[g].id # p
  BY <1>1, Alone DEF Touches
<1>3. sweep' = sweep /\ p \notin sweep.queue \cup {sweep.cur}
  BY <1>1, Alone DEF Touches
<1>4. ~ Live(p)' /\ ~ pods'[p].deleted
  BY DEF Live, Absent
<1>5. Kept(p)'
  BY DEF Kept, Attended
<1>6. HasObjects(p)' /\ Logged(p)'
  BY <1>4 DEF HasObjects, Logged
<1>7. ASSUME NEW g \in Handlers, req'[g].id = p PROVE HandlerFits(g, p)'
  BY <1>2, <1>7, IdleFits, IdsAssumption
<1> QED BY <1>3, <1>5, <1>6, <1>7 DEF PulseInv

\* A step of a request that removes the objects of a pulse.
LEMMA RemoverInv ==
  ASSUME IdInv, ObjInv, NEW h \in Handlers, NEW p \in PulseIDs, req[h].id = p,
         req[h].pc \in UndoSteps \cup DeleteSteps,
         Touches(h, p), UNCHANGED <<pods, activities>>,
         Holds(p)' \subseteq Holds(p), Loose(p)' \subseteq Loose(p), mishap \subseteq mishap',
         \/ req'[h] = Idle /\ req[h].pc \in UndoSteps /\ Loose(p)' = {}
         \/ /\ req'[h].id = p /\ Loose(p)' \subseteq InHand(req'[h].pc)
            /\ \/ req[h].pc \in UndoSteps /\ req'[h].pc \in UndoSteps
               \/ req[h].pc \in DeleteSteps /\ req'[h].pc \in DeleteSteps
  PROVE  PulseInv(p)'
<1>1. PulseInv(p) /\ req[h].pc # "idle"
  BY DEF ObjInv, UndoSteps, DeleteSteps
<1>2. /\ (Absent(p)' <=> Absent(p)) /\ (Live(p)' <=> Live(p))
      /\ sweep' = sweep /\ \A g \in Handlers \ {h} : req'[g] = req[g]
  BY DEF Absent, Live, Touches
<1>3. HandlerFits(h, p)
  BY <1>1 DEF PulseInv
<1>4. req[h].pc \in UndoSteps => Absent(p) \/ <<"row", p>> \in mishap
  BY <1>3 DEF HandlerFits
<1>5. ASSUME NEW g \in Handlers, req'[g].id = p PROVE HandlerFits(g, p)'
  <2>1. CASE g = h
    <3>1. /\ req'[h].pc \notin BeforeRow
          /\ req'[h].pc \in UndoSteps => req[h].pc \in UndoSteps
      BY DEF BeforeRow, QuotaSteps, NamespaceSteps, CreateSteps, UndoSteps, DeleteSteps, Idle
    <3>2. Loose(p)' \subseteq InHand(req'[h].pc)
      OBVIOUS
    <3> QED BY <1>2, <1>4, <2>1, <3>1, <3>2 DEF HandlerFits
  <2>2. CASE g # h
    <3>1. req'[g] = req[g] /\ req[g].id = p
      BY <1>2, <1>5, <2>2
    <3>2. HandlerFits(g, p)
      BY <1>1, <3>1 DEF PulseInv
    <3>3. req[g].pc \notin BeforeRow
      BY <1>1, <2>2, <3>1 DEF IdInv, RowLater, OneMaker
    <3> QED BY <1>2, <3>1, <3>2, <3>3 DEF HandlerFits
  <2> QED BY <2>1, <2>2
<1>6. HasObjects(p)'
  <2>1. CASE req[h].pc \in UndoSteps
    BY <1>2, <1>4, <2>1 DEF HasObjects, Live, Absent
  <2>2. CASE req[h].pc \in DeleteSteps
    <3>1. req'[h].pc \in DeleteSteps /\ req'[h].id = p
      BY <2>2 DEF UndoSteps, DeleteSteps
    <3> QED BY <3>1 DEF HasObjects, BeingDeleted
  <2> QED BY <2>1, <2>2
<1>7. Kept(p)'
  BY DEF Kept, Attended
<1>8. Logged(p)'
  <2>1. req[h].pc \notin {"logCreated", "logStopped"}
    BY DEF UndoSteps, DeleteSteps
  <2>2. \A a \in {"logCreated", "logStopped"} : Logging(a, p) => Logging(a, p)'
    BY <1>2, <2>1 DEF Logging
  <2> QED BY <1>1, <1>2, <2>2 DEF PulseInv, Logged
<1>9. sweep.cur = p => SweepFits(p)'
  BY <1>1, <1>2 DEF PulseInv, SweepFits
<1> QED BY <1>1, <1>2, <1>5, <1>6, <1>7, <1>8, <1>9 DEF PulseInv

\* The steps that change no object and of the rows at most their time.
LEMMA ReadsUntouched ==
  ASSUME UNCHANGED <<mishap, objects, pods, activities>>
  PROVE  \A q : Untouched(q)
BY DEF Untouched, Holds

LEMMA PlainStepInv ==
  ASSUME TypeOK, IdInv, ObjInv, NEW h \in Handlers, NEW o, UNCHANGED sweep,
         \/ QuotaStep(h, o) \/ OwnDelete(h, o) \/ GetDelete(h, o) \/ TouchStep(h, o)
         \/ GetNamespace(h, o) \/ AddNamespace(h, o) \/ RegetNamespace(h, o)
  PROVE  ObjInv'
<1> USE DEF At, QuotaSteps, NamespaceSteps, LookupSteps
<1>1. ServiceTypeOK /\ StoreTypeOK /\ req[h].pc \in QuotaSteps \cup NamespaceSteps \cup LookupSteps
  BY DEF TypeOK, QuotaStep, GetQuota, AddQuota, RegetQuota, Count, OwnDelete, GetDelete,
         TouchStep, OwnTouch, GetTouch, Touch, Owned, Found, GetNamespace, AddNamespace,
         RegetNamespace, Reads
<1>2. req[h].pc # "idle" /\ req[h].id \in PulseIDs
  BY <1>1, BusyRequest DEF Requests
<1>3. PICK p \in PulseIDs : req[h].id = p
  BY <1>2
<1>4. Goes(h)
  BY <1>1, HandlerGoes DEF CreateStep, DeleteStep, AddRow, GetNamespace, AddNamespace,
     RegetNamespace, Reads
<1>5. \A q \in PulseIDs : Untouched(q)
  <2>1. CASE Touch(h, o)
    BY <1>1, <2>1 DEF Touch, UpdateActivity, Untouched, clusterVars, Holds, StoreTypeOK, Rows
  <2>2. CASE ~ Touch(h, o)
    <3>1. UNCHANGED <<mishap, objects, pods, activities>>
      BY <2>2 DEF QuotaStep, GetQuota, AddQuota, RegetQuota, Count, OwnDelete, GetDelete,
         TouchStep, OwnTouch, GetTouch, Owned, Found, GetNamespace, AddNamespace,
         CreateNamespace, RegetNamespace, Reads, clusterVars, storeVars
    <3> QED BY <3>1, ReadsUntouched
  <2> QED BY <2>1, <2>2
<1>6. Touches(h, p)
  BY <1>3, <1>4, <1>5 DEF Goes, Touches
<1>7. /\ req'[h].pc \in Plain \cup {"delService"}
      /\ req'[h].pc \in BeforeRow => req[h].pc \in BeforeRow
  <2>1. req'[h].pc \in BeforeRow => req[h].pc \in BeforeRow
    BY <1>4, IdleStep DEF Goes
  <2>2. \/ Finish(h) \/ \E to \in Plain \cup {"delService"} : Goto(h, to)
        \/ \E k : req' = [req EXCEPT ![h].pc = "count", ![h].limit = k]
        \/ req' = [req EXCEPT ![h].pc = "getNamespace", ![h].limit = "none"]
    BY DEF QuotaStep, GetQuota, AddQuota, RegetQuota, Count, OwnDelete, GetDelete,
         TouchStep, OwnTouch, GetTouch, Touch, Owned, Found, GetNamespace, AddNamespace,
         RegetNamespace, Quoted, GotoIf, Plain
  <2>3. CASE Finish(h)
    BY <1>1, <2>3, IdleFits DEF Finish, ServiceTypeOK, Plain
  <2>4. ASSUME NEW to \in Plain \cup {"delService"}, Goto(h, to) PROVE req'[h].pc = to
    BY <1>1, <1>2, <2>4, GotoKeeps
  <2>5. ASSUME NEW pc \in {"count", "getNamespace"}, NEW k,
               req' = [req EXCEPT ![h].pc = pc, ![h].limit = k]
        PROVE  req'[h].pc = pc
    BY <1>1, <1>2, <2>5, BusyRequest DEF ServiceTypeOK, Requests
  <2> QED BY <2>1, <2>2, <2>3, <2>4, <2>5 DEF Plain
<1>8. PulseInv(p)'
  BY <1>1, <1>3, <1>5, <1>6, <1>7, PlainInv DEF Plain
<1> QED BY <1>3, <1>6, <1>8, OnePulse

\* A call that makes an object of a pulse or takes one away.
LEMMA CallTouches ==
  ASSUME TypeOK, NEW h \in Handlers, NEW pc \in CreateSteps \cup UndoSteps \cup DeleteSteps,
         NEW k \in Kinds, NEW o,
         \/ Creates(h, pc, k, o) /\ Spoils(h)
         \/ Deletes(h, pc, k, o),
         UNCHANGED sweep, Finish(h) \/ \E to : Goto(h, to)
  PROVE  /\ req[h].pc = pc /\ req[h].id \in PulseIDs
         /\ Touches(h, req[h].id)
         /\ UNCHANGED <<pods, activities>>
<1>1. req[h].pc = pc /\ pc # "idle" /\ ServiceTypeOK
  BY DEF TypeOK, Creates, Deletes, At, CreateSteps, UndoSteps, DeleteSteps
<1>2. req[h].id \in PulseIDs
  BY <1>1, BusyRequest DEF Requests
<1>3. UNCHANGED <<pods, activities>>
  BY DEF Creates, Deletes, storeVars
<1>4. /\ \A g \in Handlers \ {h} : req'[g] = req[g]
      /\ req'[h] = Idle \/ req'[h].id = req[h].id
  BY <1>1, GotoKeeps DEF Finish, ServiceTypeOK
<1>5. \A q \in PulseIDs \ {req[h].id} :
        Holds(q)' = Holds(q) /\ \A w : <<w, q>> \in mishap' <=> <<w, q>> \in mishap
  BY CreateHolds, DeleteHolds, LeavesMore DEF Creates, Deletes, Spoils
<1> QED BY <1>1, <1>2, <1>3, <1>4, <1>5 DEF Touches, Untouched

\* The creation of the objects.
LEMMA CreateObjectInv ==
  ASSUME TypeOK, IdInv, ObjInv, NEW h \in Handlers, NEW o \in Outcomes, UNCHANGED sweep,
         AddPV(h, o) \/ AddPVC(h, o) \/ AddPod(h, o) \/ AddService(h, o)
  PROVE  ObjInv'
<1>1. \E pc \in {"addPV", "addPVC", "addPod", "addService"}, k \in Kinds :
        Creates(h, pc, k, o) /\ Spoils(h)
  BY CreatesSpoils DEF AddPV, AddPVC, AddPod, AddService, Kinds
<1>2. Finish(h) \/ \E to : Goto(h, to)
  BY DEF AddPV, AddPVC, AddPod, AddService, GotoIf
<1>3. /\ req[h].pc \in {"addPV", "addPVC", "addPod", "addService"}
      /\ req[h].id \in PulseIDs /\ Touches(h, req[h].id) /\ UNCHANGED <<pods, activities>>
  BY <1>1, <1>2, CallTouches DEF CreateSteps
<1>4. PICK p \in PulseIDs : req[h].id = p
  BY <1>3
<1>5. Absent(p) /\ ~ pods[p].deleted /\ PulseInv(p) /\ ServiceTypeOK /\ req[h].pc # "idle"
  BY <1>3, <1>4 DEF IdInv, RowLater, BeforeRow, CreateSteps, ObjInv, PulseInv, TypeOK
<1>6. Absent(p)' /\ ~ pods'[p].deleted
  BY <1>3, <1>5 DEF Absent
<1>7. Holds(p) = InHand(req[h].pc)
  BY <1>3, <1>4, <1>5 DEF PulseInv, HandlerFits, BeforeRow, CreateSteps
<1>8. Loose(p)' \subseteq Holds(p)'
  BY DEF Loose
<1>9. /\ req'[h] # Idle => HandlerFits(h, p)'
      /\ \A k \in Loose(p)' : req'[h].id = p /\ k \in InHand(req'[h].pc)
  <2> USE DEF At, Takes, Outcomes
  <2>1. CASE AddPV(h, o)
    <3>1. Holds(p)' = IF o = "err" THEN {} ELSE {"pv"}
      BY <1>4, <1>7, <2>1, CreateHolds, EmptyHands DEF AddPV, Creates, Kinds, Plain
    <3>2. o = "lost" => <<"pv", p>> \in mishap'
      BY <1>4, <2>1, LeavesMore DEF AddPV, When
    <3>3. CASE o = "ok"
      <4>1. req'[h].id = p /\ req'[h].pc = "addPVC"
        BY <1>4, <1>5, <2>1, <3>3, GotoKeeps DEF AddPV, GotoIf
      <4> QED
        BY <1>8, <3>1, <3>3, <4>1, FullHands DEF HandlerFits, UndoSteps, DeleteSteps
    <3>4. CASE o # "ok"
      <4>1. req'[h] = Idle
        BY <1>5, <2>1, <3>4 DEF AddPV, GotoIf, Finish, ServiceTypeOK
      <4>2. Loose(p)' = {}
        BY <3>1, <3>2, <3>4 DEF Loose
      <4> QED BY <4>1, <4>2
    <3> QED BY <3>3, <3>4
  <2>2. CASE AddPVC(h, o)
    <3>1. Holds(p)' = IF o = "err" THEN {"pv"} ELSE {"pv", "pvc"}
      BY <1>4, <1>7, <2>2, CreateHolds, FullHands DEF AddPVC, Creates, Kinds
    <3>2. /\ o # "ok" => <<"pv", p>> \in mishap'
          /\ o = "lost" => <<"pvc", p>> \in mishap'
      BY <1>4, <2>2, LeavesMore DEF AddPVC, When
    <3>3. CASE o = "ok"
      <4>1. req'[h].id = p /\ req'[h].pc = "addPod"
        BY <1>4, <1>5, <2>2, <3>3, GotoKeeps DEF AddPVC, GotoIf
      <4> QED
        BY <1>8, <3>1, <3>3, <4>1, FullHands DEF HandlerFits, UndoSteps, DeleteSteps
    <3>4. CASE o # "ok"
      <4>1. req'[h] = Idle
        BY <1>5, <2>2, <3>4 DEF AddPVC, GotoIf, Finish, ServiceTypeOK
      <4>2. Loose(p)' = {}
        BY <3>1, <3>2, <3>4 DEF Loose
      <4> QED BY <4>1, <4>2
    <3> QED BY <3>3, <3>4
  <2>3. CASE AddPod(h, o)
    <3>1. Holds(p)' = IF o = "err" THEN {"pv", "pvc"} ELSE {"pv", "pvc", "pod"}
      BY <1>4, <1>7, <2>3, CreateHolds, FullHands DEF AddPod, Creates, Kinds
    <3>2. o = "lost" => <<"pod", p>> \in mishap'
      BY <1>4, <2>3, LeavesMore DEF AddPod, When
    <3>3. req'[h].id = p /\ req'[h].pc = IF o = "ok" THEN "addService" ELSE "undoPVC"
      BY <1>4, <1>5, <2>3, GotoKeeps DEF AddPod
    <3>4. Loose(p)' \subseteq InHand(req'[h].pc)
      BY <3>1, <3>2, <3>3, FullHands DEF Loose
    <3> QED
      BY <1>6, <3>1, <3>3, <3>4, FullHands DEF HandlerFits, BeforeRow, QuotaSteps,
         NamespaceSteps, CreateSteps, UndoSteps, DeleteSteps
  <2>4. CASE AddService(h, o)
    <3>1. Holds(p)' = IF o = "err" THEN {"pv", "pvc", "pod"} ELSE Kinds
      BY <1>4, <1>7, <2>4, CreateHolds, FullHands DEF AddService, Creates, Kinds
    <3>2. o = "lost" => <<"service", p>> \in mishap'
      BY <1>4, <2>4, LeavesMore DEF AddService, When
    <3>3. req'[h].id = p /\ req'[h].pc = IF o = "ok" THEN "addRow" ELSE "undoPod"
      BY <1>4, <1>5, <2>4, GotoKeeps DEF AddService
    <3>4. Loose(p)' \subseteq InHand(req'[h].pc)
      BY <3>1, <3>2, <3>3, FullHands DEF Loose, Kinds
    <3> QED
      BY <1>6, <3>1, <3>3, <3>4, FullHands DEF HandlerFits, BeforeRow, QuotaSteps,
         NamespaceSteps, CreateSteps, UndoSteps, DeleteSteps
  <2> QED BY <2>1, <2>2, <2>3, <2>4
<1>10. PulseInv(p)'
  BY <1>3, <1>4, <1>5, <1>6, <1>9, MakerInv DEF CreateSteps
<1> QED BY <1>3, <1>4, <1>10, OnePulse

\* The cleanup on the error paths.
LEMMA UndoInv ==
  ASSUME TypeOK, IdInv, ObjInv, NEW h \in Handlers, NEW o \in Outcomes, UNCHANGED sweep,
         UndoStep(h, o)
  PROVE  ObjInv'
<1>1. PICK pc \in UndoSteps, k \in Kinds : Deletes(h, pc, k, o)
  BY DEF UndoStep, UndoService, UndoPod, UndoPVC, UndoPV, Kinds, UndoSteps
<1>2. Finish(h) \/ \E to \in UndoSteps : Goto(h, to)
  BY DEF UndoStep, UndoService, UndoPod, UndoPVC, UndoPV, GotoIf, UndoSteps
<1>3. /\ req[h].pc \in UndoSteps
      /\ req[h].id \in PulseIDs /\ Touches(h, req[h].id) /\ UNCHANGED <<pods, activities>>
  BY <1>1, <1>2, CallTouches
<1>4. PICK p \in PulseIDs : req[h].id = p
  BY <1>3
<1>5. PulseInv(p) /\ ServiceTypeOK /\ req[h].pc # "idle"
  BY <1>3 DEF ObjInv, TypeOK, UndoSteps
<1>6. DeleteObject(k, p, o) /\ Leaves(LeftBy(k, o), p)
  BY <1>1, <1>4 DEF Deletes
<1>7. /\ Holds(p)' \subseteq Holds(p) /\ Loose(p)' \subseteq Loose(p) \ {k}
      /\ k = "pvc" /\ o # "ok" => Loose(p)' \subseteq {"pod", "service"}
      /\ mishap \subseteq mishap'
  BY <1>6, DeleteLoose, LeavesMore
<1>8. Loose(p) \subseteq InHand(req[h].pc) /\ Loose(p) \subseteq Kinds
  BY <1>3, <1>4, <1>5, HoldsKinds DEF PulseInv, HandlerFits
<1>9. \/ req'[h] = Idle /\ Loose(p)' = {}
      \/ req'[h].id = p /\ req'[h].pc \in UndoSteps /\ Loose(p)' \subseteq InHand(req'[h].pc)
  <2> USE DEF At, UndoSteps
  <2>1. CASE UndoService(h, o)
    <3>1. Loose(p)' \subseteq {"pv", "pvc", "pod"}
      BY <1>4, <1>8, <2>1, DeleteLoose DEF UndoService, Deletes, Kinds
    <3>2. req'[h].id = p /\ req'[h].pc = "undoPod"
      BY <1>4, <1>5, <2>1, GotoKeeps DEF UndoService
    <3> QED BY <3>1, <3>2, FullHands
  <2>2. CASE UndoPod(h, o)
    <3>1. Loose(p) \subseteq {"pv", "pvc", "pod"}
      BY <1>8, <2>2, FullHands DEF UndoPod, Deletes
    <3>2. Loose(p)' \subseteq {"pv", "pvc"}
      BY <1>4, <2>2, <3>1, DeleteLoose DEF UndoPod, Deletes, Kinds
    <3>3. req'[h].id = p /\ req'[h].pc = "undoPVC"
      BY <1>4, <1>5, <2>2, GotoKeeps DEF UndoPod
    <3> QED BY <3>2, <3>3, FullHands
  <2>3. CASE UndoPVC(h, o)
    <3>1. Loose(p) \subseteq {"pv", "pvc"}
      BY <1>8, <2>3, FullHands DEF UndoPVC, Deletes
    <3>2. Loose(p)' \subseteq {"pv"} /\ (o # "ok" => Loose(p)' = {})
      BY <1>4, <2>3, <3>1, DeleteLoose DEF UndoPVC, Deletes, Kinds
    <3>3. CASE o = "ok"
      <4>1. req'[h].id = p /\ req'[h].pc = "undoPV"
        BY <1>4, <1>5, <2>3, <3>3, GotoKeeps DEF UndoPVC, GotoIf
      <4> QED BY <3>2, <4>1, FullHands
    <3>4. CASE o # "ok"
      BY <1>5, <2>3, <3>2, <3>4 DEF UndoPVC, GotoIf, Finish, ServiceTypeOK
    <3> QED BY <3>3, <3>4
  <2>4. CASE UndoPV(h, o)
    <3>1. Loose(p) \subseteq {"pv"}
      BY <1>8, <2>4, FullHands DEF UndoPV, Deletes
    <3>2. Loose(p)' = {}
      BY <1>4, <2>4, <3>1, DeleteLoose DEF UndoPV, Deletes, Kinds
    <3> QED BY <1>5, <2>4, <3>2 DEF UndoPV, Finish, ServiceTypeOK
  <2> QED BY <2>1, <2>2, <2>3, <2>4 DEF UndoStep
<1>10. PulseInv(p)'
  BY <1>3, <1>4, <1>7, <1>9, RemoverInv
<1> QED BY <1>3, <1>4, <1>10, OnePulse

\* The insert of the row.
LEMMA AddRowInv ==
  ASSUME TypeOK, IdInv, ObjInv, NEW h \in Handlers, NEW o \in Outcomes, UNCHANGED sweep,
         AddRow(h, o)
  PROVE  ObjInv'
<1>1. req[h].pc = "addRow" /\ ServiceTypeOK /\ StoreTypeOK
  BY DEF TypeOK, AddRow, At
<1>2. PICK p \in PulseIDs : req[h].id = p
  BY <1>1, BusyRequest DEF Requests
<1>3. /\ \A g \in Handlers \ {h} : req'[g] = req[g]
      /\ req'[h].id = p /\ req'[h].pc = IF o = "ok" THEN "logCreated" ELSE "undoService"
  BY <1>1, <1>2, GotoKeeps DEF AddRow
<1>4. Absent(p) /\ PulseInv(p) /\ ~ pods[p].deleted
  BY <1>1, <1>2 DEF IdInv, RowLater, BeforeRow, CreateSteps, ObjInv, PulseInv
<1>5. /\ \A g \in Handlers \ {h} : req'[g].id # p
      /\ sweep' = sweep /\ p \notin sweep.queue \cup {sweep.cur}
  BY <1>1, <1>2, <1>3, <1>4, Alone
<1>6. /\ Takes(o) => pods'[p].status = "pending" /\ pods'[p].deleted = FALSE
      /\ ~ Takes(o) => pods' = pods
      /\ \A q \in PulseIDs \ {p} : pods'[q] = pods[q]
      /\ activities' = activities
  <2>1. /\ pods' = IF Takes(o)
                    THEN [pods EXCEPT ![p] = [status |-> "pending", deleted |-> FALSE,
                                              lapsed |-> FALSE, user |-> req[h].user]]
                    ELSE pods
        /\ activities' = activities
    BY <1>2 DEF AddRow, InsertRow
  <2>2. CASE Takes(o)
    <3>1. pods'[p] = [status |-> "pending", deleted |-> FALSE, lapsed |-> FALSE,
                      user |-> req[h].user]
      BY <1>1, <2>1, <2>2 DEF StoreTypeOK
    <3> QED BY <1>1, <2>1, <2>2, <3>1 DEF StoreTypeOK
  <2> QED BY <2>1, <2>2
<1>7. \A q : Holds(q)' = Holds(q)
  BY DEF AddRow, clusterVars, Holds
<1>8. /\ o = "lost" => <<"row", p>> \in mishap' /\ <<"log", p>> \in mishap'
      /\ \A q : q # p => \A w : <<w, q>> \in mishap' <=> <<w, q>> \in mishap
  BY <1>2, LeavesMore DEF AddRow, When
<1>9. Touches(h, p)
  BY <1>3, <1>5, <1>6, <1>7, <1>8 DEF Touches, Untouched
<1>10. Holds(p)' = Kinds /\ Loose(p)' \subseteq Kinds
  <2>1. Holds(p) = Kinds
    BY <1>1, <1>2, <1>4, FullHands DEF PulseInv, HandlerFits, BeforeRow, CreateSteps
  <2> QED BY <1>7, <2>1 DEF Loose
<1>11. CASE o = "err"
  <2>1. Absent(p)' /\ ~ pods'[p].deleted
    BY <1>4, <1>6, <1>11 DEF Absent, Takes
  <2>2. InHand(req'[h].pc) = Kinds
    BY <1>3, <1>11, FullHands
  <2>3. HandlerFits(h, p)'
    BY <1>3, <1>10, <1>11, <2>1, <2>2 DEF HandlerFits, BeforeRow, QuotaSteps,
       NamespaceSteps, CreateSteps, UndoSteps, DeleteSteps
  <2>4. PulseInv(p)'
    BY <1>1, <1>2, <1>3, <1>4, <1>9, <1>10, <2>1, <2>2, <2>3, MakerInv DEF CreateSteps
  <2> QED BY <1>2, <1>9, <2>4, OnePulse
<1>12. CASE o # "err"
  <2>1. Live(p)' /\ ~ Absent(p)' /\ ~ pods'[p].deleted
    BY <1>6, <1>12 DEF Live, Absent, Takes
  <2>2. HandlerFits(h, p)'
    <3>1. CASE o = "ok"
      BY <1>3, <3>1 DEF HandlerFits, BeforeRow, QuotaSteps, NamespaceSteps, CreateSteps,
         UndoSteps, DeleteSteps
    <3>2. CASE o = "lost"
      <4>1. InHand(req'[h].pc) = Kinds
        BY <1>3, <3>2, FullHands
      <4> QED
        BY <1>3, <1>8, <1>10, <3>2, <4>1 DEF HandlerFits, BeforeRow, QuotaSteps,
           NamespaceSteps, CreateSteps, UndoSteps, DeleteSteps
    <3> QED BY <1>12, <3>1, <3>2 DEF Outcomes
  <2>3. Logged(p)'
    <3>1. CASE o = "ok"
      BY <1>3, <2>1, <3>1 DEF Logged, Logging
    <3>2. CASE o = "lost"
      BY <1>8, <3>2 DEF Logged
    <3> QED BY <1>12, <3>1, <3>2 DEF Outcomes
  <2>4. HasObjects(p)' /\ Kept(p)'
    BY <1>10, <2>1 DEF HasObjects, Kept
  <2>5. PulseInv(p)'
    BY <1>5, <2>1, <2>2, <2>3, <2>4 DEF PulseInv
  <2> QED BY <1>2, <1>9, <2>5, OnePulse
<1> QED BY <1>11, <1>12

\* The activity records.
LEMMA LogInv ==
  ASSUME TypeOK, IdInv, ObjInv, NEW h \in Handlers, NEW o \in Outcomes, UNCHANGED sweep,
         LogCreated(h, o) \/ LogStopped(h, o)
  PROVE  ObjInv'
<1>1. PICK t \in {"created", "stopped"} :
        Logs(h, IF t = "created" THEN "logCreated" ELSE "logStopped", t, o)
  BY DEF LogCreated, LogStopped
<1> DEFINE pc == IF t = "created" THEN "logCreated" ELSE "logStopped"
<1>2. req[h].pc = pc /\ ServiceTypeOK
  BY <1>1 DEF TypeOK, Logs, At
<1>3. PICK p \in PulseIDs : req[h].id = p
  BY <1>2, BusyRequest DEF Requests
<1>4. /\ sweep' = sweep /\ pods' = pods /\ \A q : Holds(q)' = Holds(q)
      /\ req'[h] = Idle /\ \A g \in Handlers \ {h} : req'[g] = req[g]
      /\ activities' = IF Takes(o) THEN activities \cup {<<t, p>>} ELSE activities
  BY <1>1, <1>2, <1>3 DEF Logs, LogActivity, clusterVars, Holds, Finish, ServiceTypeOK
<1>5. /\ mishap \subseteq mishap'
      /\ o # "ok" => <<"log", p>> \in mishap'
      /\ \A w : w # "log" => (<<w, p>> \in mishap' <=> <<w, p>> \in mishap)
      /\ \A q : q # p => \A w : <<w, q>> \in mishap' <=> <<w, q>> \in mishap
  BY <1>1, <1>3, LeavesMore DEF Logs, When
<1>6. Touches(h, p)
  BY <1>4, <1>5 DEF Touches, Untouched
<1>7. PulseInv(p) /\ Loose(p)' = Loose(p)
  BY <1>4, <1>5, HoldsKinds DEF ObjInv, Loose, Kinds
<1>8. InHand(req[h].pc) = {} /\ InHand(Idle.pc) = {} /\ req[h].pc \notin DeleteSteps
  BY <1>2, EmptyHands, IdleFits DEF LogSteps, Plain, DeleteSteps
<1>9. /\ (Absent(p)' <=> Absent(p)) /\ (Live(p)' <=> Live(p))
      /\ \A k : Attended(k, p) => Attended(k, p)'
      /\ p \in BeingDeleted => p \in BeingDeleted'
  BY <1>4, <1>8 DEF Absent, Live, Attended, BeingDeleted
<1>10. \A g \in Handlers : req'[g].id = p => req'[g] = req[g]
  BY <1>4, IdleFits, IdsAssumption
<1>11. \A g \in Handlers : req'[g].id = p => HandlerFits(g, p)'
  BY <1>4, <1>5, <1>7, <1>9, <1>10 DEF PulseInv, HandlerFits
<1>12. Logged(p)'
  <2>1. CASE o = "ok"
    <3>1. \A a \in {"logCreated", "logStopped"} : Logging(a, p) => a = pc \/ Logging(a, p)'
      BY <1>2, <1>4 DEF Logging
    <3>2. <<t, p>> \in activities' /\ activities \subseteq activities'
      BY <1>4, <2>1 DEF Takes
    <3> QED BY <1>4, <1>5, <1>7, <1>9, <3>1, <3>2 DEF PulseInv, Logged
  <2>2. CASE o # "ok"
    BY <1>5, <2>2 DEF Logged
  <2> QED BY <2>1, <2>2
<1>13. sweep'.cur = p => SweepFits(p)'
  BY <1>4, <1>7, <1>9 DEF PulseInv, SweepFits
<1>14. HasObjects(p)' /\ Kept(p)'
  BY <1>4, <1>5, <1>7, <1>9 DEF PulseInv, HasObjects, Kept
<1>15. PulseInv(p)'
  BY <1>4, <1>7, <1>9, <1>11, <1>12, <1>13, <1>14 DEF PulseInv
<1> QED BY <1>3, <1>6, <1>15, OnePulse

\* The objects that DeletePod takes away.
LEMMA DeleteObjectInv ==
  ASSUME TypeOK, IdInv, ObjInv, NEW h \in Handlers, NEW o \in Outcomes, UNCHANGED sweep,
         DelService(h, o) \/ DelPod(h, o) \/ DelPVC(h, o) \/ DelPV(h, o)
  PROVE  ObjInv'
<1>1. PICK pc \in DeleteSteps, k \in Kinds : Deletes(h, pc, k, o)
  BY DEF DelService, DelPod, DelPVC, DelPV, Kinds, DeleteSteps
<1>2. \E to \in DeleteSteps : Goto(h, to)
  BY DEF DelService, DelPod, DelPVC, DelPV, DeleteSteps
<1>3. /\ req[h].pc \in DeleteSteps
      /\ req[h].id \in PulseIDs /\ Touches(h, req[h].id) /\ UNCHANGED <<pods, activities>>
  BY <1>1, <1>2, CallTouches
<1>4. PICK p \in PulseIDs : req[h].id = p
  BY <1>3
<1>5. PulseInv(p) /\ ServiceTypeOK /\ req[h].pc # "idle"
  BY <1>3, <1>4 DEF ObjInv, TypeOK, DeleteSteps
<1>6. DeleteObject(k, p, o) /\ Leaves(LeftBy(k, o), p)
  BY <1>1, <1>4 DEF Deletes
<1>7. Holds(p)' \subseteq Holds(p) /\ Loose(p)' \subseteq Loose(p) /\ mishap \subseteq mishap'
  BY <1>6, DeleteLoose, LeavesMore
<1>8. Loose(p) \subseteq InHand(req[h].pc) /\ Loose(p) \subseteq Kinds
  BY <1>3, <1>4, <1>5, HoldsKinds DEF PulseInv, HandlerFits
<1>9. req'[h].id = p /\ req'[h].pc \in DeleteSteps
  BY <1>2, <1>4, <1>5, GotoKeeps
<1>10. Loose(p)' \subseteq InHand(req'[h].pc)
  <2> USE DEF At
  <2>1. CASE DelService(h, o)
    <3>1. Loose(p)' \subseteq {"pv", "pvc", "pod"}
      BY <1>4, <1>8, <2>1, DeleteLoose DEF DelService, Deletes, Kinds
    <3>2. req'[h].pc = "delPod"
      BY <1>5, <2>1, GotoKeeps DEF DelService
    <3> QED BY <3>1, <3>2, FullHands
  <2>2. CASE DelPod(h, o)
    <3>1. Loose(p) \subseteq {"pv", "pvc", "pod"}
      BY <1>8, <2>2, FullHands DEF DelPod, Deletes
    <3>2. Loose(p)' \subseteq {"pv", "pvc"}
      BY <1>4, <2>2, <3>1, DeleteLoose DEF DelPod, Deletes, Kinds
    <3>3. req'[h].pc = "delPVC"
      BY <1>5, <2>2, GotoKeeps DEF DelPod
    <3> QED BY <3>2, <3>3, FullHands
  <2>3. CASE DelPVC(h, o)
    <3>1. Loose(p) \subseteq {"pv", "pvc"}
      BY <1>8, <2>3, FullHands DEF DelPVC, Deletes
    <3>2. Loose(p)' \subseteq {"pv"} /\ (o # "ok" => Loose(p)' = {})
      BY <1>4, <2>3, <3>1, DeleteLoose DEF DelPVC, Deletes, Kinds
    <3>3. req'[h].pc = IF o = "ok" THEN "delPV" ELSE "softDelete"
      BY <1>5, <2>3, GotoKeeps DEF DelPVC
    <3> QED BY <3>2, <3>3, FullHands
  <2>4. CASE DelPV(h, o)
    <3>1. Loose(p) \subseteq {"pv"}
      BY <1>8, <2>4, FullHands DEF DelPV, Deletes
    <3>2. Loose(p)' = {}
      BY <1>4, <2>4, <3>1, DeleteLoose DEF DelPV, Deletes, Kinds
    <3> QED BY <3>2
  <2> QED BY <2>1, <2>2, <2>3, <2>4
<1>11. PulseInv(p)'
  BY <1>3, <1>4, <1>7, <1>9, <1>10, RemoverInv
<1> QED BY <1>3, <1>4, <1>11, OnePulse

\* The soft delete: of two requests for one pod, the second finds it done.
LEMMA MarkDeletedInv ==
  ASSUME TypeOK, IdInv, ObjInv, NEW h \in Handlers, NEW o \in Outcomes, UNCHANGED sweep,
         MarkDeleted(h, o)
  PROVE  ObjInv'
<1>1. req[h].pc = "softDelete" /\ ServiceTypeOK /\ StoreTypeOK
  BY DEF TypeOK, MarkDeleted, At
<1>2. PICK p \in PulseIDs : req[h].id = p
  BY <1>1, BusyRequest DEF Requests
<1>3. PulseInv(p) /\ ~ Absent(p)
  BY <1>1, <1>2 DEF ObjInv, IdInv, RowThere, Aimed, Checked, DeleteSteps
<1>4. /\ sweep' = sweep /\ \A q : Holds(q)' = Holds(q) /\ activities' = activities
      /\ \A g \in Handlers \ {h} : req'[g] = req[g]
  BY <1>1, <1>2, GotoKeeps
     DEF MarkDeleted, SoftDelete, clusterVars, Holds, GotoIf, Finish, ServiceTypeOK
<1>5. /\ mishap \subseteq mishap'
      /\ o = "err" => <<"row", p>> \in mishap'
      /\ o = "lost" => <<"log", p>> \in mishap'
      /\ \A q : q # p => \A w : <<w, q>> \in mishap' <=> <<w, q>> \in mishap
  BY <1>2, LeavesMore DEF MarkDeleted, When
<1>6. /\ o = "ok" /\ Visible(p) => req'[h].pc = "logStopped" /\ req'[h].id = p
      /\ ~ (o = "ok" /\ Visible(p)) => req'[h] = Idle
  BY <1>1, <1>2, GotoKeeps DEF MarkDeleted, GotoIf, Finish, ServiceTypeOK
<1>7. /\ \A q \in PulseIDs \ {p} : pods'[q] = pods[q]
      /\ pods'[p].status = pods[p].status
      /\ pods'[p].deleted = IF Takes(o) /\ Visible(p) THEN TRUE ELSE pods[p].deleted
  BY <1>1, <1>2 DEF MarkDeleted, SoftDelete, StoreTypeOK, Rows
<1>8. Touches(h, p)
  BY <1>4, <1>5, <1>6, <1>7 DEF Touches, Untouched
<1>9. ~ Absent(p)' /\ (Live(p)' => Live(p)) /\ (Takes(o) => ~ Live(p)')
  BY <1>3, <1>7 DEF Absent, Live, Visible
<1>10. Loose(p) = {} /\ Loose(p)' = {}
  <2>1. Loose(p) \subseteq InHand("softDelete")
    BY <1>1, <1>2, <1>3 DEF PulseInv, HandlerFits, DeleteSteps
  <2> QED BY <1>4, <1>5, <2>1, EmptyHands DEF Loose
<1>11. HandlerFits(h, p)'
  BY <1>6, IdleFits DEF HandlerFits, BeforeRow, QuotaSteps, NamespaceSteps, CreateSteps,
     UndoSteps, DeleteSteps
<1>12. ASSUME NEW g \in Handlers \ {h}, req'[g].id = p PROVE HandlerFits(g, p)'
  <2>1. HandlerFits(g, p) /\ req[g].pc \notin BeforeRow /\ req'[g] = req[g]
    BY <1>3, <1>4, <1>12 DEF PulseInv, IdInv, RowLater
  <2> QED BY <1>3, <1>5, <1>10, <2>1 DEF HandlerFits
<1>13. HasObjects(p)' /\ Kept(p)'
  BY <1>5, <1>9, <1>10 DEF HasObjects, Kept, Takes
<1>14. Logged(p)'
  <2>1. \A a \in {"logCreated", "logStopped"} : Logging(a, p) => Logging(a, p)'
    BY <1>1, <1>4 DEF Logging
  <2>2. CASE o = "ok" /\ Visible(p)
    <3>1. Logging("logStopped", p)'
      BY <1>6, <2>2 DEF Logging
    <3> QED BY <1>3, <1>4, <1>5, <2>1, <3>1 DEF PulseInv, Logged
  <2>3. CASE o = "lost"
    BY <1>5, <2>3 DEF Logged
  <2>4. CASE o # "lost" /\ ~ (o = "ok" /\ Visible(p))
    <3>1. pods'[p].deleted = pods[p].deleted
      BY <1>7, <2>4 DEF Takes, Outcomes
    <3> QED BY <1>3, <1>4, <1>5, <2>1, <3>1 DEF PulseInv, Logged
  <2> QED BY <2>2, <2>3, <2>4
<1>15. sweep'.cur = p => SweepFits(p)'
  BY <1>3, <1>4, <1>9, <1>10 DEF PulseInv, SweepFits
<1>16. PulseInv(p)'
  BY <1>9, <1>11, <1>12, <1>13, <1>14, <1>15 DEF PulseInv
<1> QED BY <1>2, <1>8, <1>16, OnePulse

-----------------------------------------------------------------------------
(* The other steps. *)

\* A step that touches no pulse and moves no handler, with the sweep between two
\* pods.
LEMMA QuietInv ==
  ASSUME ObjInv, \A q \in PulseIDs : Untouched(q),
         \A g \in Handlers : req'[g].pc = req[g].pc /\ req'[g].id = req[g].id,
         \A q \in PulseIDs : q \in sweep'.queue \cup {sweep'.cur} => ~ Absent(q),
         sweep' = sweep \/ (sweep.pc \in Between /\ sweep'.pc \in Between)
  PROVE  ObjInv'
<1> SUFFICES ASSUME NEW q \in PulseIDs PROVE PulseInv(q)'
  BY DEF ObjInv
<1>1. sweep' = sweep \/ (/\ InHand(sweep.pc) = {} /\ InHand(sweep'.pc) = {}
                         /\ sweep'.pc \notin TearDown)
  BY EmptyHands DEF Between, TearDown
<1>2. /\ \A k : Attended(k, q)' <=> Attended(k, q)
      /\ q \in BeingDeleted' <=> q \in BeingDeleted
      /\ \A a : Logging(a, q)' <=> Logging(a, q)
  BY <1>1 DEF Attended, BeingDeleted, Logging
<1>3. PulseInv(q)
  BY DEF ObjInv
<1>4. \A g \in Handlers : req'[g].id = q => HandlerFits(g, q)'
  BY <1>3, UntouchedKeeps DEF PulseInv, HandlerFits
<1>5. sweep'.cur = q => SweepFits(q)'
  BY <1>1, <1>3, UntouchedKeeps DEF PulseInv, SweepFits
<1>6. HasObjects(q)' /\ Kept(q)' /\ Logged(q)'
  BY <1>2, <1>3, UntouchedKeeps DEF PulseInv, HasObjects, Kept, Logged
<1> QED BY <1>3, <1>4, <1>5, <1>6, UntouchedKeeps DEF PulseInv

\* The arrival of a request, and of its client's farewell.
LEMMA ClientObjInv ==
  ASSUME TypeOK, ObjInv, NEW h \in Handlers, ClientStep(h), UNCHANGED sweep
  PROVE  ObjInv'
<1>1. ServiceTypeOK
  BY DEF TypeOK
<1>2. ASSUME NEW pc \in {"getQuota", "ownDelete", "ownTouch"}, NEW p \in PulseIDs, NEW u, NEW z,
             Arrive(h, pc, p, u, z), pc = "getQuota" => Holds(p) = {}
      PROVE  ObjInv'
  <2> SUFFICES ASSUME NEW q \in PulseIDs PROVE PulseInv(q)'
    BY DEF ObjInv
  <2>1. /\ \A g \in Handlers \ {h} : req'[g] = req[g]
        /\ req'[h].pc = pc /\ req'[h].id = p /\ req[h].pc = "idle"
        /\ UNCHANGED <<mishap, objects, pods, activities, sweep>>
    BY <1>1, <1>2 DEF Arrive, At, runtimeVars, clusterVars, storeVars, ServiceTypeOK
  <2>2. Untouched(q)
    BY <2>1, ReadsUntouched
  <2>3. /\ pc \notin UndoSteps \cup DeleteSteps \cup LogSteps
        /\ InHand(pc) = {} /\ InHand("idle") = {}
    BY EmptyHands DEF Plain, QuotaSteps, LookupSteps, UndoSteps, DeleteSteps, LogSteps
  <2>4. /\ \A k : Attended(k, q)' <=> Attended(k, q)
        /\ q \in BeingDeleted' <=> q \in BeingDeleted
        /\ \A a \in LogSteps : Logging(a, q)' <=> Logging(a, q)
    BY <2>1, <2>3, IdleFits DEF Attended, BeingDeleted, Logging
  <2>5. p = q => HandlerFits(h, q)'
    BY <1>2, <2>1, <2>2, <2>3, UntouchedKeeps DEF HandlerFits, BeforeRow, QuotaSteps,
       NamespaceSteps, CreateSteps
  <2>6. PulseInv(q)
    BY DEF ObjInv
  <2>7. \A g \in Handlers : req'[g].id = q => HandlerFits(g, q)'
    BY <2>1, <2>2, <2>5, <2>6, UntouchedKeeps DEF PulseInv, HandlerFits
  <2>8. HasObjects(q)' /\ Kept(q)' /\ Logged(q)'
    BY <2>1, <2>2, <2>4, <2>6, UntouchedKeeps DEF PulseInv, HasObjects, Kept, Logged, LogSteps
  <2> QED BY <2>1, <2>2, <2>6, <2>7, <2>8, UntouchedKeeps DEF PulseInv, SweepFits
<1>3. CASE StartProvision(h) \/ StartDelete(h) \/ StartTouch(h)
  BY <1>2, <1>3 DEF StartProvision, StartDelete, StartTouch, Fresh
<1>4. CASE Disconnect(h)
  <2>1. \A g \in Handlers : req'[g].pc = req[g].pc /\ req'[g].id = req[g].id
    BY <1>1, <1>4, BusyRequest DEF Disconnect, At, ServiceTypeOK, Requests
  <2>2. \A q \in PulseIDs : Untouched(q)
    BY <1>4, ReadsUntouched DEF Disconnect, clusterVars, storeVars
  <2> QED BY <2>1, <2>2, QuietInv DEF ObjInv, PulseInv
<1> QED BY <1>3, <1>4 DEF ClientStep

\* The end of the process: nobody comes to what is unfinished.
LEMMA EndsObjInv ==
  ASSUME TypeOK, ObjInv, Ends
  PROVE  ObjInv'
<1> SUFFICES ASSUME NEW q \in PulseIDs PROVE PulseInv(q)'
  BY DEF ObjInv
<1>1. /\ mishap' = mishap \cup Unfinished /\ sweep' = Stopped
      /\ \A h \in Handlers : req'[h] = Idle
      /\ UNCHANGED <<objects, pods, activities>>
  BY DEF Ends, clusterVars, storeVars
<1>2. sweep'.queue = {} /\ sweep'.cur = None /\ None # q
  BY <1>1, IdsAssumption DEF Stopped, Waiting
<1>3. /\ Holds(q)' = Holds(q) /\ (Absent(q)' <=> Absent(q)) /\ (Live(q)' <=> Live(q))
  BY <1>1 DEF Holds, Absent, Live
<1>4. PulseInv(q)
  BY DEF ObjInv
<1>5. HasObjects(q)'
  <2>1. q \in BeingDeleted => <<"row", q>> \in Unfinished
    BY DEF Unfinished
  <2> QED BY <1>1, <1>3, <1>4, <2>1 DEF PulseInv, HasObjects
<1>6. Kept(q)'
  <2> SUFFICES ASSUME NEW k \in Loose(q)', ~ Live(q) PROVE FALSE
    BY <1>3 DEF Kept
  <2>1. k \in Loose(q) /\ <<k, q>> \in objects /\ <<k, q>> \notin Unfinished
    BY <1>1, <1>3 DEF Loose, Holds
  <2>2. Attended(k, q)
    BY <1>4, <2>1 DEF PulseInv, Kept
  <2> QED BY <2>1, <2>2 DEF Unfinished
<1>7. Logged(q)'
  <2>1. \A a \in LogSteps : Logging(a, q) => <<"log", q>> \in Unfinished
    BY DEF Unfinished
  <2> QED BY <1>1, <1>3, <1>4, <2>1 DEF PulseInv, Logged, LogSteps
<1> QED BY <1>1, <1>2, <1>3, <1>4, <1>5, <1>6, <1>7, IdleFits DEF PulseInv
-----------------------------------------------------------------------------
(* The sweep. *)

\* A step of the sweep on pod p leaves the others alone.
LEMMA SweepElsewhere ==
  ASSUME ObjInv, NEW p, NEW q \in PulseIDs \ {p}, sweep.cur = p, Untouched(q), UNCHANGED req,
         sweep'.queue = sweep.queue, sweep'.cur \in {p, None}
  PROVE  PulseInv(q)'
<1>1. sweep.cur # q /\ sweep'.cur # q
  BY IdsAssumption
<1>2. /\ \A k : Attended(k, q)' <=> Attended(k, q)
      /\ q \in BeingDeleted' <=> q \in BeingDeleted
      /\ \A a : Logging(a, q)' <=> Logging(a, q)
  BY <1>1 DEF Attended, BeingDeleted, Logging
<1>3. PulseInv(q)
  BY DEF ObjInv
<1>4. \A g \in Handlers : req'[g].id = q => HandlerFits(g, q)'
  BY <1>3, UntouchedKeeps DEF PulseInv, HandlerFits
<1>5. HasObjects(q)' /\ Kept(q)' /\ Logged(q)'
  BY <1>2, <1>3, UntouchedKeeps DEF PulseInv, HasObjects, Kept, Logged
<1> QED BY <1>1, <1>3, <1>4, <1>5, UntouchedKeeps DEF PulseInv

\* What a step of cleanupPod takes away, and what it leaves to nobody.
LEMMA CleanupLoose ==
  ASSUME NEW p, sweep.cur = p, NEW o \in Outcomes, CleanupStep(o)
  PROVE  /\ Holds(p)' \subseteq Holds(p)
         /\ Loose(p)' \subseteq Loose(p)
         /\ Mark(o) \/ SweepLog(o) => Holds(p)' = Holds(p)
         /\ Mark(o) /\ o = "lost" => Loose(p)' = {}
         /\ mishap \subseteq mishap'
         /\ \A w : w \notin Kinds => (<<w, p>> \in mishap' <=> <<w, p>> \in mishap)
         /\ \A q : q # p => /\ Holds(q)' = Holds(q)
                            /\ \A w : <<w, q>> \in mishap' <=> <<w, q>> \in mishap
<1> DEFINE Goal(ws) ==
      /\ mishap \subseteq mishap'
      /\ \A w : w \notin ws => (<<w, p>> \in mishap' <=> <<w, p>> \in mishap)
      /\ \A q : q # p => \A w : <<w, q>> \in mishap' <=> <<w, q>> \in mishap
<1>1. CASE Mark(o)
  <2>1. \A q : Holds(q)' = Holds(q)
    BY <1>1 DEF Mark, clusterVars, Holds
  <2>2. Goal(Kinds) /\ (o = "lost" => \A k \in Kinds : <<k, p>> \in mishap')
    BY <1>1, LeavesMore DEF Mark, When
  <2>3. Loose(p)' \subseteq Loose(p) /\ (o = "lost" => Loose(p)' = {})
    BY <2>1, <2>2, HoldsKinds DEF Loose
  <2> QED BY <1>1, <2>1, <2>2, <2>3
<1>2. CASE SweepLog(o)
  BY <1>2 DEF SweepLog, clusterVars, Holds, Loose, Mark, SweepCall, SweepAt
<1>3. ASSUME ~ Mark(o), ~ SweepLog(o)
      PROVE  \E k \in Kinds, ws \in SUBSET Kinds : DeleteObject(k, p, o) /\ Leaves(ws, p)
  <2> USE DEF SweepDeletes, LeftBy, When, Kinds
  <2>1. CASE SweepDelService(o)
    BY <2>1 DEF SweepDelService
  <2>2. CASE SweepDelPod(o)
    BY <2>2 DEF SweepDelPod
  <2>3. CASE SweepDelPVC(o)
    BY <2>3 DEF SweepDelPVC
  <2>4. CASE SweepDelPV(o)
    BY <2>4 DEF SweepDelPV
  <2> QED BY <1>3, <2>1, <2>2, <2>3, <2>4 DEF CleanupStep
<1>4. CASE ~ Mark(o) /\ ~ SweepLog(o)
  <2>1. PICK k \in Kinds, ws \in SUBSET Kinds : DeleteObject(k, p, o) /\ Leaves(ws, p)
    BY <1>3, <1>4
  <2>2. Holds(p)' \subseteq Holds(p) /\ \A q : q # p => Holds(q)' = Holds(q)
    BY <2>1, DeleteHolds
  <2>3. Goal(Kinds)
    BY <2>1, LeavesMore
  <2>4. Loose(p)' \subseteq Loose(p)
    BY <2>2, <2>3 DEF Loose
  <2> QED BY <1>4, <2>2, <2>3, <2>4
<1> QED BY <1>1, <1>2, <1>4

\* The teardown goes on with what is left to account for in hand, or is done.
LEMMA TearDownGoes ==
  ASSUME SweepTypeOK, NEW p, sweep.cur = p, NEW o \in Outcomes, CleanupStep(o), ~ Mark(o),
         Loose(p) \subseteq InHand(sweep.pc)
  PROVE  \/ sweep'.cur = None /\ Loose(p)' = {}
         \/ sweep'.cur = p /\ sweep'.pc \in TearDown /\ Loose(p)' \subseteq InHand(sweep'.pc)
<1> USE DEF SweepDeletes, SweepCall, SweepAt, SweepTo, TearDown
<1>1. CASE SweepDelService(o)
  <2>1. Loose(p)' \subseteq {"pv", "pvc", "pod"}
    BY <1>1, HoldsKinds, DeleteLoose DEF SweepDelService, Kinds
  <2>2. sweep'.pc = "delPod" /\ sweep'.cur = p
    BY <1>1 DEF SweepDelService, SweepTypeOK
  <2> QED BY <2>1, <2>2, FullHands
<1>2. CASE SweepDelPod(o)
  <2>1. Loose(p) \subseteq {"pv", "pvc", "pod"}
    BY <1>2, FullHands DEF SweepDelPod
  <2>2. CASE o = "ok"
    <3>1. Holds(p)' = Holds(p) \ {"pod"}
      BY <1>2, <2>2, DeleteHolds DEF SweepDelPod, Takes, Kinds
    <3>2. mishap \subseteq mishap' /\ <<"pvc", p>> \in mishap' /\ <<"pv", p>> \in mishap'
      BY <1>2, <2>2, LeavesMore DEF SweepDelPod
    <3>3. Loose(p)' = {}
      BY <2>1, <3>1, <3>2 DEF Loose
    <3>4. sweep'.pc = "panic" /\ sweep'.cur = p
      BY <1>2, <2>2 DEF SweepDelPod, SweepTypeOK
    <3> QED BY <3>3, <3>4
  <2>3. CASE o # "ok"
    <3>1. Loose(p)' \subseteq {"pv", "pvc"}
      BY <1>2, <2>1, <2>3, DeleteLoose DEF SweepDelPod, Kinds
    <3>2. sweep'.pc = "delPVC" /\ sweep'.cur = p
      BY <1>2, <2>3 DEF SweepDelPod, SweepTypeOK
    <3> QED BY <3>1, <3>2, FullHands
  <2> QED BY <2>2, <2>3
<1>3. CASE SweepDelPVC(o)
  <2>1. Loose(p) \subseteq {"pv", "pvc"}
    BY <1>3, FullHands DEF SweepDelPVC
  <2>2. Loose(p)' \subseteq {"pv"} /\ (o # "ok" => Loose(p)' = {})
    BY <1>3, <2>1, DeleteLoose DEF SweepDelPVC, Kinds
  <2>3. sweep'.pc = (IF o = "ok" THEN "delPV" ELSE "log") /\ sweep'.cur = p
    BY <1>3 DEF SweepDelPVC, SweepTypeOK
  <2> QED BY <2>2, <2>3, FullHands
<1>4. CASE SweepDelPV(o)
  <2>1. Loose(p) \subseteq {"pv"}
    BY <1>4, FullHands DEF SweepDelPV
  <2>2. Loose(p)' = {}
    BY <1>4, <2>1, DeleteLoose DEF SweepDelPV, Kinds
  <2>3. sweep'.pc = "log" /\ sweep'.cur = p
    BY <1>4 DEF SweepDelPV, SweepTypeOK
  <2> QED BY <2>2, <2>3
<1>5. CASE SweepLog(o)
  <2>1. Loose(p) = {} /\ Loose(p)' \subseteq Loose(p)
    BY <1>5, EmptyHands, CleanupLoose DEF SweepLog
  <2>2. sweep'.cur = None
    BY <1>5 DEF SweepLog, NextPod, SweepTypeOK
  <2> QED BY <2>1, <2>2
<1> QED BY <1>1, <1>2, <1>3, <1>4, <1>5 DEF CleanupStep

\* What the steps of cleanupPod have in common.
LEMMA CleanupObjInv ==
  ASSUME TypeOK, IdInv, ObjInv, NEW o \in Outcomes, CleanupStep(o), UNCHANGED req
  PROVE  ObjInv'
<1>1. /\ sweep.cur \in PulseIDs /\ SweepTypeOK /\ StoreTypeOK
      /\ sweep'.queue = sweep.queue /\ sweep'.cur \in {sweep.cur, None}
  BY IdsAssumption DEF TypeOK, CleanupStep, Mark, SweepDelService, SweepDelPod, SweepDelPVC,
     SweepDelPV, SweepLog, SweepDeletes, SweepCall, SweepAt, SweepTypeOK, SweepTo, NextPod
<1>2. PICK p \in PulseIDs : sweep.cur = p
  BY <1>1
<1>3. PulseInv(p) /\ ~ Absent(p)
  BY <1>2 DEF ObjInv, PulseInv
<1>4. /\ Holds(p)' \subseteq Holds(p) /\ Loose(p)' \subseteq Loose(p) /\ mishap \subseteq mishap'
      /\ Mark(o) \/ SweepLog(o) => Holds(p)' = Holds(p)
      /\ Mark(o) /\ o = "lost" => Loose(p)' = {}
      /\ \A w : w \notin Kinds => (<<w, p>> \in mishap' <=> <<w, p>> \in mishap)
      /\ \A q : q # p => /\ Holds(q)' = Holds(q)
                         /\ \A w : <<w, q>> \in mishap' <=> <<w, q>> \in mishap
  BY <1>2, CleanupLoose
<1>5. /\ \A q \in PulseIDs \ {p} : pods'[q] = pods[q]
      /\ pods'[p].deleted = pods[p].deleted
      /\ Mark(o) /\ Takes(o) /\ Visible(p) => pods'[p].status = "expired"
      /\ ~ (Mark(o) /\ Takes(o) /\ Visible(p)) => pods'[p] = pods[p]
      /\ Absent(p)' <=> Absent(p)
  <2>1. CASE Mark(o)
    BY <1>1, <1>2, <1>3, <2>1 DEF Mark, UpdateStatus, StoreTypeOK, Rows, Absent, Takes
  <2>2. CASE ~ Mark(o)
    BY <2>2 DEF CleanupStep, SweepDelService, SweepDelPod, SweepDelPVC, SweepDelPV, SweepLog,
       SweepDeletes, LogActivity, storeVars, Absent
  <2> QED BY <2>1, <2>2
<1>6. /\ \A q \in PulseIDs \ {p}, t \in ActivityTypes :
           <<t, q>> \in activities' <=> <<t, q>> \in activities
      /\ activities \subseteq activities'
  BY <1>2 DEF CleanupStep, Mark, UpdateStatus, SweepDelService, SweepDelPod, SweepDelPVC,
     SweepDelPV, SweepLog, SweepDeletes, LogActivity, storeVars
<1>7. \A q \in PulseIDs \ {p} : Untouched(q)
  BY <1>4, <1>5, <1>6 DEF Untouched
<1>8. \A q \in PulseIDs \ {p} : PulseInv(q)'
  BY <1>1, <1>2, <1>7, SweepElsewhere
<1>9. ~ Absent(p)' /\ (Live(p)' => Live(p))
  BY <1>3, <1>5 DEF Live
<1>10. ASSUME NEW g \in Handlers, req'[g].id = p PROVE HandlerFits(g, p)'
  <2>1. HandlerFits(g, p) /\ req[g].pc \notin BeforeRow /\ req'[g] = req[g]
    BY <1>3, <1>10 DEF PulseInv, IdInv, RowLater
  <2> QED BY <1>3, <1>4, <2>1 DEF HandlerFits
<1>11. Logged(p)'
  <2>1. \A a : Logging(a, p)' <=> Logging(a, p)
    BY DEF Logging
  <2>2. "log" \notin Kinds
    BY DEF Kinds
  <2> QED BY <1>3, <1>4, <1>5, <1>6, <2>1, <2>2 DEF PulseInv, Logged
<1>12. /\ sweep'.cur = p => SweepFits(p)'
       /\ HasObjects(p)' /\ Kept(p)'
  <2>1. CASE Mark(o) /\ o = "ok" /\ Visible(p)
    <3>1. ~ Live(p)'
      BY <1>5, <2>1 DEF Live, Takes
    <3>2. sweep'.pc = "delService" /\ sweep'.cur = p
      BY <1>1, <1>2, <2>1 DEF Mark, SweepTo, SweepTypeOK
    <3>3. Loose(p)' \subseteq InHand(sweep'.pc)
      BY <1>4, <3>2, HoldsKinds, FullHands
    <3> QED BY <3>1, <3>2, <3>3 DEF SweepFits, HasObjects, Kept, Attended
  <2>2. CASE Mark(o) /\ ~ (o = "ok" /\ Visible(p))
    <3>1. sweep'.cur = None /\ sweep.pc = "mark"
      BY <1>1, <1>2, <2>2 DEF Mark, SweepCall, SweepAt, NextPod, SweepTypeOK
    <3>2. HasObjects(p)' /\ Kept(p)'
      <4>1. CASE o = "lost"
        <5>1. ~ Live(p)'
          BY <1>3, <1>5, <2>2, <4>1 DEF Live, Takes, Visible, Absent
        <5> QED BY <1>4, <2>2, <4>1, <5>1 DEF HasObjects, Kept
      <4>2. CASE o # "lost"
        <5>1. pods'[p] = pods[p]
          BY <1>5, <2>2, <4>2 DEF Takes, Outcomes
        <5>2. (Live(p)' <=> Live(p)) /\ (p \in BeingDeleted' <=> p \in BeingDeleted)
          BY <5>1 DEF Live, BeingDeleted
        <5>3. InHand(sweep.pc) = {}
          BY <3>1, EmptyHands DEF Between
        <5>4. \A k : Attended(k, p) => Attended(k, p)'
          BY <5>3 DEF Attended
        <5>5. Holds(p)' = Holds(p) /\ "row" \notin Kinds
          BY <1>4, <2>2 DEF Kinds
        <5> QED BY <1>3, <1>4, <5>2, <5>4, <5>5 DEF PulseInv, HasObjects, Kept
      <4> QED BY <4>1, <4>2
    <3> QED BY <1>2, <3>1, <3>2, IdsAssumption
  <2>3. CASE ~ Mark(o)
    <3>1. sweep.pc \in TearDown
      BY <2>3 DEF CleanupStep, SweepDelService, SweepDelPod, SweepDelPVC, SweepDelPV, SweepLog,
         SweepDeletes, SweepCall, SweepAt, TearDown
    <3>2. ~ Live(p) /\ Loose(p) \subseteq InHand(sweep.pc)
      BY <1>2, <1>3, <3>1 DEF PulseInv, SweepFits
    <3>3. \/ sweep'.cur = None /\ Loose(p)' = {}
          \/ sweep'.cur = p /\ sweep'.pc \in TearDown /\ Loose(p)' \subseteq InHand(sweep'.pc)
      BY <1>1, <1>2, <2>3, <3>2, TearDownGoes
    <3>4. Kept(p)'
      BY <3>3 DEF Kept, Attended
    <3> QED BY <1>9, <3>2, <3>3, <3>4, IdsAssumption DEF HasObjects, SweepFits
  <2> QED BY <2>1, <2>2, <2>3
<1> QED BY <1>8, <1>9, <1>10, <1>11, <1>12 DEF ObjInv, PulseInv

LEMMA SweepObjInv ==
  ASSUME TypeOK, IdInv, ObjInv, SweepStep, UNCHANGED req
  PROVE  ObjInv'
<1>1. \A q \in PulseIDs : q \in sweep.queue \cup {sweep.cur} => ~ Absent(q)
  BY DEF ObjInv, PulseInv
<1> USE DEF SweepAt, Between
<1>2. ASSUME NEW o \in Outcomes, Tick(o) PROVE ObjInv'
  <2>1. sweep'.queue \in {sweep.queue, ExpiredPods} /\ sweep'.cur \in {sweep.cur, None}
        /\ sweep.pc = "waiting" /\ sweep'.pc \in {"waiting", "next"}
    BY <1>2 DEF Tick, Waiting
  <2>2. \A q \in ExpiredPods : ~ Absent(q)
    BY DEF ExpiredPods, Visible, Absent
  <2>3. \A q \in PulseIDs : Untouched(q)
    BY <1>2, ReadsUntouched DEF Tick, clusterVars, storeVars
  <2> QED BY <1>1, <2>1, <2>2, <2>3, IdsAssumption, QuietInv
<1>3. ASSUME NEW p \in PulseIDs, Bill(p) PROVE ObjInv'
  <2>1. sweep'.queue \subseteq sweep.queue /\ sweep'.cur \in sweep.queue
        /\ sweep.pc = "next" /\ sweep'.pc = "mark"
    BY <1>3 DEF Bill
  <2>2. \A q \in PulseIDs : Untouched(q)
    BY <1>3, ReadsUntouched DEF Bill, runtimeVars, clusterVars, storeVars
  <2> QED BY <1>1, <2>1, <2>2, QuietInv
<1>4. CASE EndSweep \/ Stop
  <2>1. sweep'.queue = {} /\ sweep'.cur = None
        /\ sweep.pc \in {"next", "waiting"} /\ sweep'.pc \in {"waiting", "stopped"}
    BY <1>4 DEF EndSweep, Stop, Waiting, Stopped
  <2>2. \A q \in PulseIDs : Untouched(q)
    BY <1>4, ReadsUntouched DEF EndSweep, Stop, runtimeVars, clusterVars, storeVars
  <2> QED BY <2>1, <2>2, IdsAssumption, QuietInv
<1> QED BY <1>2, <1>3, <1>4, CleanupObjInv DEF SweepStep

-----------------------------------------------------------------------------
\* Without a process there is no sweep.
NoSweep == phase = "down" => sweep.pc = "stopped"

LEMMA NoSweepInv ==
  ASSUME TypeOK, NoSweep, [Next]_vars
  PROVE  NoSweep'
<1>1. CASE UNCHANGED <<phase, sweep>>
  BY <1>1 DEF NoSweep
<1>2. ASSUME NEW h \in Handlers, Service(h) PROVE NoSweep'
  BY <1>1, <1>2 DEF Service, HandlerStep, QuotaStep, GetQuota, AddQuota, RegetQuota, Count,
     CreateStep, GetNamespace, AddNamespace, RegetNamespace, AddPV, AddPVC, AddPod, AddService,
     AddRow, LogCreated, UndoStep, UndoService, UndoPod, UndoPVC, UndoPV, DeleteStep, OwnDelete,
     GetDelete, DelService, DelPod, DelPVC, DelPV, MarkDeleted, LogStopped, TouchStep, OwnTouch,
     GetTouch, Touch, Owned, Found, Reads, Creates, Deletes, Logs, sweepVars
<1>3. ASSUME NEW h \in Handlers, Client(h) PROVE NoSweep'
  BY <1>1, <1>3 DEF Client, ClientStep, StartProvision, StartDelete, StartTouch, Arrive,
     Disconnect, runtimeVars, sweepVars
<1>4. CASE Sweep
  <2>1. phase' = phase /\ sweep.pc # "stopped"
    BY <1>4 DEF Sweep, SweepStep, Tick, Bill, EndSweep, Stop, CleanupStep, Mark, SweepDelService,
       SweepDelPod, SweepDelPVC, SweepDelPV, SweepDeletes, SweepLog, SweepCall, SweepAt,
       runtimeVars
  <2> QED BY <2>1 DEF NoSweep
<1>5. ASSUME NEW p \in PulseIDs, Time(p) PROVE NoSweep'
  BY <1>1, <1>5 DEF Time, runtimeVars, sweepVars
<1>6. CASE Process
  BY <1>6 DEF Process, Crash, Die, Shutdown, Exit, Restart, Ends, Stopped, Waiting, NoSweep
<1> QED BY <1>1, <1>2, <1>3, <1>4, <1>5, <1>6 DEF Next, vars, runtimeVars, sweepVars

LEMMA NextObjInv ==
  ASSUME TypeOK, IdInv, NoSweep, ObjInv, [Next]_vars
  PROVE  ObjInv'
<1>1. \A q \in PulseIDs : q \in sweep.queue \cup {sweep.cur} => ~ Absent(q)
  BY DEF ObjInv, PulseInv
<1>2. ASSUME NEW h \in Handlers, Service(h) PROVE ObjInv'
  BY <1>2, PlainStepInv, CreateObjectInv, UndoInv, AddRowInv, LogInv, DeleteObjectInv,
     MarkDeletedInv DEF Service, HandlerStep, CreateStep, DeleteStep, sweepVars
<1>3. ASSUME NEW h \in Handlers, Client(h) PROVE ObjInv'
  BY <1>3, ClientObjInv DEF Client, sweepVars
<1>4. CASE Sweep
  BY <1>4, SweepObjInv DEF Sweep
<1>5. ASSUME NEW p \in PulseIDs, Time(p) PROVE ObjInv'
  <2>1. \A q \in PulseIDs : Untouched(q)
    BY <1>5 DEF Time, Lapse, Untouched, TypeOK, StoreTypeOK, Rows, runtimeVars, clusterVars, Holds
  <2> QED BY <1>1, <1>5, <2>1, QuietInv DEF Time, sweepVars
<1>6. CASE Crash \/ Die \/ Exit
  BY <1>6, EndsObjInv DEF Crash, Die, Exit
<1>7. CASE Shutdown \/ Restart \/ UNCHANGED vars
  <2>1. UNCHANGED <<mishap, objects, pods, activities, req>>
    BY <1>7 DEF Shutdown, Restart, vars, runtimeVars, clusterVars, storeVars
  <2>2. sweep' = sweep \/ (sweep.pc = "stopped" /\ sweep' = Waiting)
    BY <1>7 DEF Shutdown, Restart, NoSweep, vars, sweepVars
  <2> QED BY <1>1, <2>1, <2>2, ReadsUntouched, IdsAssumption, QuietInv DEF Waiting, Between
<1> QED BY <1>2, <1>3, <1>4, <1>5, <1>6, <1>7 DEF Next, Process

LEMMA InitObjInv == Init => ObjInv /\ NoSweep
<1> SUFFICES ASSUME Init PROVE ObjInv /\ NoSweep
  OBVIOUS
<1>1. NoSweep
  BY DEF Init, RuntimeInit, NoSweep
<1>2. ASSUME NEW p \in PulseIDs PROVE PulseInv(p)
  <2>1. Absent(p) /\ ~ pods[p].deleted /\ ~ Live(p) /\ Holds(p) = {} /\ Loose(p) = {}
    BY DEF Init, StoreInit, ClusterInit, NoRow, Absent, Live, Holds, Loose
  <2>2. \A h \in Handlers : req[h].id # p
    BY IdleFits, IdsAssumption DEF Init, ServiceInit
  <2>3. p \notin sweep.queue \cup {sweep.cur}
    BY IdsAssumption DEF Init, SweepInit, Waiting
  <2> QED BY <2>1, <2>2, <2>3 DEF PulseInv, HasObjects, Kept, Logged
<1> QED BY <1>1, <1>2 DEF ObjInv

WholeInv == TypeOK /\ IdInv /\ NoSweep /\ ObjInv

LEMMA Inductive == Spec => []WholeInv
<1>1. Init => WholeInv
  BY InitType, InitIdInv, InitObjInv DEF WholeInv
<1>2. WholeInv /\ [Next]_vars => WholeInv'
  BY NextType, NextIdInv, NoSweepInv, NextObjInv DEF WholeInv
<1> QED BY <1>1, <1>2, PTL DEF Spec

(* A pod the API lists as pending has its volume, claim, pod and service,  *)
(* whatever fails: unless its owner's DELETE is under way, or its row is   *)
(* wrong for good (inserted although the insert reported an error, kept by *)
(* a failed soft delete, or by a stop of the process within a deletion).   *)
THEOREM AlwaysBacked == Spec => []Backed
<1>1. WholeInv => Backed
  BY DEF WholeInv, ObjInv, PulseInv, HasObjects, Backed
<1> QED BY <1>1, Inductive, PTL

(* Object by object: what exists in the cluster belongs to a live row, or  *)
(* a goroutine still comes to it, or it is one that the code abandons, in  *)
(* one of the ways that NothingForgotten names.  A failed call therefore   *)
(* costs the objects named there and no other of the pulse.                *)
THEOREM NothingLeft == Spec => []NothingForgotten
<1>1. WholeInv => NothingForgotten
  BY DEF WholeInv, ObjInv, PulseInv, Kept, Loose, NothingForgotten
<1> QED BY <1>1, Inductive, PTL

(* A pod that exists was logged as created, and one that its owner deleted *)
(* as stopped, or the handler is about to do so; unless the log call       *)
(* failed, the row call before it took effect but reported an error, or    *)
(* the process stopped between the two.                                    *)
THEOREM LogComplete == Spec => []AuditComplete
<1>1. WholeInv => AuditComplete
  BY DEF WholeInv, ObjInv, PulseInv, Logged, Absent, AuditComplete
<1> QED BY <1>1, Inductive, PTL
=============================================================================
