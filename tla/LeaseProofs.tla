---------------------------- MODULE LeaseProofs ----------------------------
(***************************************************************************)
(* The table of pods implements the lease table: every step of a request,  *)
(* of the sweep, of the clock or of the process is a step of the lease     *)
(* table or leaves it alone, whatever the number of pulses, users and      *)
(* handlers.  What a step of the service relies on are the invariants of   *)
(* the other proof modules: an insert finds no row, the quota bounds the   *)
(* pods of a user, and a pod in the hands of the sweep has a row.          *)
(***************************************************************************)
EXTENDS AccountProofs

leaseBar == [p \in PulseIDs |-> LeaseOf(pods[p])]
ownerBar == [p \in PulseIDs |-> pods[p].user]
dueBar == {p \in PulseIDs : pods[p].lapsed}
noticedBar == sweep.queue \cup InSweep

\* A row that is not there has no time that could have passed.
NothingLapsed == \A p \in PulseIDs : Absent(p) => ~ pods[p].lapsed

LEMMA LeaseOfRow ==
  ASSUME StoreTypeOK, NEW p \in PulseIDs, Absent(p) => ~ pods[p].deleted
  PROVE  /\ LeaseOf(pods[p]) = "free" <=> Absent(p)
         /\ LeaseOf(pods[p]) = "held" <=> Live(p)
         /\ LeaseOf(pods[p]) = "expired" <=> pods[p].status = "expired" /\ ~ pods[p].deleted
         /\ LeaseOf(pods[p]) = "released" <=> pods[p].deleted
<1>1. pods[p].status \in {"absent", "pending", "expired"}
  BY DEF StoreTypeOK, Rows, Statuses
<1>2. pods[p].deleted \in BOOLEAN
  BY DEF StoreTypeOK, Rows
<1> QED BY <1>1, <1>2 DEF LeaseOf, Absent, Live

-----------------------------------------------------------------------------
(* What a step does to the rows: nothing, or one of five things to one row.*)

\* The row of p becomes r.
Becomes(p, r) == pods' = [pods EXCEPT ![p] = r]

Inserted(p, u) ==
  /\ Absent(p)
  /\ Becomes(p, [status |-> "pending", deleted |-> FALSE, lapsed |-> FALSE, user |-> u])

Renewed(p) == Visible(p) /\ Becomes(p, [pods[p] EXCEPT !.lapsed = FALSE])
Released(p) == Visible(p) /\ Becomes(p, [pods[p] EXCEPT !.deleted = TRUE])
Expired(p) == Visible(p) /\ Becomes(p, [pods[p] EXCEPT !.status = "expired"])
Lapsed(p) == Live(p) /\ ~ pods[p].lapsed /\ Becomes(p, [pods[p] EXCEPT !.lapsed = TRUE])

LEMMA HandlerRows ==
  ASSUME StoreTypeOK, ServiceTypeOK, IdInv, NEW h \in Handlers, HandlerStep(h)
  PROVE  \/ UNCHANGED pods
         \/ \E p \in PulseIDs : Renewed(p) \/ Released(p)
         \/ /\ req[h].pc = "addRow" /\ req[h] \in Requests
            /\ Inserted(req[h].id, req[h].user)
<1>1. PICK o \in Outcomes : \/ QuotaStep(h, o) \/ CreateStep(h, o) \/ UndoStep(h, o)
                            \/ DeleteStep(h, o) \/ TouchStep(h, o)
  BY DEF HandlerStep
<1>2. CASE AddRow(h, o)
  <2>1. req[h] \in Requests /\ req[h].pc = "addRow" /\ req[h].pc \in BeforeRow
    BY <1>2, BusyRequest DEF AddRow, At, BeforeRow, CreateSteps
  <2> QED BY <1>2, <2>1 DEF AddRow, InsertRow, IdInv, RowLater, Inserted, Becomes
<1>3. CASE MarkDeleted(h, o)
  <2>1. req[h].id \in PulseIDs
    BY <1>3, BusyRequest DEF MarkDeleted, At, Requests
  <2> QED BY <1>3, <2>1 DEF MarkDeleted, SoftDelete, Released, Becomes
<1>4. CASE Touch(h, o)
  <2>1. req[h].id \in PulseIDs
    BY <1>4, BusyRequest DEF Touch, At, Requests
  <2> QED BY <1>4, <2>1 DEF Touch, UpdateActivity, Renewed, Becomes
<1>5. CASE QuotaStep(h, o)
  BY <1>5 DEF QuotaStep, GetQuota, AddQuota, RegetQuota, Count, Reads, storeVars
<1>6. CASE CreateStep(h, o) /\ ~ AddRow(h, o)
  BY <1>6 DEF CreateStep, GetNamespace, AddNamespace, RegetNamespace, AddPV,
     AddPVC, AddPod, AddService, LogCreated, Reads, Creates, Logs, LogActivity, storeVars
<1>7. CASE UndoStep(h, o)
  BY <1>7 DEF UndoStep, UndoService, UndoPod, UndoPVC, UndoPV, Deletes, storeVars
<1>8. CASE DeleteStep(h, o) /\ ~ MarkDeleted(h, o)
  BY <1>8 DEF DeleteStep, OwnDelete, GetDelete, DelService, DelPod, DelPVC,
     DelPV, LogStopped, Owned, Found, Reads, Deletes, Logs, LogActivity, storeVars
<1>9. CASE TouchStep(h, o) /\ ~ Touch(h, o)
  BY <1>9 DEF TouchStep, OwnTouch, GetTouch, Owned, Found, Reads, storeVars
<1> QED BY <1>1, <1>2, <1>3, <1>4, <1>5, <1>6, <1>7, <1>8, <1>9

\* The snapshot of the sweep holds live rows that are due.  It shrinks to
\* nothing when the sweep ends or its process does.
Noticing ==
  /\ UNCHANGED pods
  /\ noticedBar' \subseteq noticedBar \cup {p \in dueBar : Live(p)}

Expiring(p) ==
  /\ p \in noticedBar
  /\ Expired(p)
  /\ noticedBar' \in {noticedBar, noticedBar \ {p}}

LEMMA SweepRows ==
  ASSUME StoreTypeOK, SweepTypeOK, SweepStep
  PROVE  Noticing \/ \E p \in PulseIDs : Expiring(p)
<1> USE DEF SweepAt, noticedBar, InSweep
<1>1. ASSUME NEW o \in Outcomes, Tick(o) PROVE Noticing
  <2>1. ExpiredPods \subseteq {p \in dueBar : Live(p)}
    BY DEF ExpiredPods, Visible, Live, dueBar, StoreTypeOK, Rows, Statuses
  <2>2. sweep' = sweep \/ (sweep'.queue = ExpiredPods /\ sweep'.cur = None)
    BY <1>1 DEF Tick, Waiting
  <2> QED BY <1>1, <2>1, <2>2 DEF Tick, storeVars, Noticing
<1>2. ASSUME NEW p \in PulseIDs, Bill(p) PROVE Noticing
  <2>1. p \in sweep.queue /\ sweep'.queue = sweep.queue \ {p} /\ sweep'.cur = p
    BY <1>2 DEF Bill
  <2> QED BY <1>2, <2>1 DEF Bill, storeVars, Noticing
<1>3. CASE EndSweep \/ Stop
  BY <1>3 DEF EndSweep, Stop, Waiting, Stopped, storeVars, Noticing
<1>4. ASSUME NEW o \in Outcomes, CleanupStep(o)
      PROVE  Noticing \/ \E p \in PulseIDs : Expiring(p)
  <2>1. /\ sweep.cur \in PulseIDs /\ InSweep = {sweep.cur}
        /\ sweep'.queue = sweep.queue /\ sweep'.cur \in {sweep.cur, None}
    BY <1>4, IdsAssumption DEF CleanupStep, Mark, SweepDelService, SweepDelPod, SweepDelPVC,
       SweepDelPV, SweepLog, SweepDeletes, SweepCall, SweepTypeOK, SweepTo, NextPod
  <2>2. PICK p \in PulseIDs : sweep.cur = p
    BY <2>1
  <2>3. noticedBar' \in {noticedBar, noticedBar \ {p}}
    BY <2>1, <2>2
  <2>4. UNCHANGED pods \/ Expired(p)
    BY <1>4, <2>2 DEF CleanupStep, Mark, UpdateStatus, SweepDelService, SweepDelPod,
       SweepDelPVC, SweepDelPV, SweepLog, SweepDeletes, LogActivity, storeVars, Expired, Becomes
  <2> QED BY <2>2, <2>3, <2>4, IdsAssumption DEF Noticing, Expiring
<1> QED BY <1>1, <1>2, <1>3, <1>4 DEF SweepStep

\* A step of the service, seen through the rows.
LEMMA StepRows ==
  ASSUME TypeOK, IdInv, [Next]_vars
  PROVE  \/ Noticing
         \/ \E p \in PulseIDs :
              \/ Expiring(p)
              \/ UNCHANGED sweep /\ (Renewed(p) \/ Released(p) \/ Lapsed(p))
         \/ \E h \in Handlers : /\ req[h].pc = "addRow" /\ req[h] \in Requests
                                /\ Inserted(req[h].id, req[h].user) /\ UNCHANGED sweep
<1>1. StoreTypeOK /\ ServiceTypeOK /\ SweepTypeOK
  BY DEF TypeOK
<1>2. UNCHANGED <<pods, sweep>> => Noticing
  BY DEF Noticing, noticedBar, InSweep
<1>3. ASSUME NEW h \in Handlers, Service(h)
      PROVE  \/ Noticing
             \/ \E p \in PulseIDs : UNCHANGED sweep /\ (Renewed(p) \/ Released(p))
             \/ /\ req[h].pc = "addRow" /\ req[h] \in Requests
                /\ Inserted(req[h].id, req[h].user) /\ UNCHANGED sweep
  BY <1>1, <1>2, <1>3, HandlerRows DEF Service, sweepVars
<1>4. ASSUME NEW h \in Handlers, Client(h) PROVE Noticing
  BY <1>2, <1>4 DEF Client, ClientStep, StartProvision, StartDelete, StartTouch, Arrive,
     Disconnect, storeVars, sweepVars
<1>5. CASE Sweep
  BY <1>1, <1>5, SweepRows DEF Sweep
<1>6. ASSUME NEW p \in PulseIDs, Time(p) PROVE UNCHANGED sweep /\ Lapsed(p)
  BY <1>6 DEF Time, Lapse, Visible, Live, Lapsed, Becomes, sweepVars
<1>7. CASE Shutdown \/ UNCHANGED vars
  BY <1>2, <1>7 DEF Shutdown, vars, storeVars, sweepVars
<1>8. CASE Crash \/ Die \/ Exit \/ Restart
  <2>1. UNCHANGED pods /\ sweep'.queue = {} /\ sweep'.cur = None
    BY <1>8 DEF Crash, Die, Exit, Restart, Ends, Waiting, Stopped, storeVars
  <2> QED BY <2>1 DEF Noticing, noticedBar, InSweep
<1> QED BY <1>3, <1>4, <1>5, <1>6, <1>7, <1>8 DEF Next, Process

LEMMA NextNothingLapsed ==
  ASSUME TypeOK, IdInv, NothingLapsed, [Next]_vars
  PROVE  NothingLapsed'
<1>1. pods \in [PulseIDs -> Rows]
  BY DEF TypeOK, StoreTypeOK
<1>2. ASSUME NEW p \in PulseIDs, Renewed(p) \/ Released(p) \/ Lapsed(p) \/ Expired(p)
      PROVE  NothingLapsed'
  BY <1>1, <1>2 DEF Renewed, Released, Lapsed, Expired, Becomes, Live, Visible, Rows,
                    NothingLapsed, Absent
<1>3. ASSUME NEW p \in PulseIDs, NEW u, Inserted(p, u) PROVE NothingLapsed'
  BY <1>1, <1>3 DEF Inserted, Becomes, NothingLapsed, Absent
<1>4. CASE Noticing
  BY <1>4 DEF Noticing, NothingLapsed, Absent
<1> QED BY <1>2, <1>3, <1>4, StepRows DEF Expiring, Requests

-----------------------------------------------------------------------------
(* The steps of the lease table. *)

\* The pods a user holds are the active rows: before an insert they are below
\* the limit by the quota bound, for the inserting handler counts in it.
LEMMA BelowLimit ==
  ASSUME StoreTypeOK, QuotaBound, NEW h \in Handlers, req[h] \in Requests,
         req[h].pc = "addRow", NEW u \in Users, req[h].user = u,
         \A p \in PulseIDs : Absent(p) => ~ pods[p].deleted
  PROVE  Cardinality({p \in PulseIDs : leaseBar[p] = "held" /\ ownerBar[p] = u})
           < [v \in Users |-> Ceiling(v) + Cardinality(Handlers) - 1][u]
<1>1. {p \in PulseIDs : leaseBar[p] = "held" /\ ownerBar[p] = u} = Active(u)
  <2>1. \A p \in PulseIDs : leaseBar[p] = "held" <=> Live(p)
    BY LeaseOfRow DEF leaseBar
  <2> QED BY <2>1 DEF ownerBar, Active, ActiveRow, Live
<1>2. /\ Cardinality(Active(u)) \in Nat /\ Cardinality(Admitted(u)) \in Nat
      /\ Cardinality(Handlers) \in Nat /\ Ceiling(u) \in Nat /\ IsFiniteSet(Admitted(u))
  BY FiniteParts, CeilingType
<1>3. Cardinality(Active(u)) + Cardinality(Admitted(u)) < Ceiling(u) + Cardinality(Handlers)
  BY DEF QuotaBound
<1>4. Cardinality(Admitted(u)) >= 1
  <2>1. h \in Admitted(u)
    BY DEF Admitted, PassedCount, CreateSteps
  <2>2. Cardinality(Admitted(u)) # 0
    BY <1>2, <2>1, FS_EmptySet
  <2> QED BY <1>2, <2>2
<1>5. Cardinality(Active(u)) < Ceiling(u) + Cardinality(Handlers) - 1
  <2>1. \A a, b, c, d \in Nat : a + b < c + d /\ b >= 1 => a + 1 < c + d
    OBVIOUS
  <2> QED BY <1>2, <1>3, <1>4, <2>1
<1> QED BY <1>1, <1>5

\* A change of one row changes one lease, and what the others are stays.
LEMMA OneLease ==
  ASSUME pods \in [PulseIDs -> Rows], NEW p \in PulseIDs, NEW r, Becomes(p, r)
  PROVE  /\ leaseBar' = [leaseBar EXCEPT ![p] = LeaseOf(r)]
         /\ ownerBar' = [ownerBar EXCEPT ![p] = r.user]
         /\ dueBar' = IF r.lapsed THEN dueBar \cup {p} ELSE dueBar \ {p}
<1>1. pods'[p] = r /\ \A q \in PulseIDs \ {p} : pods'[q] = pods[q]
  BY DEF Becomes
<1>2. leaseBar' = [leaseBar EXCEPT ![p] = LeaseOf(r)]
  <2>1. \A q \in PulseIDs : LeaseOf(pods'[q]) = IF q = p THEN LeaseOf(r) ELSE LeaseOf(pods[q])
    BY <1>1
  <2>2. leaseBar' = [q \in PulseIDs |-> LeaseOf(pods'[q])]
    BY DEF leaseBar, LeaseOf
  <2> QED BY <2>1, <2>2 DEF leaseBar
<1>3. ownerBar' = [ownerBar EXCEPT ![p] = r.user]
  BY <1>1 DEF ownerBar
<1>4. dueBar' = IF r.lapsed THEN dueBar \cup {p} ELSE dueBar \ {p}
  BY <1>1 DEF dueBar
<1> QED BY <1>2, <1>3, <1>4

LeaseFits == TypeOK /\ QuotaBound /\ NothingLapsed /\ \A p \in PulseIDs : Absent(p) => ~ pods[p].deleted

LEMMA InsertGrants ==
  ASSUME LeaseFits, NEW h \in Handlers, req[h].pc = "addRow", req[h] \in Requests,
         Inserted(req[h].id, req[h].user), UNCHANGED sweep
  PROVE  Lease!Next
<1>1. PICK p \in PulseIDs, u \in Users : req[h].id = p /\ req[h].user = u
  BY DEF Requests
<1> DEFINE r == [status |-> "pending", deleted |-> FALSE, lapsed |-> FALSE, user |-> u]
<1>2. Absent(p) /\ Becomes(p, r) /\ StoreTypeOK /\ pods \in [PulseIDs -> Rows]
  BY <1>1 DEF Inserted, LeaseFits, TypeOK, StoreTypeOK
<1>3. LeaseOf(r) = "held" /\ r.user = u /\ ~ r.lapsed
  BY DEF LeaseOf
<1> HIDE DEF r
<1>4. /\ leaseBar' = [leaseBar EXCEPT ![p] = "held"]
      /\ ownerBar' = [ownerBar EXCEPT ![p] = u]
      /\ dueBar' = dueBar \ {p}
  BY <1>2, <1>3, OneLease
<1>5. dueBar' = dueBar /\ noticedBar' = noticedBar
  BY <1>2, <1>4 DEF LeaseFits, NothingLapsed, dueBar, noticedBar, InSweep
<1>6. leaseBar[p] = "free"
  BY <1>2, LeaseOfRow DEF leaseBar, LeaseFits
<1>7. Cardinality({q \in PulseIDs : leaseBar[q] = "held" /\ ownerBar[q] = u})
        < [v \in Users |-> Ceiling(v) + Cardinality(Handlers) - 1][u]
  BY <1>1, <1>2, BelowLimit DEF LeaseFits
<1>8. Lease!HeldBy(u) = {q \in PulseIDs : leaseBar[q] = "held" /\ ownerBar[q] = u}
  BY DEF Lease!HeldBy, leaseBar, ownerBar
<1>9. \A S : Lease!Cardinality(S) = Cardinality(S)
  BY DEF Lease!Cardinality, Cardinality
<1>10. Lease!Grant(p, u)
  BY <1>4, <1>5, <1>6, <1>7, <1>8, <1>9 DEF Lease!Grant, leaseBar, ownerBar, dueBar, noticedBar
<1> QED BY <1>10 DEF Lease!Next

\* A use, a deletion, or the passing of the expiry.
LEMMA RowStepLease ==
  ASSUME LeaseFits, NEW p \in PulseIDs, Renewed(p) \/ Released(p) \/ Lapsed(p), UNCHANGED sweep
  PROVE  Lease!Next
<1>1. StoreTypeOK /\ pods \in [PulseIDs -> Rows] /\ pods[p] \in Rows
  BY DEF LeaseFits, TypeOK, StoreTypeOK
<1>2. noticedBar' = noticedBar
  BY DEF noticedBar, InSweep
<1>3. \A f, x : f[p] = x /\ f \in {leaseBar, ownerBar} => [f EXCEPT ![p] = x] = f
  BY DEF leaseBar, ownerBar
<1>4. leaseBar[p] = LeaseOf(pods[p]) /\ ownerBar[p] = pods[p].user
  BY DEF leaseBar, ownerBar
<1>5. Visible(p) => LeaseOf(pods[p]) \in {"held", "expired"}
  BY <1>1 DEF Visible, LeaseOf, Rows, Statuses
<1>6. CASE Renewed(p)
  <2> DEFINE r == [pods[p] EXCEPT !.lapsed = FALSE]
  <2>0. r.status = pods[p].status /\ r.deleted = pods[p].deleted
    BY <1>1 DEF Rows
  <2>1. LeaseOf(r) = LeaseOf(pods[p]) /\ r.user = pods[p].user /\ ~ r.lapsed /\ Becomes(p, r)
    <3>1. r.user = pods[p].user /\ ~ r.lapsed /\ Becomes(p, r)
      BY <1>1, <1>6 DEF Rows, Renewed
    <3> HIDE DEF r
    <3> QED BY <2>0, <3>1 DEF LeaseOf
  <2> HIDE DEF r
  <2>2. leaseBar' = leaseBar /\ ownerBar' = ownerBar /\ dueBar' = dueBar \ {p}
    BY <1>1, <1>3, <1>4, <2>1, OneLease
  <2>3. Lease!Renew(p)
    BY <1>2, <1>4, <1>5, <1>6, <2>2
       DEF Renewed, Lease!Renew, leaseBar, ownerBar, dueBar, noticedBar
  <2> QED BY <2>3 DEF Lease!Next
<1>7. CASE Released(p)
  <2> DEFINE r == [pods[p] EXCEPT !.deleted = TRUE]
  <2>1. /\ LeaseOf(r) = "released" /\ r.user = pods[p].user /\ Becomes(p, r)
        /\ r.lapsed <=> pods[p].lapsed
    BY <1>1, <1>7 DEF LeaseOf, Rows, Released
  <2> HIDE DEF r
  <2>2. /\ leaseBar' = [leaseBar EXCEPT ![p] = "released"] /\ ownerBar' = ownerBar
        /\ dueBar' = dueBar
    BY <1>1, <1>3, <1>4, <2>1, OneLease DEF dueBar
  <2>3. Lease!Release(p)
    BY <1>2, <1>4, <1>5, <1>7, <2>2
       DEF Released, Lease!Release, leaseBar, ownerBar, dueBar, noticedBar
  <2> QED BY <2>3 DEF Lease!Next
<1>8. CASE Lapsed(p)
  <2> DEFINE r == [pods[p] EXCEPT !.lapsed = TRUE]
  <2>0. r.status = pods[p].status /\ r.deleted = pods[p].deleted
    BY <1>1 DEF Rows
  <2>1. LeaseOf(r) = LeaseOf(pods[p]) /\ r.user = pods[p].user /\ r.lapsed /\ Becomes(p, r)
    <3>1. r.user = pods[p].user /\ r.lapsed /\ Becomes(p, r)
      BY <1>1, <1>8 DEF Rows, Lapsed
    <3> HIDE DEF r
    <3> QED BY <2>0, <3>1 DEF LeaseOf
  <2> HIDE DEF r
  <2>2. leaseBar' = leaseBar /\ ownerBar' = ownerBar /\ dueBar' = dueBar \cup {p}
    BY <1>1, <1>3, <1>4, <2>1, OneLease
  <2>3. leaseBar[p] = "held" /\ p \notin dueBar
    BY <1>1, <1>4, <1>8 DEF Lapsed, Live, LeaseOf, dueBar
  <2>4. Lease!FallDue(p)
    BY <1>2, <2>2, <2>3 DEF Lease!FallDue, leaseBar, ownerBar, dueBar, noticedBar
  <2> QED BY <2>4 DEF Lease!Next
<1> QED BY <1>6, <1>7, <1>8

\* The sweep and the process: notice, forget, expire.
LEMMA NoticingLease ==
  ASSUME LeaseFits, Noticing
  PROVE  Lease!Next
<1>1. StoreTypeOK /\ UNCHANGED <<leaseBar, ownerBar, dueBar>>
  BY DEF LeaseFits, TypeOK, Noticing, leaseBar, ownerBar, dueBar, LeaseOf
<1>2. \A p \in PulseIDs : leaseBar[p] = "held" <=> Live(p)
  BY <1>1, LeaseOfRow DEF LeaseFits, leaseBar
<1>3. dueBar \subseteq PulseIDs
  BY DEF dueBar
<1>4. noticedBar' \in SUBSET (noticedBar \cup {p \in dueBar : leaseBar[p] = "held"})
  BY <1>2, <1>3 DEF Noticing
<1>5. Lease!Notice
  BY <1>1, <1>4 DEF Lease!Notice, leaseBar, ownerBar, dueBar, noticedBar
<1> QED BY <1>5 DEF Lease!Next

LEMMA ExpiringLease ==
  ASSUME LeaseFits, NEW p \in PulseIDs, Expiring(p)
  PROVE  Lease!Next
<1> DEFINE r == [pods[p] EXCEPT !.status = "expired"]
<1>1. StoreTypeOK /\ pods \in [PulseIDs -> Rows] /\ pods[p] \in Rows
  BY DEF LeaseFits, TypeOK, StoreTypeOK
<1>2. CASE pods[p].status = "expired"
  <2>1. r = pods[p]
    BY <1>1, <1>2 DEF Rows
  <2>2. pods' = pods
    BY <1>1, <2>1 DEF Expiring, Expired, Becomes
  <2>3. Noticing
    BY <2>2 DEF Expiring, Noticing
  <2> QED BY <2>3, NoticingLease
<1>3. CASE pods[p].status # "expired"
  <2>1. LeaseOf(pods[p]) = "held"
    BY <1>1, <1>3 DEF Expiring, Expired, Visible, LeaseOf, Rows, Statuses
  <2>2. /\ LeaseOf(r) = "expired" /\ r.user = pods[p].user /\ Becomes(p, r)
        /\ r.lapsed <=> pods[p].lapsed
    BY <1>1 DEF Expiring, Expired, Visible, LeaseOf, Rows
  <2> HIDE DEF r
  <2>3. /\ leaseBar' = [leaseBar EXCEPT ![p] = "expired"] /\ leaseBar[p] = "held"
        /\ ownerBar' = ownerBar /\ dueBar' = dueBar
    <3>1. leaseBar[p] = "held" /\ ownerBar[p] = pods[p].user
      BY <2>1 DEF leaseBar, ownerBar
    <3>2. [ownerBar EXCEPT ![p] = pods[p].user] = ownerBar
      BY <3>1 DEF ownerBar
    <3>3. (IF r.lapsed THEN dueBar \cup {p} ELSE dueBar \ {p}) = dueBar
      BY <2>2 DEF dueBar
    <3>4. /\ leaseBar' = [leaseBar EXCEPT ![p] = LeaseOf(r)]
          /\ ownerBar' = [ownerBar EXCEPT ![p] = r.user]
          /\ dueBar' = IF r.lapsed THEN dueBar \cup {p} ELSE dueBar \ {p}
      BY <1>1, <2>2, OneLease
    <3> QED BY <2>2, <3>1, <3>2, <3>3, <3>4
  <2>4. Lease!Expire(p)
    BY <2>3 DEF Expiring, Lease!Expire, leaseBar, ownerBar, dueBar, noticedBar
  <2> QED BY <2>4 DEF Lease!Next
<1> QED BY <1>2, <1>3

LEMMA StepLease ==
  ASSUME LeaseFits, IdInv, [Next]_vars
  PROVE  Lease!Next
BY StepRows, InsertGrants, RowStepLease, NoticingLease, ExpiringLease DEF LeaseFits

LEMMA InitLease ==
  ASSUME Init
  PROVE  Lease!Init /\ NothingLapsed
<1>1. /\ pods = [p \in PulseIDs |-> NoRow] /\ sweep = Waiting
      /\ NoRow.status = "absent" /\ NoRow.user = None /\ ~ NoRow.deleted /\ ~ NoRow.lapsed
  BY DEF Init, StoreInit, SweepInit, NoRow
<1>2. LeaseOf(NoRow) = "free"
  BY <1>1 DEF LeaseOf
<1>3. /\ leaseBar = [p \in PulseIDs |-> "free"] /\ ownerBar = [p \in PulseIDs |-> None]
      /\ dueBar = {} /\ noticedBar = {}
  BY <1>1, <1>2 DEF leaseBar, ownerBar, dueBar, noticedBar, InSweep, Waiting
<1> QED BY <1>1, <1>3 DEF Lease!Init, leaseBar, ownerBar, dueBar, noticedBar, NothingLapsed

(* The pods of the service, seen through their rows, are leases: a user is *)
(* granted one below the limit only, it expires only after a snapshot had  *)
(* found it overdue, and it never comes back.                              *)
THEOREM TableOfLeases == Spec => ImplementsLeases
<1>1. Init => Lease!Init /\ NothingLapsed
  BY InitLease
<1>2. WholeInv /\ NothingLapsed /\ [Next]_vars => NothingLapsed'
  BY NextNothingLapsed DEF WholeInv
<1>3. WholeInv /\ QuotaBound /\ NothingLapsed /\ [Next]_vars => [Lease!Next]_(Lease!leaseVars)
  <2>1. WholeInv => \A p \in PulseIDs : Absent(p) => ~ pods[p].deleted
    BY DEF WholeInv, ObjInv, PulseInv
  <2> QED BY <2>1, StepLease DEF WholeInv, LeaseFits
<1> QED BY <1>1, <1>2, <1>3, Inductive, QuotaOverrun, PTL DEF Spec, ImplementsLeases, Lease!Spec
=============================================================================
