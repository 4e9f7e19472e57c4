------------------------------ MODULE PodStore ------------------------------
(***************************************************************************)
(* The tables pulse.pods and pulse.activities, one operator per SQL        *)
(* statement of PodRepository and ActivityRepository.  Of the status       *)
(* values only "pending" and "expired" are ever written by the code.  A    *)
(* time stamp is abstracted to the one fact a query asks of it: "lapsed"   *)
(* says that expires_at lies in the past.                                  *)
(***************************************************************************)
EXTENDS Runtime

VARIABLES pods, activities

storeVars == <<pods, activities>>

Statuses == {"absent", "pending", "expired"}
Rows == [status : Statuses, deleted : BOOLEAN, lapsed : BOOLEAN,
         user : Users \cup {None}]
ActivityTypes == {"created", "stopped", "expired"}

StoreTypeOK ==
  /\ pods \in [PulseIDs -> Rows]
  /\ activities \in SUBSET (ActivityTypes \X PulseIDs)

NoRow == [status |-> "absent", deleted |-> FALSE, lapsed |-> FALSE, user |-> None]

StoreInit ==
  /\ pods = [p \in PulseIDs |-> NoRow]
  /\ activities = {}

\* GetByPulseID, and the WHERE clause of every UPDATE.
Visible(p) == pods[p].status # "absent" /\ ~ pods[p].deleted

\* The rows that CountActiveByUserID counts.
ActiveRow(r, u) == r.status = "pending" /\ ~ r.deleted /\ r.user = u
Active(u) == {p \in PulseIDs : ActiveRow(pods[p], u)}

\* Mutant: the query does not leave out the rows that are expired already.
LapsedPods == {p \in PulseIDs : Visible(p) /\ pods[p].lapsed}

\* The rows that GetExpiredPods returns.
ExpiredPods == {p \in PulseIDs : Visible(p) /\ pods[p].status # "expired" /\ pods[p].lapsed}

InsertRow(p, u, o) ==
  /\ pods' = IF Takes(o)
             THEN [pods EXCEPT ![p] = [status |-> "pending", deleted |-> FALSE,
                                       lapsed |-> FALSE, user |-> u]]
             ELSE pods
  /\ UNCHANGED activities

\* The three UPDATEs change no row unless it is visible.
UpdateStatus(p, o) ==
  /\ pods' = IF Takes(o) /\ Visible(p)
             THEN [pods EXCEPT ![p].status = "expired"] ELSE pods
  /\ UNCHANGED activities

\* Mutant: a use brings an expired pod back.
UpdateActivityRevives(p, o) ==
  /\ pods' = IF Takes(o) /\ Visible(p)
             THEN [pods EXCEPT ![p].lapsed = FALSE, ![p].status = "pending"] ELSE pods
  /\ UNCHANGED activities

UpdateActivity(p, o) ==
  /\ pods' = IF Takes(o) /\ Visible(p)
             THEN [pods EXCEPT ![p].lapsed = FALSE] ELSE pods
  /\ UNCHANGED activities

SoftDelete(p, o) ==
  /\ pods' = IF Takes(o) /\ Visible(p)
             THEN [pods EXCEPT ![p].deleted = TRUE] ELSE pods
  /\ UNCHANGED activities

LogActivity(t, p, o) ==
  /\ activities' = IF Takes(o) THEN activities \cup {<<t, p>>} ELSE activities
  /\ UNCHANGED pods

\* The clock passes expires_at of a row.  Nothing reads it in an expired row.
Lapse(p) ==
  /\ Visible(p)
  /\ pods[p].status = "pending"
  /\ ~ pods[p].lapsed
  /\ pods' = [pods EXCEPT ![p].lapsed = TRUE]
  /\ UNCHANGED activities
=============================================================================
