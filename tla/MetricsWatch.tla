---------------------------- MODULE MetricsWatch ----------------------------
(***************************************************************************)
(* MetricsWatcher.watchPodMetadata: a loop that watches the pods of a      *)
(* namespace and keeps the cache podMetadata, against the watch of the     *)
(* Kubernetes API.  A watch that names no resource version begins with the *)
(* pods that exist, in the order of their names, each with its own         *)
(* version; one that names a version goes on after it, and is answered by  *)
(* an Error event when the server has forgotten that version.              *)
(***************************************************************************)
EXTENDS Naturals, Sequences

CONSTANTS Pods,     \* pod names
          MaxRev    \* bound: changes of pods

ASSUME MaxRevAssumption == MaxRev \in Nat

VARIABLES
  live,      \* pods that exist
  log,       \* all changes of pods; the index of a change is its version
  oldest,    \* the oldest version a watch may name
  rv,        \* resourceVersion, 0 for ""
  cache,     \* keys of podMetadata
  pc,        \* connect, read (within handlePodEvents), error, ended
  initial,   \* pods that the stream has to send before the changes
  pos,       \* version up to which the stream has sent changes
  stopped,   \* stopCh is closed
  cut        \* history: a stream ended before it sent all of initial

server == <<live, log, oldest>>
stream == <<initial, pos>>
vars == <<server, rv, cache, pc, stream, stopped, cut>>

Changes == [type : {"added", "modified", "deleted"}, pod : Pods]
Revs == 0..Len(log)

TypeOK ==
  /\ live \subseteq Pods
  /\ log \in Seq(Changes) /\ Len(log) <= MaxRev
  /\ oldest \in Revs /\ rv \in Revs /\ pos \in Revs
  /\ cache \subseteq Pods /\ initial \subseteq Pods
  /\ pc \in {"connect", "read", "error", "ended"}
  /\ stopped \in BOOLEAN /\ cut \in BOOLEAN

Init ==
  /\ live = {} /\ log = <<>> /\ oldest = 0
  /\ rv = 0 /\ cache = {} /\ pc = "connect"
  /\ initial = {} /\ pos = 0
  /\ stopped = FALSE /\ cut = FALSE

-----------------------------------------------------------------------------
(* The server. *)

Change(type, p) ==
  /\ Len(log) < MaxRev
  /\ log' = Append(log, [type |-> type, pod |-> p])
  /\ live' = CASE type = "added"    -> live \cup {p}
               [] type = "modified" -> live
               [] type = "deleted"  -> live \ {p}
  /\ UNCHANGED <<oldest, rv, cache, pc, stream, stopped, cut>>

Server ==
  \/ \E p \in Pods \ live : Change("added", p)
  \/ \E p \in live : Change("modified", p) \/ Change("deleted", p)

Compact ==
  /\ \E r \in (oldest + 1)..Len(log) : oldest' = r
  /\ UNCHANGED <<live, log, rv, cache, pc, stream, stopped, cut>>

-----------------------------------------------------------------------------
(* The loop.  A Watch that fails is tried again and changes nothing. *)

\* Mutant: the version that was read is not named.
ResumeAtNothing == 0

ResumeAt == rv

\* Mutant: stopCh is not looked at.
GoesOnAlways == TRUE

GoesOn == ~stopped

Connect ==
  /\ pc = "connect"
  /\ GoesOn
  /\ IF ResumeAt = 0 THEN initial' = live /\ pos' = Len(log)
                     ELSE initial' = {} /\ pos' = ResumeAt
  /\ pc' = IF ResumeAt \in {0} \cup oldest..Len(log) THEN "read" ELSE "error"
  /\ UNCHANGED <<server, rv, cache, stopped, cut>>

\* An Error event is logged, and the stream ends.
ReadError ==
  /\ pc = "error"
  /\ pc' = "connect"
  /\ UNCHANGED <<server, rv, cache, stream, stopped, cut>>

End ==
  /\ pc = "connect"
  /\ stopped
  /\ pc' = "ended"
  /\ UNCHANGED <<server, rv, cache, stream, stopped, cut>>

-----------------------------------------------------------------------------
(* handlePodEvents. *)

Stays == UNCHANGED <<server, pc, stopped, cut>>

\* v was the version of p when the watch began.
VersionOf(p, v) == log[v].pod = p /\ \A i \in (v + 1)..pos : log[i].pod # p

\* An Added event for a pod that was there when the watch began.
ReadInitial ==
  /\ pc = "read"
  /\ \E p \in initial, v \in 1..pos :
       /\ VersionOf(p, v)
       /\ initial' = initial \ {p}
       /\ cache' = cache \cup {p}
       /\ rv' = v
  /\ UNCHANGED pos
  /\ Stays

\* Mutant: Deleted is handled like Modified.
CacheAfterAdding(i) == cache \cup {log[i].pod}

CacheAfter(i) ==
  IF log[i].type = "deleted" THEN cache \ {log[i].pod} ELSE cache \cup {log[i].pod}

\* Mutant: the version expected next.
VersionAfterNext(i) == i + 1

VersionAfter(i) == i

\* Added, Modified and Deleted.
ReadChange ==
  /\ pc = "read" /\ initial = {}
  /\ pos < Len(log)
  /\ pos' = pos + 1
  /\ cache' = CacheAfter(pos')
  /\ rv' = VersionAfter(pos')
  /\ UNCHANGED initial
  /\ Stays

\* Mutant: the newest version instead of that of the bookmark.
ReadBookmarkNewest ==
  /\ pc = "read" /\ initial = {}
  /\ rv' = Len(log)
  /\ UNCHANGED <<cache, stream>>
  /\ Stays

ReadBookmark ==
  /\ pc = "read" /\ initial = {}
  /\ rv' = pos
  /\ UNCHANGED <<cache, stream>>
  /\ Stays

\* The server or the network ends the stream.
Break ==
  /\ pc = "read"
  /\ pc' = "connect"
  /\ cut' = (cut \/ initial # {})
  /\ UNCHANGED <<server, rv, cache, stream, stopped>>

Stop ==
  /\ ~stopped
  /\ stopped' = TRUE
  /\ UNCHANGED <<server, rv, cache, pc, stream, cut>>

-----------------------------------------------------------------------------
Next ==
  \/ Server \/ Compact
  \/ Connect \/ ReadError \/ End
  \/ ReadInitial \/ ReadChange \/ ReadBookmark \/ Break
  \/ Stop

Spec == Init /\ [][Next]_vars

\* The loop runs on; a stream lasts long enough, again and again, for an event
\* to arrive, and the server ends it after some time (its request timeout).
Fairness ==
  /\ WF_vars(Connect \/ ReadError \/ End)
  /\ SF_vars(ReadInitial) /\ SF_vars(ReadChange)
  /\ WF_vars(Break)

FairSpec == Spec /\ Fairness

-----------------------------------------------------------------------------
\* The version after which the watch goes on, now or when it is resumed.
From == IF pc = "read" THEN pos ELSE rv

Ahead(type, p) == \E i \in (From + 1)..Len(log) : log[i] = [type |-> type, pod |-> p]

\* A cached pod that is gone has its Deleted event still to come: breaks and
\* reconnects lose no deletion, or the cache would keep it for ever.
NoGhosts == \A p \in cache \ live : Ahead("deleted", p)

\* A pod that is not cached has an event still to come, if no watch was broken
\* off within its initial events.  These come in no order of their versions: the
\* one read last may be newer than those of pods that were not read.
NoneMissed ==
  ~cut => \A p \in live \ cache :
            \/ pc = "read" /\ p \in initial
            \/ From = 0
            \/ Ahead("added", p) \/ Ahead("modified", p)

\* The cache catches up with the cluster, unless a version expired while the
\* loop was away from the server or initial events were lost.
CatchesUp ==
  [](pc # "error" /\ ~cut) => <>[](stopped \/ cache = live)

-----------------------------------------------------------------------------
\* "storing in memory is sufficient as Watch API will handle reconnects
\* gracefully" (metrics_watcher.go:328).
ReconnectsGracefully == <>[](stopped \/ cache = live)
=============================================================================
