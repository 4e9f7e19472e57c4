------------------------- MODULE MetricsWatchProofs -------------------------
(***************************************************************************)
(* The cache of the metrics watcher loses no deletion, for any pods and    *)
(* any number of changes, however often the watch breaks and whichever     *)
(* versions the server forgets: first for the watch loop alone, then for   *)
(* all goroutines of the watcher.                                          *)
(***************************************************************************)
EXTENDS MetricsWatcher, TLAPS

\* p has a Deleted event after version r.
DeletedAfter(p, r) == \E i \in (r + 1)..Len(log) : log[i] = [type |-> "deleted", pod |-> p]

\* A pod that was changed and is gone was deleted since.
GoneDeleted ==
  \A i \in 1..Len(log) :
    log[i].type # "deleted" /\ log[i].pod \notin live => DeletedAfter(log[i].pod, i)

\* The version that is kept is not ahead of the stream, and is only unset as
\* long as nothing was read.
RvFits ==
  /\ pc = "read" => rv <= pos
  /\ rv = 0 => cache = {}

\* What a stream has still to list was there when the stream began.
InitialFits == pc = "read" => \A p \in initial \ live : DeletedAfter(p, pos)

IInv == TypeOK /\ GoneDeleted /\ RvFits /\ InitialFits /\ NoGhosts

LEMMA Ghosts == NoGhosts <=> \A p \in cache \ live : DeletedAfter(p, From)
BY DEF NoGhosts, Ahead, DeletedAfter

\* DeletedAfter looks only at the log, and at less of it for a later version.
LEMMA DeletedEarlier ==
  ASSUME NEW p, NEW r \in Nat, NEW q \in Nat, q <= r, Len(log) \in Nat, DeletedAfter(p, r)
  PROVE DeletedAfter(p, q)
BY DEF DeletedAfter

LEMMA InitIInv == Init => IInv
<1> SUFFICES ASSUME Init PROVE IInv
  OBVIOUS
<1>1. log = <<>> /\ Len(log) = 0 /\ log \in Seq(Changes)
  BY DEF Init
<1>2. TypeOK
  <2>1. Len(log) <= MaxRev /\ 0 \in Revs
    BY <1>1, MaxRevAssumption DEF Revs
  <2> QED BY <1>1, <2>1 DEF Init, TypeOK
<1>3. GoneDeleted /\ RvFits /\ InitialFits /\ NoGhosts
  BY <1>1 DEF Init, GoneDeleted, RvFits, InitialFits, NoGhosts
<1> QED BY <1>2, <1>3 DEF IInv

\* A change of the server: the log grows, and a pod that goes is deleted in it.
LEMMA ServerIInv ==
  ASSUME IInv, Server
  PROVE IInv'
<1>1. PICK type \in {"added", "modified", "deleted"}, p \in Pods :
        /\ Change(type, p)
        /\ type = "added" => p \notin live
        /\ type # "added" => p \in live
  BY DEF Server, IInv, TypeOK
<1> DEFINE e == [type |-> type, pod |-> p]
<1>2. /\ log \in Seq(Changes) /\ e \in Changes /\ Len(log) \in Nat
      /\ log' = Append(log, e) /\ Len(log) < MaxRev
      /\ UNCHANGED <<oldest, rv, cache, pc, initial, pos, stopped, cut>>
  BY <1>1 DEF IInv, TypeOK, Change, Changes, stream
<1>3. /\ Len(log') = Len(log) + 1 /\ log' \in Seq(Changes)
      /\ log'[Len(log) + 1] = e
      /\ \A i \in 1..Len(log) : log'[i] = log[i]
  BY <1>2
<1>4. /\ type = "added" => live' = live \cup {p}
      /\ type = "modified" => live' = live
      /\ type = "deleted" => live' = live \ {p}
  BY <1>1 DEF Change
<1>5. TypeOK'
  BY <1>2, <1>3, <1>4, MaxRevAssumption DEF IInv, TypeOK, Revs
<1>6. \A q, r : r \in Nat /\ DeletedAfter(q, r) => DeletedAfter(q, r)'
  BY <1>2, <1>3 DEF DeletedAfter
<1>7. \A q, r : r \in Nat /\ r <= Len(log) /\ q \in live /\ q \notin live' => DeletedAfter(q, r)'
  BY <1>2, <1>3, <1>4 DEF DeletedAfter
<1>8. GoneDeleted'
  <2> SUFFICES ASSUME NEW i \in 1..Len(log'), log'[i].type # "deleted", log'[i].pod \notin live'
               PROVE DeletedAfter(log[i].pod, i)'
    BY DEF GoneDeleted
  <2>1. i # Len(log) + 1
    BY <1>1, <1>3, <1>4
  <2>2. i \in 1..Len(log) /\ log'[i] = log[i]
    BY <1>2, <1>3, <2>1
  <2>3. CASE log[i].pod \in live
    BY <1>2, <1>7, <2>2, <2>3
  <2>4. CASE log[i].pod \notin live
    BY <1>2, <1>6, <2>2, <2>4 DEF IInv, GoneDeleted
  <2> QED BY <2>3, <2>4
<1>9. RvFits'
  BY <1>2 DEF IInv, RvFits
<1>10. InitialFits'
  BY <1>2, <1>6, <1>7 DEF IInv, TypeOK, Revs, InitialFits
<1>11. NoGhosts'
  <2>1. From' = From /\ From \in Nat /\ From <= Len(log)
    BY <1>2 DEF From, IInv, TypeOK, Revs
  <2>2. \A q \in cache' \ live' : DeletedAfter(q, From)'
    BY <1>2, <1>6, <1>7, <2>1, Ghosts DEF IInv
  <2> QED BY <2>2 DEF NoGhosts, Ahead, DeletedAfter
<1> QED BY <1>5, <1>8, <1>9, <1>10, <1>11 DEF IInv

\* Steps of the loop leave the log and the pods alone.
LEMMA SameLog ==
  ASSUME UNCHANGED server
  PROVE /\ \A p, r : DeletedAfter(p, r)' <=> DeletedAfter(p, r)
        /\ GoneDeleted' <=> GoneDeleted
BY DEF server, DeletedAfter, GoneDeleted

\* A watch begins after the version kept, or anew with what exists and an empty
\* cache.
LEMMA ConnectIInv ==
  ASSUME IInv, Connect
  PROVE IInv'
<1>1. /\ UNCHANGED server /\ rv' = rv /\ cache' = cache
      /\ Len(log) \in Nat /\ rv \in 0..Len(log)
      /\ pc = "connect" /\ pc' \in {"read", "error"}
      /\ rv = 0 => initial' = live /\ pos' = Len(log)
      /\ rv # 0 => initial' = {} /\ pos' = rv
  BY DEF IInv, TypeOK, Revs, Connect, ResumeAt
<1>2. TypeOK'
  BY <1>1 DEF IInv, TypeOK, Revs, Connect, ResumeAt, server
<1>3. GoneDeleted' /\ RvFits' /\ InitialFits'
  BY <1>1, SameLog DEF IInv, RvFits, InitialFits, server
<1>4. \A p \in cache' \ live' : DeletedAfter(p, From)'
  <2>1. CASE rv = 0
    BY <1>1, <2>1 DEF IInv, RvFits
  <2>2. CASE rv # 0
    <3>1. From = rv /\ From' = rv
      BY <1>1, <2>2 DEF From
    <3> QED BY <1>1, <3>1, SameLog, Ghosts DEF IInv, server, DeletedAfter
  <2> QED BY <2>1, <2>2
<1> QED BY <1>2, <1>3, <1>4 DEF IInv, NoGhosts, Ahead, DeletedAfter

\* A listed pod that is gone already is deleted later in the stream.
LEMMA ReadInitialIInv ==
  ASSUME IInv, ReadInitial
  PROVE IInv'
<1>1. PICK p \in initial, v \in 1..pos :
        initial' = initial \ {p} /\ cache' = cache \cup {p} /\ rv' = v
  BY DEF ReadInitial
<1>2. UNCHANGED <<server, pc, pos, stopped, cut>> /\ pc = "read"
  BY DEF ReadInitial, Stays
<1>3. Len(log) \in Nat /\ pos \in 0..Len(log) /\ p \in Pods /\ v \in 1..Len(log)
  BY <1>1 DEF IInv, TypeOK, Revs
<1>4. TypeOK'
  BY <1>1, <1>2, <1>3 DEF IInv, TypeOK, Revs, server
<1>5. GoneDeleted' /\ RvFits' /\ InitialFits'
  BY <1>1, <1>2, <1>3, SameLog DEF IInv, RvFits, InitialFits, server
<1>6. From = pos /\ From' = pos
  BY <1>2 DEF From
<1>7. \A q \in cache' \ live : DeletedAfter(q, pos)
  BY <1>1, <1>2, <1>6, Ghosts DEF IInv, InitialFits
<1> QED BY <1>2, <1>4, <1>5, <1>6, <1>7 DEF IInv, NoGhosts, Ahead, DeletedAfter, server

\* A Deleted event removes its pod; any other adds a pod that exists or is
\* deleted later.
LEMMA ReadChangeIInv ==
  ASSUME IInv, ReadChange
  PROVE IInv'
<1> DEFINE n == pos + 1
<1>1. /\ UNCHANGED server /\ pc' = pc /\ pc = "read" /\ stopped' = stopped /\ cut' = cut
      /\ initial = {} /\ initial' = {}
      /\ pos' = n /\ rv' = n
      /\ pos \in Nat /\ Len(log) \in Nat /\ n \in 1..Len(log)
      /\ log[n] \in Changes
  BY DEF IInv, TypeOK, Revs, ReadChange, Stays, VersionAfter
<1>2. /\ log[n].type = "deleted" => cache' = cache \ {log[n].pod}
      /\ log[n].type # "deleted" => cache' = cache \cup {log[n].pod}
      /\ log[n].pod \in Pods
  BY <1>1 DEF Changes, ReadChange, CacheAfter
<1>3. TypeOK'
  BY <1>1, <1>2 DEF IInv, TypeOK, Revs, server
<1>4. GoneDeleted' /\ RvFits' /\ InitialFits'
  BY <1>1, SameLog DEF IInv, RvFits, InitialFits
<1>5. From = pos /\ From' = n
  BY <1>1 DEF From
<1>6. \A q \in cache' \ live : DeletedAfter(q, n)
  <2> SUFFICES ASSUME NEW q \in cache' \ live PROVE DeletedAfter(q, n)
    OBVIOUS
  <2>1. CASE q = log[n].pod
    BY <1>1, <1>2, <2>1 DEF IInv, GoneDeleted
  <2>2. CASE q # log[n].pod
    <3>1. PICK i \in (pos + 1)..Len(log) : log[i] = [type |-> "deleted", pod |-> q]
      BY <1>2, <1>5, <2>2, Ghosts DEF IInv, DeletedAfter
    <3>2. i # n
      BY <2>2, <3>1
    <3> QED BY <1>1, <3>1, <3>2 DEF DeletedAfter
  <2> QED BY <2>1, <2>2
<1> QED BY <1>1, <1>3, <1>4, <1>5, <1>6 DEF IInv, NoGhosts, Ahead, DeletedAfter, server

\* The version kept is that up to which the stream was read.
LEMMA ReadBookmarkIInv ==
  ASSUME IInv, ReadBookmark
  PROVE IInv'
<1>1. /\ UNCHANGED <<server, pc, stopped, cut, cache, initial, pos>>
      /\ pc = "read" /\ rv' = pos /\ pos \in 0..Len(log) /\ Len(log) \in Nat
  BY DEF IInv, TypeOK, Revs, ReadBookmark, Stays, stream
<1>2. pos = 0 => rv = 0
  BY <1>1 DEF IInv, RvFits, TypeOK, Revs
<1>3. TypeOK' /\ RvFits'
  BY <1>1, <1>2 DEF IInv, TypeOK, Revs, RvFits, server
<1>4. GoneDeleted' /\ InitialFits'
  BY <1>1, SameLog DEF IInv, InitialFits, server
<1>5. NoGhosts'
  BY <1>1 DEF IInv, NoGhosts, Ahead, From, server
<1> QED BY <1>3, <1>4, <1>5 DEF IInv

\* After a break the watch goes back to the version kept, never ahead.
LEMMA BreakIInv ==
  ASSUME IInv, Break
  PROVE IInv'
<1>1. /\ UNCHANGED <<server, rv, cache, initial, pos, stopped>> /\ cut' \in BOOLEAN
      /\ pc = "read" /\ pc' = "connect" /\ Len(log) \in Nat
      /\ pos \in Nat /\ rv \in Nat /\ rv <= pos
  BY DEF IInv, TypeOK, Revs, RvFits, Break, stream
<1>2. TypeOK' /\ RvFits' /\ InitialFits'
  BY <1>1 DEF IInv, TypeOK, Revs, RvFits, InitialFits, server
<1>3. From = pos /\ From' = rv
  BY <1>1 DEF From
<1>4. \A p \in cache \ live : DeletedAfter(p, rv)
  BY <1>1, <1>3, Ghosts, DeletedEarlier DEF IInv
<1>5. NoGhosts'
  BY <1>1, <1>3, <1>4 DEF NoGhosts, Ahead, DeletedAfter, server
<1> QED BY <1>1, <1>2, <1>5, SameLog DEF IInv

\* The other steps leave what IInv is about alone.
LEMMA OtherIInv ==
  ASSUME IInv, Compact \/ ReadError \/ End \/ Stop \/ UNCHANGED vars
  PROVE IInv'
<1>1. /\ UNCHANGED <<live, log, rv, cache, initial, pos>>
      /\ pc' = "read" <=> pc = "read"
      /\ oldest' \in Revs /\ stopped' \in BOOLEAN /\ cut' \in BOOLEAN
      /\ pc' \in {"connect", "read", "error", "ended"}
  <2>1. CASE Compact
    BY <2>1 DEF IInv, TypeOK, Revs, Compact, stream
  <2>2. CASE ReadError \/ End
    BY <2>2 DEF IInv, TypeOK, ReadError, End, server, stream
  <2>3. CASE Stop \/ UNCHANGED vars
    BY <2>3 DEF IInv, TypeOK, Stop, vars, server, stream
  <2> QED BY <2>1, <2>2, <2>3
<1>2. TypeOK' /\ GoneDeleted' /\ RvFits' /\ InitialFits'
  BY <1>1 DEF IInv, TypeOK, Revs, GoneDeleted, RvFits, InitialFits, DeletedAfter
<1>3. NoGhosts'
  BY <1>1 DEF IInv, NoGhosts, Ahead, From
<1> QED BY <1>2, <1>3 DEF IInv

LEMMA StepIInv == IInv /\ [Next]_vars => IInv'
BY ServerIInv, ConnectIInv, ReadInitialIInv, ReadChangeIInv, ReadBookmarkIInv,
   BreakIInv, OtherIInv DEF Next

-----------------------------------------------------------------------------
(* No pod is missed, unless a watch was broken off within its initial events. *)

\* p has an Added or Modified event after version r.
ChangedAfter(p, r) == \E i \in (r + 1)..Len(log) : log[i].pod = p /\ log[i].type # "deleted"

\* A pod that exists was added, and again after each of its deletions.
LiveChanged ==
  \A p \in live :
    /\ ChangedAfter(p, 0)
    /\ \A i \in 1..Len(log) : log[i] = [type |-> "deleted", pod |-> p] => ChangedAfter(p, i)

\* NoneMissed of one pod.
Comes(p) == (pc = "read" /\ p \in initial) \/ From = 0 \/ ChangedAfter(p, From)

MInv == LiveChanged /\ (~cut => \A p \in live \ cache : Comes(p))

LEMMA Missed ==
  ASSUME TypeOK
  PROVE NoneMissed <=> (~cut => \A p \in live \ cache : Comes(p))
<1>1. From \in Nat /\ Len(log) \in Nat /\ \A i \in 1..Len(log) : log[i] \in Changes
  BY DEF TypeOK, Revs, From
<1>2. \A p, i : i \in (From + 1)..Len(log) =>
        (log[i].pod = p /\ log[i].type # "deleted" <=>
           log[i] \in {[type |-> "added", pod |-> p], [type |-> "modified", pod |-> p]})
  BY <1>1 DEF Changes
<1>3. \A p : ChangedAfter(p, From) <=> Ahead("added", p) \/ Ahead("modified", p)
  BY <1>2 DEF ChangedAfter, Ahead
<1> QED BY <1>3 DEF NoneMissed, Comes

LEMMA ServerMInv ==
  ASSUME IInv, MInv, Server
  PROVE MInv'
<1>1. PICK type \in {"added", "modified", "deleted"}, p \in Pods :
        /\ Change(type, p)
        /\ type = "added" => p \notin live
        /\ type # "added" => p \in live
  BY DEF Server, IInv, TypeOK
<1> DEFINE e == [type |-> type, pod |-> p]
<1>2. /\ log \in Seq(Changes) /\ e \in Changes /\ Len(log) \in Nat
      /\ log' = Append(log, e)
      /\ UNCHANGED <<rv, cache, pc, initial, pos, cut>>
  BY <1>1 DEF IInv, TypeOK, Change, Changes, stream
<1>3. /\ Len(log') = Len(log) + 1
      /\ log'[Len(log) + 1] = e
      /\ \A i \in 1..Len(log) : log'[i] = log[i]
  BY <1>2
<1>4. /\ type = "added" => live' = live \cup {p}
      /\ type = "modified" => live' = live
      /\ type = "deleted" => live' = live \ {p}
  BY <1>1 DEF Change
<1>5. \A q, r : r \in Nat /\ ChangedAfter(q, r) => ChangedAfter(q, r)'
  BY <1>2, <1>3 DEF ChangedAfter
<1>6. type # "deleted" => \A r \in 0..Len(log) : ChangedAfter(p, r)'
  BY <1>2, <1>3 DEF ChangedAfter
<1>7. From' = From /\ From \in 0..Len(log)
  BY <1>2 DEF From, IInv, TypeOK, Revs
<1>8. \A q \in live' : (q = p /\ type # "deleted") \/ (q # p /\ q \in live)
  <2>1. CASE type = "added"
    BY <1>4, <2>1
  <2>2. CASE type = "modified"
    BY <1>4, <2>2
  <2>3. CASE type = "deleted"
    BY <1>4, <2>3
  <2> QED BY <2>1, <2>2, <2>3
<1>9. LiveChanged'
  <2> SUFFICES ASSUME NEW q \in live'
               PROVE /\ ChangedAfter(q, 0)'
                     /\ \A i \in 1..Len(log') :
                          log'[i] = [type |-> "deleted", pod |-> q] => ChangedAfter(q, i)'
    BY DEF LiveChanged
  <2>1. \A i \in 1..Len(log') :
          log'[i] = [type |-> "deleted", pod |-> q] => i \in 1..Len(log) /\ log[i] = log'[i]
    BY <1>2, <1>3, <1>8
  <2>2. CASE q = p /\ type # "deleted"
    BY <1>2, <1>6, <2>1, <2>2
  <2>3. CASE q # p /\ q \in live
    BY <1>2, <1>5, <2>1, <2>3 DEF MInv, LiveChanged
  <2> QED BY <1>8, <2>2, <2>3
<1>10. ASSUME ~cut', NEW q \in live' \ cache' PROVE Comes(q)'
  <2>1. CASE q = p /\ type # "deleted"
    BY <1>6, <1>7, <2>1 DEF Comes
  <2>2. CASE q # p /\ q \in live
    BY <1>2, <1>5, <1>7, <1>10, <2>2 DEF MInv, Comes
  <2> QED BY <1>8, <2>1, <2>2
<1> QED BY <1>9, <1>10 DEF MInv

\* Steps of the loop leave LiveChanged alone.
LEMMA SameChanges ==
  ASSUME UNCHANGED server
  PROVE /\ \A p, r : ChangedAfter(p, r)' <=> ChangedAfter(p, r)
        /\ LiveChanged' <=> LiveChanged
BY DEF server, ChangedAfter, LiveChanged

LEMMA ConnectMInv ==
  ASSUME IInv, MInv, Connect
  PROVE MInv'
<1>1. /\ UNCHANGED server /\ live' = live /\ rv' = rv /\ cache' = cache /\ cut' = cut
      /\ pc = "connect"
      /\ rv = 0 => initial' = live /\ pc' = "read"
      /\ rv # 0 => pos' = rv
  BY DEF Connect, ResumeAt, server
<1>2. rv # 0 => From = rv /\ From' = rv
  BY <1>1 DEF From
<1>3. ASSUME ~cut', NEW p \in live' \ cache' PROVE Comes(p)'
  <2>1. CASE rv = 0
    BY <1>1, <1>3, <2>1 DEF Comes
  <2>2. CASE rv # 0
    BY <1>1, <1>2, <1>3, <2>2, SameChanges DEF MInv, Comes
  <2> QED BY <2>1, <2>2
<1> QED BY <1>1, <1>3, SameChanges DEF MInv

LEMMA ReadInitialMInv ==
  ASSUME IInv, MInv, ReadInitial
  PROVE MInv'
<1>1. /\ UNCHANGED server /\ live' = live /\ cut' = cut /\ pc' = pc /\ pos' = pos /\ pc = "read"
      /\ \E p \in initial : initial' = initial \ {p} /\ cache' = cache \cup {p}
  BY DEF ReadInitial, Stays, server
<1>2. From' = From
  BY <1>1 DEF From
<1>3. ASSUME ~cut', NEW p \in live' \ cache' PROVE Comes(p)'
  BY <1>1, <1>2, <1>3, SameChanges DEF MInv, Comes
<1> QED BY <1>1, <1>3, SameChanges DEF MInv

\* The event that is read adds its pod, or deletes one that is added again if
\* it exists.
LEMMA ReadChangeMInv ==
  ASSUME IInv, MInv, ReadChange
  PROVE MInv'
<1> DEFINE n == pos + 1
<1>1. /\ UNCHANGED server /\ live' = live /\ pc' = pc /\ pc = "read" /\ cut' = cut
      /\ initial = {} /\ pos' = n
      /\ pos \in Nat /\ Len(log) \in Nat /\ n \in 1..Len(log)
      /\ log[n] \in Changes
  BY DEF IInv, TypeOK, Revs, ReadChange, Stays, VersionAfter, server
<1>2. /\ log[n].type = "deleted" => cache' = cache \ {log[n].pod}
      /\ log[n].type # "deleted" => cache' = cache \cup {log[n].pod}
  BY <1>1 DEF ReadChange, CacheAfter
<1>3. From = pos /\ From' = n
  BY <1>1 DEF From
<1>4. ASSUME ~cut', NEW p \in live' \ cache' PROVE ChangedAfter(p, n)
  <2>1. CASE p = log[n].pod
    <3>1. log[n] = [type |-> "deleted", pod |-> p]
      BY <1>1, <1>2, <1>4, <2>1 DEF Changes
    <3> QED BY <1>1, <1>4, <3>1 DEF MInv, LiveChanged
  <2>2. CASE p # log[n].pod
    <3>1. p \in live \ cache
      BY <1>1, <1>2, <1>4, <2>2
    <3>2. ChangedAfter(p, pos)
      BY <1>1, <1>3, <1>4, <3>1 DEF MInv, Comes, LiveChanged
    <3>3. PICK i \in n..Len(log) : log[i].pod = p /\ log[i].type # "deleted"
      BY <3>2 DEF ChangedAfter
    <3>4. i # n
      BY <2>2, <3>3
    <3> QED BY <1>1, <3>3, <3>4 DEF ChangedAfter
  <2> QED BY <2>1, <2>2
<1> QED BY <1>1, <1>3, <1>4, SameChanges DEF MInv, Comes

\* A stream that ends with nothing left to list goes back to an earlier version.
LEMMA BreakMInv ==
  ASSUME IInv, MInv, Break
  PROVE MInv'
<1>1. /\ UNCHANGED server /\ live' = live /\ cache' = cache
      /\ cut' = (cut \/ initial # {}) /\ cut \in BOOLEAN
      /\ pc = "read" /\ pc' = "connect" /\ rv' = rv
      /\ pos \in Nat /\ rv \in Nat /\ rv <= pos /\ Len(log) \in Nat
  BY DEF IInv, TypeOK, Revs, RvFits, Break, stream, server
<1>2. From = pos /\ From' = rv
  BY <1>1 DEF From
<1>3. \A p : ChangedAfter(p, pos) => ChangedAfter(p, rv)
  BY <1>1 DEF ChangedAfter
<1>4. ASSUME ~cut', NEW p \in live' \ cache' PROVE Comes(p)'
  <2>1. p \in live \ cache /\ ~cut /\ initial = {}
    BY <1>1, <1>4
  <2>2. pos = 0 \/ ChangedAfter(p, pos)
    BY <1>2, <2>1 DEF MInv, Comes
  <2>3. rv = 0 \/ ChangedAfter(p, rv)
    BY <1>1, <1>3, <2>2
  <2> QED BY <1>1, <1>2, <2>3, SameChanges DEF Comes
<1> QED BY <1>1, <1>4, SameChanges DEF MInv

LEMMA OtherMInv ==
  ASSUME IInv, MInv, ReadBookmark \/ Compact \/ ReadError \/ End \/ Stop \/ UNCHANGED vars
  PROVE MInv'
<1>1. /\ UNCHANGED <<live, log, cache, initial, pos, cut>>
      /\ pc' = "read" <=> pc = "read"
      /\ pc # "read" => rv' = rv
  <2>1. CASE ReadBookmark
    BY <2>1 DEF ReadBookmark, Stays, server, stream
  <2>2. CASE Compact \/ ReadError \/ End
    BY <2>2 DEF Compact, ReadError, End, server, stream
  <2>3. CASE Stop \/ UNCHANGED vars
    BY <2>3 DEF Stop, vars, server, stream
  <2> QED BY <2>1, <2>2, <2>3
<1>2. LiveChanged' /\ From' = From
  BY <1>1 DEF MInv, LiveChanged, ChangedAfter, From
<1> QED BY <1>1, <1>2 DEF MInv, Comes, ChangedAfter

LEMMA StepMInv == IInv /\ MInv /\ [Next]_vars => MInv'
BY ServerMInv, ConnectMInv, ReadInitialMInv, ReadChangeMInv, BreakMInv, OtherMInv DEF Next

LEMMA InitMInv == Init => MInv
BY DEF Init, MInv, LiveChanged, Comes, From

-----------------------------------------------------------------------------
\* The other goroutines only read what the watch loop writes.
LEMMA WatcherStep == [WatcherNext]_watcherVars => [Next]_vars
BY DEF WatcherNext, watcherVars, Scrape, Emit, CollectEnds, FlushEnds

LEMMA WatcherTypeStep ==
  ASSUME WatcherTypeOK, TypeOK', [WatcherNext]_watcherVars
  PROVE WatcherTypeOK'
<1>1. CASE UNCHANGED collector
  BY <1>1 DEF WatcherTypeOK, collector
<1>2. CASE Scrape
  BY <1>2 DEF WatcherTypeOK, Scrape, TypeOK
<1>3. CASE Emit
  BY <1>3 DEF WatcherTypeOK, Emit, GaugeAfter
<1>4. CASE CollectEnds \/ FlushEnds
  BY <1>4 DEF WatcherTypeOK, CollectEnds, FlushEnds
<1> QED BY <1>1, <1>2, <1>3, <1>4 DEF WatcherNext, watcherVars

\* The watcher as a whole implements the watch loop alone.
THEOREM ImplementsWatch == WatcherSpec => Spec
<1>1. WatcherInit => Init
  BY DEF WatcherInit
<1> QED BY <1>1, WatcherStep, PTL DEF WatcherSpec, Spec

\* Every variable of the watcher keeps its type.
THEOREM WatcherTypeCorrect == WatcherSpec => []WatcherTypeOK
<1>1. WatcherInit => WatcherTypeOK /\ IInv
  BY InitIInv DEF WatcherInit, WatcherTypeOK, Loops, IInv
<1>2. WatcherTypeOK /\ IInv /\ [WatcherNext]_watcherVars => (WatcherTypeOK /\ IInv)'
  BY StepIInv, WatcherStep, WatcherTypeStep DEF IInv
<1> QED BY <1>1, <1>2, PTL DEF WatcherSpec

\* A cached pod that is gone has its Deleted event still to come.
THEOREM NoGhostStays == WatcherSpec => []NoGhosts
<1>1. Init /\ [][Next]_vars => []IInv
  BY InitIInv, StepIInv, PTL
<1> QED BY <1>1, ImplementsWatch, PTL DEF Spec, IInv

\* A pod that is not cached has an event still to come, unless a watch was
\* broken off within its initial events.
THEOREM NothingMissed == WatcherSpec => []NoneMissed
<1>1. Init => IInv /\ MInv
  BY InitIInv, InitMInv
<1>2. IInv /\ MInv /\ [Next]_vars => (IInv /\ MInv)'
  BY StepIInv, StepMInv
<1>3. IInv /\ MInv => NoneMissed
  BY Missed DEF IInv, MInv
<1> QED BY <1>1, <1>2, <1>3, ImplementsWatch, PTL DEF Spec
=============================================================================
