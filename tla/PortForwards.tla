---------------------------- MODULE PortForwards ----------------------------
(***************************************************************************)
(* PortForwardManager: one map from pods to port-forwards, behind a        *)
(* sync.RWMutex.  LocalPort looks up under the read lock and, if there is  *)
(* no entry, once more under the write lock, which it keeps while it dials.*)
(* Each forward is a goroutine of its own, which may lose its connection   *)
(* at any time.  The sections under the lock that do not block are single  *)
(* steps, so that only a dial holds the lock between two steps.            *)
(***************************************************************************)
EXTENDS Naturals

CONSTANTS Pods,      \* the keys "namespace/podName"
          Callers,   \* goroutines that call the manager
          Conns,     \* bound: forwards that exist at a time
          None

ASSUME PortForwardsAssumption == None \notin Pods \cup Callers \cup Conns

VARIABLES
  forwards,   \* the map: each pod's forward, or None
  holder,     \* the caller with the write lock, or None
  call,       \* per caller: the step to come, its pod and its forward
  conn,       \* per forward: its pod, its goroutine and its two channels
  port        \* per caller: the forward whose port its last call returned

vars == <<forwards, holder, call, conn, port>>

CallSteps == {"idle", "lookup", "enter", "dial", "stop", "stopAll"}
ConnStates == {"unused", "dialing", "up", "ended"}

TypeOK ==
  /\ forwards \in [Pods -> Conns \cup {None}]
  /\ holder \in Callers \cup {None}
  /\ call \in [Callers -> [pc : CallSteps, pod : Pods \cup {None}, conn : Conns \cup {None}]]
  /\ conn \in [Conns -> [pod : Pods \cup {None}, state : ConnStates,
                         ready : BOOLEAN, err : BOOLEAN, stop : BOOLEAN]]
  /\ port \in [Callers -> Conns \cup {None}]

Idle == [pc |-> "idle", pod |-> None, conn |-> None]
Unused == [pod |-> None, state |-> "unused",
           ready |-> FALSE, err |-> FALSE, stop |-> FALSE]

Init ==
  /\ forwards = [p \in Pods |-> None]
  /\ holder = None
  /\ call = [g \in Callers |-> Idle]
  /\ conn = [c \in Conns |-> Unused]
  /\ port = [g \in Callers |-> None]

At(g, pc) == call[g].pc = pc
Return(g, c) == /\ call' = [call EXCEPT ![g] = Idle]
                /\ port' = [port EXCEPT ![g] = c]
Entry(g) == forwards[call[g].pod]
Unlocked == holder = None

\* Nobody knows the forward any more and its goroutine is gone.
Free(c) ==
  /\ conn[c].state \in {"unused", "ended"}
  /\ \A p \in Pods : forwards[p] # c
  /\ \A g \in Callers : call[g].conn # c

-----------------------------------------------------------------------------
Calls(g, pc, p) ==
  /\ At(g, "idle")
  /\ call' = [call EXCEPT ![g] = [pc |-> pc, pod |-> p, conn |-> None]]
  /\ port' = [port EXCEPT ![g] = None]
  /\ UNCHANGED <<forwards, holder, conn>>

CallLocalPort(g) == \E p \in Pods : Calls(g, "lookup", p)
CallStop(g) == \E p \in Pods : Calls(g, "stop", p)
CallStopAll(g) == Calls(g, "stopAll", None)

\* Under the read lock.
Lookup(g) ==
  /\ At(g, "lookup")
  /\ Unlocked
  /\ IF Entry(g) # None THEN Return(g, Entry(g))
     ELSE call' = [call EXCEPT ![g].pc = "enter"] /\ UNCHANGED port
  /\ UNCHANGED <<forwards, holder, conn>>

\* start, up to its select: set-up fails, or the goroutine begins to dial.
Dial(g) ==
  \/ Return(g, None) /\ UNCHANGED <<forwards, holder, conn>>
  \/ \E c \in Conns :
       /\ Free(c)
       /\ conn' = [conn EXCEPT ![c] = [Unused EXCEPT !.pod = call[g].pod, !.state = "dialing"]]
       /\ call' = [call EXCEPT ![g].pc = "dial", ![g].conn = c]
       /\ holder' = g
       /\ UNCHANGED <<forwards, port>>

\* Mutant: no second look after the write lock is taken.
EnterUnchecked(g) ==
  /\ At(g, "enter")
  /\ Unlocked
  /\ Dial(g)

\* Under the write lock.
Enter(g) ==
  /\ At(g, "enter")
  /\ Unlocked
  /\ IF Entry(g) # None
     THEN Return(g, Entry(g)) /\ UNCHANGED <<forwards, holder, conn>>
     ELSE Dial(g)

\* The select of start: when both channels are ready it takes either.
Dialed(g) == conn[call[g].conn]

Ready(g) ==
  /\ At(g, "dial")
  /\ Dialed(g).ready
  /\ forwards' = [forwards EXCEPT ![call[g].pod] = call[g].conn]
  /\ holder' = None
  /\ Return(g, call[g].conn)
  /\ UNCHANGED conn

\* Mutant: a dial that failed is tried again, for ever.
FailedRetries(g) ==
  /\ At(g, "dial")
  /\ Dialed(g).err
  /\ conn' = [conn EXCEPT ![call[g].conn].err = FALSE]
  /\ holder' = None
  /\ call' = [call EXCEPT ![g].pc = "enter", ![g].conn = None]
  /\ UNCHANGED <<forwards, port>>

Failed(g) ==
  /\ At(g, "dial")
  /\ Dialed(g).err
  /\ conn' = [conn EXCEPT ![call[g].conn].err = FALSE]
  /\ holder' = None
  /\ Return(g, None)
  /\ UNCHANGED forwards

-----------------------------------------------------------------------------
\* Mutant: the entries go and their channels stay open.
CutUnclosed(ps) ==
  /\ forwards' = [p \in Pods |-> IF p \in ps THEN None ELSE forwards[p]]
  /\ UNCHANGED conn

\* Mutant: the channels are closed and the entries stay.
CutKeepsEntries(ps) ==
  /\ conn' = [c \in Conns |-> [conn[c] EXCEPT !.stop = @ \/ \E p \in ps : forwards[p] = c]]
  /\ UNCHANGED forwards

\* close(stopCh) and delete, for every pod of ps with an entry.
Cut(ps) ==
  /\ conn' = [c \in Conns |-> [conn[c] EXCEPT !.stop = @ \/ \E p \in ps : forwards[p] = c]]
  /\ forwards' = [p \in Pods |-> IF p \in ps THEN None ELSE forwards[p]]

Stop(g) ==
  /\ At(g, "stop")
  /\ Unlocked
  /\ Cut({call[g].pod})
  /\ Return(g, None)
  /\ UNCHANGED holder

\* Mutant: the map is dropped instead of emptied.
StopAllDropsMap(g) ==
  /\ At(g, "stopAll")
  /\ Unlocked
  /\ forwards' = <<>>
  /\ Return(g, None)
  /\ UNCHANGED <<holder, conn>>

StopAll(g) ==
  /\ At(g, "stopAll")
  /\ Unlocked
  /\ Cut(Pods)
  /\ Return(g, None)
  /\ UNCHANGED holder

-----------------------------------------------------------------------------
\* The goroutine of a forward: ForwardPorts of client-go.
Becomes(c, new) == conn' = [conn EXCEPT ![c] = new] /\ UNCHANGED <<forwards, holder, call, port>>

Connect(c) ==
  /\ conn[c].state = "dialing"
  /\ Becomes(c, [conn[c] EXCEPT !.state = "up", !.ready = TRUE])

\* The dial is refused, or the connection breaks: the error goes to errCh.
Break(c) ==
  /\ conn[c].state \in {"dialing", "up"}
  /\ Becomes(c, [conn[c] EXCEPT !.state = "ended", !.err = TRUE])

Close(c) ==
  /\ conn[c].state = "up"
  /\ conn[c].stop
  /\ Becomes(c, [conn[c] EXCEPT !.state = "ended"])

-----------------------------------------------------------------------------
LockStep(g) == Lookup(g) \/ Enter(g) \/ Stop(g) \/ StopAll(g)
Selects(g) == Ready(g) \/ Failed(g)

Next ==
  \/ \E g \in Callers : CallLocalPort(g) \/ CallStop(g) \/ CallStopAll(g)
  \/ \E g \in Callers : LockStep(g) \/ Selects(g)
  \/ \E c \in Conns : Connect(c) \/ Break(c) \/ Close(c)

Spec == Init /\ [][Next]_vars

\* The lock starves nobody (sync.RWMutex); no dial has to end, no link to break.
FairSpec ==
  /\ Spec
  /\ \A g \in Callers : SF_vars(LockStep(g)) /\ WF_vars(Selects(g))
  /\ \A c \in Conns : WF_vars(Close(c))

-----------------------------------------------------------------------------
Running(c) == conn[c].state \in {"dialing", "up"} /\ ~conn[c].stop

\* A pod has one forward at most that was not told to stop, whoever asks for it
\* at the same time ("A single port-forward is re-used", line 28).
OneForward ==
  \A c, d \in Conns : Running(c) /\ Running(d) /\ conn[c].pod = conn[d].pod => c = d

\* A forward that runs can be stopped: it is the entry of its own pod, or its
\* caller still holds the lock for it.  None runs on unknown to the manager.
Reachable ==
  \A c \in Conns : Running(c) =>
    \/ forwards[conn[c].pod] = c
    \/ holder # None /\ At(holder, "dial") /\ call[holder].conn = c

\* A caller that finds an entry gets a port of its own pod, on which the forward
\* was ready once; and no channel is closed twice, which would panic: what has an
\* entry was never stopped.  Whether the connection still stands nobody looks.
EntryFits ==
  \A p \in Pods : forwards[p] # None =>
    LET c == conn[forwards[p]] IN c.pod = p /\ c.ready /\ ~c.stop

\* As long as no dial hangs for ever, every call of LocalPort, Stop and StopAll
\* returns, although all wait for the lock of whoever dials.
Returns ==
  (\A c \in Conns : []<>(conn[c].state # "dialing")) =>
    \A g \in Callers : ~At(g, "idle") ~> At(g, "idle")

\* What a caller waits for, whatever it has done of it.
Asks(g) ==
  CASE At(g, "idle")    -> [op |-> "nothing", pod |-> None]
    [] At(g, "stop")    -> [op |-> "drop", pod |-> call[g].pod]
    [] At(g, "stopAll") -> [op |-> "dropAll", pod |-> None]
    [] OTHER            -> [op |-> "get", pod |-> call[g].pod]

Table == INSTANCE ForwardTable WITH
  Forwards <- Conns,
  table <- forwards,
  asks <- [g \in Callers |-> Asks(g)],
  answer <- port

\* Callers see one table, in spite of the two locks and the wait for the dial
\* between the look and the entry: every call looks as if it happened at once.
\* LocalPort returns what the table has at a moment of the call; it fails, or
\* adds a forward that no pod had, only when the table has none then.
ImplementsTable == Table!Spec

=============================================================================
