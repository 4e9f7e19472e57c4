------------------------- MODULE PortForwardProofs -------------------------
(***************************************************************************)
(* The safety of PortForwards for any pods, callers and forwards.          *)
(***************************************************************************)
EXTENDS PortForwards, TLAPS

\* The caller that dials is the one with the lock.
DialerHolds == \A g \in Callers : At(g, "dial") <=> holder = g

\* A call has a forward only while it dials it, and a pod when it needs one.
CallFits ==
  \A g \in Callers :
    /\ ~At(g, "dial") => call[g].conn = None
    /\ call[g].pc \in {"lookup", "enter", "dial", "stop"} => call[g].pod \in Pods

\* The forward that is being dialled was not stopped, and its pod has no entry.
DialFits ==
  \A g \in Callers : At(g, "dial") =>
    /\ call[g].conn \in Conns
    /\ Dialed(g).pod = call[g].pod
    /\ ~Dialed(g).stop
    /\ Entry(g) = None

\* An error that waits in errCh is that of a goroutine that has ended.
ErrorEnded == \A c \in Conns : conn[c].err => conn[c].state = "ended"

\* A forward that was ever begun is for a pod.
HasPod == \A c \in Conns : conn[c].state # "unused" => conn[c].pod \in Pods

ConnType == conn \in [Conns -> [pod : Pods \cup {None}, state : ConnStates,
                               ready : BOOLEAN, err : BOOLEAN, stop : BOOLEAN]]

IInv ==
  /\ TypeOK /\ DialerHolds /\ CallFits /\ DialFits /\ ErrorEnded /\ HasPod
  /\ EntryFits /\ Reachable

LEMMA InitIInv == Init => IInv
BY PortForwardsAssumption
   DEF Init, IInv, TypeOK, DialerHolds, CallFits, DialFits, ErrorEnded, HasPod, EntryFits,
       Reachable, Running, Idle, Unused, At, CallSteps, ConnStates

\* What a call returns is a forward, or nothing.
LEMMA ReturnType ==
  ASSUME TypeOK, NEW g \in Callers, NEW c \in Conns \cup {None}, Return(g, c)
  PROVE  port' \in [Callers -> Conns \cup {None}]
BY DEF TypeOK, Return

\* Steps of a call that touch neither the lock, the map nor a forward.
LEMMA CallsIInv ==
  ASSUME IInv, NEW g \in Callers, CallLocalPort(g) \/ CallStop(g) \/ CallStopAll(g) \/ Lookup(g)
  PROVE IInv'
<1>1. UNCHANGED <<forwards, holder, conn>> /\ ~At(g, "dial")
  BY DEF CallLocalPort, CallStop, CallStopAll, Calls, Lookup, At
<1>2. /\ call'[g].pc # "dial" /\ call'[g].conn = None
      /\ call'[g].pc \in {"lookup", "enter", "stop"} => call'[g].pod \in Pods
      /\ \A h \in Callers \ {g} : call'[h] = call[h]
      /\ call' \in [Callers -> [pc : CallSteps, pod : Pods \cup {None}, conn : Conns \cup {None}]]
  <2>1. CASE Lookup(g)
    <3>1. call' = [call EXCEPT ![g] = Idle] \/ call' = [call EXCEPT ![g].pc = "enter"]
      BY <2>1 DEF Lookup, Return
    <3>2. call[g].conn = None /\ call[g].pod \in Pods
      BY <2>1 DEF IInv, CallFits, Lookup, At
    <3> QED BY <3>1, <3>2 DEF IInv, TypeOK, Idle, CallSteps
  <2>2. CASE CallLocalPort(g) \/ CallStop(g) \/ CallStopAll(g)
    BY <2>2 DEF IInv, TypeOK, CallFits, CallLocalPort, CallStop, CallStopAll, Calls, At, CallSteps
  <2> QED BY <2>1, <2>2
<1>0. port' \in [Callers -> Conns \cup {None}]
  <2>1. CASE Lookup(g)
    <3>1. Entry(g) \in Conns \cup {None}
      BY <2>1 DEF IInv, TypeOK, CallFits, Lookup, At, Entry
    <3> QED BY <2>1, <3>1, ReturnType DEF IInv, TypeOK, Lookup
  <2>2. CASE ~ Lookup(g)
    BY <2>2 DEF IInv, TypeOK, CallLocalPort, CallStop, CallStopAll, Calls
  <2> QED BY <2>1, <2>2
<1>3. TypeOK' /\ ErrorEnded' /\ HasPod' /\ EntryFits'
  BY <1>0, <1>1, <1>2 DEF IInv, TypeOK, ErrorEnded, HasPod, EntryFits
<1>4. DialerHolds' /\ CallFits'
  BY <1>1, <1>2 DEF IInv, DialerHolds, CallFits, At
<1>5. DialFits'
  BY <1>1, <1>2 DEF IInv, DialFits, At, Dialed, Entry
<1>6. Reachable'
  BY <1>1, <1>2 DEF IInv, TypeOK, Reachable, Running, At
<1> QED BY <1>3, <1>4, <1>5, <1>6 DEF IInv

\* A caller that enters returns, or starts to dial a forward nobody knows.
LEMMA EnterIInv ==
  ASSUME IInv, NEW g \in Callers, Enter(g)
  PROVE IInv'
<1>1. CASE /\ Return(g, Entry(g)) \/ Return(g, None)
           /\ UNCHANGED <<forwards, holder, conn>>
  <2>1. call'[g] = Idle /\ \A h \in Callers \ {g} : call'[h] = call[h]
    BY <1>1 DEF IInv, TypeOK, Return
  <2>2. TypeOK' /\ ErrorEnded' /\ HasPod' /\ EntryFits'
    <3>1. Entry(g) \in Conns \cup {None}
      BY DEF IInv, TypeOK, CallFits, Enter, At, Entry
    <3>2. port' \in [Callers -> Conns \cup {None}]
      BY <1>1, <3>1, ReturnType DEF IInv
    <3> QED
      BY <1>1, <3>2 DEF IInv, TypeOK, ErrorEnded, HasPod, EntryFits, Return, Idle, CallSteps
  <2>3. DialerHolds' /\ CallFits' /\ DialFits'
    BY <1>1, <2>1 DEF IInv, Enter, Idle, DialerHolds, CallFits, DialFits, At, Dialed, Entry
  <2>4. Reachable'
    BY <1>1, <2>1 DEF IInv, TypeOK, Enter, Reachable, Running, At, Idle
  <2> QED BY <2>2, <2>3, <2>4 DEF IInv
<1>2. ASSUME NEW c \in Conns, Free(c), UNCHANGED <<forwards, port>>, holder' = g, Entry(g) = None,
             conn' = [conn EXCEPT ![c] = [Unused EXCEPT !.pod = call[g].pod, !.state = "dialing"]],
             call' = [call EXCEPT ![g].pc = "dial", ![g].conn = c]
      PROVE IInv'
  <2>0. /\ UNCHANGED forwards /\ holder' = g /\ Entry(g) = None
        /\ \A q \in Pods : forwards[q] # c
        /\ \A h \in Callers : call[h].conn # c
    BY <1>2 DEF Free
  <2>1. /\ conn'[c] = [pod |-> call[g].pod, state |-> "dialing",
                       ready |-> FALSE, err |-> FALSE, stop |-> FALSE]
        /\ \A d \in Conns \ {c} : conn'[d] = conn[d]
        /\ call'[g].pc = "dial" /\ call'[g].conn = c /\ call'[g].pod = call[g].pod
        /\ \A h \in Callers \ {g} : call'[h] = call[h]
        /\ call[g].pod \in Pods
        /\ holder = None
    BY <1>2 DEF IInv, TypeOK, CallFits, Enter, Unused, At, Unlocked
  <2>2. TypeOK'
    BY ZenonT(40), <1>2, <2>1 DEF IInv, TypeOK, Unused, CallSteps, ConnStates
  <2>3. DialerHolds' /\ CallFits'
    BY <2>0, <2>1, PortForwardsAssumption DEF IInv, DialerHolds, CallFits, At
  <2>4. DialFits'
    BY <2>0, <2>1, PortForwardsAssumption DEF IInv, DialFits, DialerHolds, At, Dialed, Entry
  <2>5. ErrorEnded' /\ HasPod'
    BY <2>0, <2>1 DEF IInv, ErrorEnded, HasPod
  <2>6. EntryFits'
    BY <2>0, <2>1 DEF IInv, TypeOK, EntryFits
  <2>7. Reachable'
    BY <2>0, <2>1, PortForwardsAssumption DEF IInv, Reachable, Running, At
  <2> QED BY <2>2, <2>3, <2>4, <2>5, <2>6, <2>7 DEF IInv
<1> QED BY <1>1, <1>2 DEF Enter, Dial

\* The forward that is ready becomes the entry of its pod, which had none.
LEMMA ReadyIInv ==
  ASSUME IInv, NEW g \in Callers, Ready(g)
  PROVE IInv'
<1> DEFINE c == call[g].conn
<1> DEFINE p == call[g].pod
<1>1. /\ At(g, "dial") /\ holder = g /\ c \in Conns /\ p \in Pods
      /\ conn[c].pod = p /\ conn[c].ready /\ ~conn[c].stop /\ forwards[p] = None
  BY DEF IInv, Ready, DialerHolds, CallFits, DialFits, At, Dialed, Entry
<1>2. /\ forwards'[p] = c /\ \A q \in Pods \ {p} : forwards'[q] = forwards[q]
      /\ holder' = None /\ conn' = conn
      /\ call'[g] = Idle /\ \A h \in Callers \ {g} : call'[h] = call[h]
  BY <1>1 DEF IInv, TypeOK, Ready, Return
<1>3. TypeOK' /\ ErrorEnded' /\ HasPod'
  BY <1>1, <1>2 DEF IInv, TypeOK, ErrorEnded, HasPod, Ready, Return, Idle, CallSteps
<1>4. DialerHolds' /\ CallFits' /\ DialFits'
  BY <1>1, <1>2, PortForwardsAssumption
     DEF IInv, DialerHolds, CallFits, DialFits, At, Idle, Dialed, Entry
<1>5. EntryFits'
  BY <1>1, <1>2 DEF IInv, EntryFits
<1>6. Reachable'
  BY <1>1, <1>2, PortForwardsAssumption DEF IInv, HasPod, Reachable, Running, At
<1> QED BY <1>3, <1>4, <1>5, <1>6 DEF IInv

\* A forward whose dial failed does not run, and nobody knows it.
LEMMA FailedIInv ==
  ASSUME IInv, NEW g \in Callers, Failed(g)
  PROVE IInv'
<1> DEFINE c == call[g].conn
<1>1. At(g, "dial") /\ holder = g /\ c \in Conns /\ conn[c].err /\ conn[c].state = "ended"
  BY DEF IInv, Failed, DialerHolds, DialFits, ErrorEnded, At, Dialed
<1>2. /\ conn'[c] = [conn[c] EXCEPT !.err = FALSE]
      /\ \A d \in Conns \ {c} : conn'[d] = conn[d]
      /\ holder' = None /\ forwards' = forwards
      /\ call'[g] = Idle /\ \A h \in Callers \ {g} : call'[h] = call[h]
  BY <1>1 DEF IInv, TypeOK, Failed, Return
<1>3. \A d \in Conns : /\ conn'[d].pod = conn[d].pod /\ conn'[d].state = conn[d].state
                       /\ conn'[d].stop = conn[d].stop /\ conn'[d].ready = conn[d].ready
                       /\ conn'[d].err => conn[d].err
  BY <1>1, <1>2 DEF IInv, TypeOK
<1>4. TypeOK' /\ ErrorEnded' /\ HasPod'
  <2>1. ConnType'
    BY ZenonT(40), <1>1 DEF IInv, TypeOK, Failed, ConnType
  <2>2. TypeOK'
    BY <1>2, <2>1 DEF IInv, TypeOK, ConnType, Failed, Return, Idle, CallSteps
  <2> QED BY <1>3, <2>2 DEF IInv, ErrorEnded, HasPod
<1>5. DialerHolds' /\ CallFits' /\ DialFits'
  BY <1>1, <1>2, <1>3, PortForwardsAssumption
     DEF IInv, DialerHolds, CallFits, DialFits, At, Idle, Dialed, Entry
<1>6. EntryFits'
  BY <1>2, <1>3 DEF IInv, TypeOK, EntryFits
<1>7. Reachable'
  BY <1>1, <1>2, <1>3 DEF IInv, Reachable, Running, At
<1> QED BY <1>4, <1>5, <1>6, <1>7 DEF IInv

\* What Stop and StopAll cut is stopped and has no entry, the rest is untouched:
\* two pods never share an entry, because each knows its pod.
LEMMA CutIInv ==
  ASSUME IInv, NEW g \in Callers, NEW ps \in SUBSET Pods,
         ~At(g, "dial"), Unlocked, Cut(ps), Return(g, None), UNCHANGED holder
  PROVE IInv'
<1>1. /\ \A p \in Pods : forwards'[p] = IF p \in ps THEN None ELSE forwards[p]
      /\ \A c \in Conns : /\ conn'[c].pod = conn[c].pod /\ conn'[c].state = conn[c].state
                          /\ conn'[c].err = conn[c].err /\ conn'[c].ready = conn[c].ready
                          /\ conn'[c].stop <=> (conn[c].stop \/ \E p \in ps : forwards[p] = c)
      /\ holder' = None
      /\ call'[g] = Idle /\ \A h \in Callers \ {g} : call'[h] = call[h]
  BY DEF IInv, TypeOK, Cut, Return, Unlocked
<1>2. TypeOK' /\ ErrorEnded' /\ HasPod'
  <2>1. ConnType'
    BY ZenonT(40) DEF IInv, TypeOK, Cut, ConnType
  <2>2. forwards' \in [Pods -> Conns \cup {None}]
    BY DEF IInv, TypeOK, Cut
  <2>3. TypeOK'
    BY <1>1, <2>1, <2>2 DEF IInv, TypeOK, ConnType, Return, Idle, CallSteps
  <2> QED BY <1>1, <2>3 DEF IInv, ErrorEnded, HasPod
<1>3. DialerHolds' /\ CallFits' /\ DialFits'
  BY <1>1, PortForwardsAssumption
     DEF IInv, DialerHolds, CallFits, DialFits, At, Idle, Unlocked
<1>4. EntryFits'
  BY <1>1 DEF IInv, TypeOK, EntryFits
<1>5. Reachable'
  <2> SUFFICES ASSUME NEW c \in Conns, Running(c)' PROVE forwards'[conn[c].pod] = c
    BY <1>1 DEF Reachable
  <2>1. Running(c) /\ \A p \in ps : forwards[p] # c
    BY <1>1 DEF Running
  <2>2. forwards[conn[c].pod] = c /\ conn[c].pod \in Pods
    BY <2>1 DEF IInv, HasPod, Reachable, Running, Unlocked
  <2> QED BY <1>1, <2>1, <2>2
<1> QED BY <1>2, <1>3, <1>4, <1>5 DEF IInv

\* Steps of a forward's goroutine change neither its pod nor its stop channel.
LEMMA ForwardIInv ==
  ASSUME IInv, NEW c \in Conns, Connect(c) \/ Break(c) \/ Close(c)
  PROVE IInv'
<1>1. /\ UNCHANGED <<forwards, holder, call, port>>
      /\ conn[c].state \in {"dialing", "up"}
      /\ conn'[c].pod = conn[c].pod /\ conn'[c].stop = conn[c].stop
      /\ conn[c].ready => conn'[c].ready
      /\ conn'[c].state # "unused"
      /\ conn'[c].err => conn'[c].state = "ended"
      /\ \A d \in Conns \ {c} : conn'[d] = conn[d]
      /\ ConnType'
  <2>1. conn[c].state # "ended" => ~conn[c].err
    BY DEF IInv, ErrorEnded
  <2>2. CASE Connect(c)
    <3>1. ConnType'
      BY ZenonT(40), <2>2 DEF IInv, TypeOK, Connect, Becomes, ConnType, ConnStates
    <3> QED BY <2>1, <2>2, <3>1 DEF IInv, TypeOK, Connect, Becomes
  <2>3. CASE Break(c)
    <3>1. ConnType'
      BY ZenonT(40), <2>3 DEF IInv, TypeOK, Break, Becomes, ConnType, ConnStates
    <3> QED BY <2>3, <3>1 DEF IInv, TypeOK, Break, Becomes
  <2>4. CASE Close(c)
    <3>1. ConnType'
      BY <2>4 DEF IInv, TypeOK, Close, Becomes, ConnType, ConnStates
    <3> QED BY <2>1, <2>4, <3>1 DEF IInv, TypeOK, Close, Becomes
  <2> QED BY <2>2, <2>3, <2>4
<1>2. \A d \in Conns : /\ conn'[d].pod = conn[d].pod /\ conn'[d].stop = conn[d].stop
                       /\ conn[d].ready => conn'[d].ready
                       /\ d # c => conn'[d] = conn[d]
  BY <1>1
<1>3. TypeOK' /\ ErrorEnded' /\ HasPod'
  BY <1>1 DEF IInv, TypeOK, ConnType, ErrorEnded, HasPod
<1>4. DialerHolds' /\ CallFits' /\ DialFits'
  BY <1>1, <1>2 DEF IInv, DialerHolds, CallFits, DialFits, At, Dialed, Entry
<1>5. EntryFits'
  BY <1>1, <1>2 DEF IInv, TypeOK, EntryFits
<1>6. Reachable'
  BY <1>1, <1>2 DEF IInv, Reachable, Running, At
<1> QED BY <1>3, <1>4, <1>5, <1>6 DEF IInv

LEMMA NextIInv == IInv /\ [Next]_vars => IInv'
<1> SUFFICES ASSUME IInv, [Next]_vars PROVE IInv'
  OBVIOUS
<1>1. ASSUME NEW g \in Callers, CallLocalPort(g) \/ CallStop(g) \/ CallStopAll(g) \/ Lookup(g)
      PROVE IInv'
  BY <1>1, CallsIInv
<1>2. ASSUME NEW g \in Callers, Enter(g) PROVE IInv'
  BY <1>2, EnterIInv
<1>3. ASSUME NEW g \in Callers, Ready(g) PROVE IInv'
  BY <1>3, ReadyIInv
<1>4. ASSUME NEW g \in Callers, Failed(g) PROVE IInv'
  BY <1>4, FailedIInv
<1>5. ASSUME NEW g \in Callers, Stop(g) PROVE IInv'
  <2>1. {call[g].pod} \in SUBSET Pods /\ ~At(g, "dial")
    BY <1>5 DEF IInv, CallFits, Stop, At
  <2> QED BY <1>5, <2>1, CutIInv DEF Stop
<1>6. ASSUME NEW g \in Callers, StopAll(g) PROVE IInv'
  <2>1. Pods \in SUBSET Pods /\ ~At(g, "dial")
    BY <1>6 DEF StopAll, At
  <2> QED BY <1>6, <2>1, CutIInv DEF StopAll
<1>7. ASSUME NEW c \in Conns, Connect(c) \/ Break(c) \/ Close(c) PROVE IInv'
  BY <1>7, ForwardIInv
<1>8. CASE UNCHANGED vars
  BY <1>8 DEF vars, IInv, TypeOK, DialerHolds, CallFits, DialFits, ErrorEnded,
              HasPod, EntryFits, Reachable, Running, At, Dialed, Entry
<1> QED BY <1>1, <1>2, <1>3, <1>4, <1>5, <1>6, <1>7, <1>8 DEF Next, LockStep, Selects

LEMMA Invariance == Spec => []IInv
BY InitIInv, NextIInv, PTL DEF Spec

-----------------------------------------------------------------------------
\* The manager keeps its types: no call is left without the forward it dials, and
\* no goroutine leaves the states of a forward.
THEOREM ForwardTypes == Spec => []TypeOK
BY Invariance, PTL DEF IInv

\* Every forward that runs can be stopped.
THEOREM AlwaysReachable == Spec => []Reachable
BY Invariance, PTL DEF IInv

\* An entry is a forward of its pod that was ready, and no channel is closed twice.
THEOREM EntriesFit == Spec => []EntryFits
BY Invariance, PTL DEF IInv

\* Concurrent callers share one forward of a pod.
THEOREM SingleForward == Spec => []OneForward
<1>1. IInv => OneForward
  BY PortForwardsAssumption
     DEF IInv, TypeOK, OneForward, Reachable, DialFits, Running, Entry, Dialed, At
<1> QED BY <1>1, Invariance, PTL

-----------------------------------------------------------------------------
(* The table that callers see. *)

asksBar == [g \in Callers |-> Asks(g)]

\* What a call waits for is a matter of its own record.
LEMMA AsksOf ==
  ASSUME NEW g \in Callers
  PROVE  /\ At(g, "idle") <=> Asks(g) = Table!Nothing
         /\ At(g, "stop") => Asks(g) = [op |-> "drop", pod |-> call[g].pod]
         /\ At(g, "stopAll") => Asks(g) = [op |-> "dropAll", pod |-> None]
         /\ call[g].pc \in {"lookup", "enter", "dial"} =>
              Asks(g) = [op |-> "get", pod |-> call[g].pod]
BY DEF Asks, At, Table!Nothing

LEMMA OthersAsk ==
  ASSUME NEW g \in Callers, \A h \in Callers \ {g} : call'[h] = call[h]
  PROVE  asksBar' = [asksBar EXCEPT ![g] = Asks(g)']
<1>1. \A h \in Callers \ {g} : Asks(h)' = Asks(h)
  BY DEF Asks, At
<1> QED BY <1>1 DEF asksBar

\* A call that returns asks for nothing any more.
LEMMA ReturnEnds ==
  ASSUME TypeOK, NEW g \in Callers, NEW c, Return(g, c)
  PROVE  /\ asksBar' = [asksBar EXCEPT ![g] = Table!Nothing]
         /\ port' = [port EXCEPT ![g] = c]
<1>1. call'[g] = Idle /\ \A h \in Callers \ {g} : call'[h] = call[h]
  BY DEF TypeOK, Return
<1>2. Asks(g)' = Table!Nothing
  BY <1>1 DEF Asks, At, Idle, Table!Nothing
<1> QED BY <1>1, <1>2, OthersAsk DEF Return

\* A call begins.
LEMMA BeginsTable ==
  ASSUME IInv, NEW g \in Callers, CallLocalPort(g) \/ CallStop(g) \/ CallStopAll(g)
  PROVE  Table!Ask(g)
<1>1. PICK pc, p :
        /\ pc \in {"lookup", "stop", "stopAll"} /\ Calls(g, pc, p)
        /\ (pc = "stopAll" => p = None) /\ (pc # "stopAll" => p \in Pods)
  BY DEF CallLocalPort, CallStop, CallStopAll
<1>2. /\ call'[g] = [pc |-> pc, pod |-> p, conn |-> None]
      /\ \A h \in Callers \ {g} : call'[h] = call[h]
  BY <1>1 DEF IInv, TypeOK, Calls
<1>3. Asks(g)' \in Table!Questions
  BY <1>1, <1>2 DEF Asks, At, Table!Questions
<1>4. asksBar[g] = Table!Nothing
  BY <1>1, AsksOf DEF Calls, asksBar
<1>5. asksBar' = [asksBar EXCEPT ![g] = Asks(g)']
  BY <1>2, OthersAsk
<1> QED BY <1>1, <1>3, <1>4, <1>5 DEF Table!Ask, asksBar, Calls

\* A call of LocalPort that returns without a change of the map: it has found an
\* entry, or there was none for it to find.
LEMMA FindsTable ==
  ASSUME IInv, NEW g \in Callers, call[g].pc \in {"lookup", "enter", "dial"},
         NEW c, Return(g, c), UNCHANGED forwards,
         \/ Entry(g) # None /\ c = Entry(g)
         \/ Entry(g) = None /\ c = None
  PROVE  Table!Next
<1> DEFINE p == call[g].pod
<1>1. p \in Pods /\ asksBar[g] = [op |-> "get", pod |-> p]
  BY AsksOf DEF IInv, CallFits, asksBar
<1>2. Table!Gets(g, p)
  BY <1>1 DEF Table!Gets, asksBar
<1>3. Table!Ends(g, c)
  BY ReturnEnds DEF IInv, Table!Ends, asksBar
<1> HIDE DEF p
<1>4. Table!Find(g, p) \/ Table!Fail(g, p)
  BY <1>2, <1>3 DEF Table!Find, Table!Fail, Entry, p
<1> QED BY <1>1, <1>4 DEF Table!Next

\* The map changes when the forward is ready: the pod has no entry, because its
\* caller kept the lock, and no pod has the forward, because its caller does.
LEMMA OpensTable ==
  ASSUME IInv, NEW g \in Callers, Ready(g)
  PROVE  Table!Next
<1> DEFINE p == call[g].pod
           c == call[g].conn
<1>1. /\ p \in Pods /\ c \in Conns /\ conn[c].pod = p /\ forwards[p] = None
      /\ asksBar[g] = [op |-> "get", pod |-> p]
  BY AsksOf DEF IInv, CallFits, DialFits, Ready, At, Dialed, Entry, asksBar
<1>2. \A q \in Pods : forwards[q] # c
  BY <1>1, PortForwardsAssumption DEF IInv, TypeOK, EntryFits
<1>3. Table!Gets(g, p)
  BY <1>1 DEF Table!Gets, asksBar
<1>4. Table!Ends(g, c) /\ forwards' = [forwards EXCEPT ![p] = c]
  BY ReturnEnds DEF IInv, Ready, Table!Ends, asksBar
<1> HIDE DEF p, c
<1>5. Table!Open(g, p, c)
  BY <1>1, <1>2, <1>3, <1>4 DEF Table!Open
<1> QED BY <1>1, <1>5 DEF Table!Next

\* Stop and StopAll.
LEMMA DropsTable ==
  ASSUME IInv, NEW g \in Callers, Stop(g) \/ StopAll(g)
  PROVE  Table!Drop(g)
<1>1. Table!Ends(g, None)
  BY ReturnEnds DEF IInv, Stop, StopAll, Table!Ends, asksBar
<1>2. CASE Stop(g)
  <2>1. asksBar[g] = [op |-> "drop", pod |-> call[g].pod]
    BY <1>2, AsksOf DEF Stop, At, asksBar
  <2>2. forwards' = [p \in Pods |-> IF call[g].pod = p THEN None ELSE forwards[p]]
    BY <1>2 DEF Stop, Cut
  <2> QED BY <1>1, <2>1, <2>2 DEF Table!Drop, asksBar
<1>3. CASE StopAll(g)
  <2>1. asksBar[g] = [op |-> "dropAll", pod |-> None]
    BY <1>3, AsksOf DEF StopAll, At, asksBar
  <2>2. forwards' = [p \in Pods |-> None]
    BY <1>3 DEF StopAll, Cut
  <2> QED BY <1>1, <2>1, <2>2 DEF Table!Drop, asksBar
<1> QED BY <1>2, <1>3

\* A call of LocalPort goes on.
Proceeds(g, c) ==
  /\ call[g].pc \in {"lookup", "enter"}
  /\ \/ call' = [call EXCEPT ![g].pc = "enter"]
     \/ call' = [call EXCEPT ![g].pc = "dial", ![g].conn = c]

\* The steps that callers do not see.
LEMMA UnseenTable ==
  ASSUME IInv, UNCHANGED <<forwards, port>>,
         UNCHANGED call \/ \E g \in Callers : \E c : Proceeds(g, c)
  PROVE  UNCHANGED Table!tableVars
<1>1. asksBar' = asksBar
  <2>1. CASE UNCHANGED call
    BY <2>1 DEF asksBar, Asks, At
  <2>2. ASSUME NEW g \in Callers, NEW c, Proceeds(g, c)
        PROVE  asksBar' = asksBar
    <3>1. /\ call'[g].pc \in {"enter", "dial"} /\ call'[g].pod = call[g].pod
          /\ \A h \in Callers \ {g} : call'[h] = call[h]
      BY <2>2 DEF IInv, TypeOK, Proceeds
    <3>2. Asks(g)' = Asks(g)
      BY <2>2, <3>1 DEF Asks, At, Proceeds
    <3>3. \A h \in Callers : Asks(h)' = Asks(h)
      BY <3>1, <3>2 DEF Asks, At
    <3> QED BY <3>3 DEF asksBar
  <2> QED BY <2>1, <2>2
<1> QED BY <1>1 DEF Table!tableVars, asksBar

LEMMA InitTable == Init => Table!Init
BY DEF Init, Idle, Asks, At, Table!Init, Table!Nothing

LEMMA StepTable == IInv /\ [Next]_vars => [Table!Next]_(Table!tableVars)
<1> SUFFICES ASSUME IInv, [Next]_vars PROVE Table!Next \/ UNCHANGED Table!tableVars
  OBVIOUS
<1>1. ASSUME NEW g \in Callers, CallLocalPort(g) \/ CallStop(g) \/ CallStopAll(g)
      PROVE  Table!Next
  BY <1>1, BeginsTable DEF Table!Next
<1>2. ASSUME NEW g \in Callers, Lookup(g)
      PROVE  Table!Next \/ UNCHANGED Table!tableVars
  <2>1. CASE Return(g, Entry(g)) /\ Entry(g) # None
    BY <1>2, <2>1, FindsTable DEF Lookup, At
  <2>2. CASE call' = [call EXCEPT ![g].pc = "enter"] /\ UNCHANGED port
    <3>1. Proceeds(g, None)
      BY <1>2, <2>2 DEF Lookup, At, Proceeds
    <3> QED BY <1>2, <2>2, <3>1, UnseenTable DEF Lookup
  <2> QED BY <1>2, <2>1, <2>2 DEF Lookup
<1>3. ASSUME NEW g \in Callers, Enter(g)
      PROVE  Table!Next \/ UNCHANGED Table!tableVars
  <2>1. CASE Return(g, Entry(g)) /\ Entry(g) # None /\ UNCHANGED forwards
    BY <1>3, <2>1, FindsTable DEF Enter, At
  <2>2. CASE Return(g, None) /\ Entry(g) = None /\ UNCHANGED forwards
    BY <1>3, <2>2, FindsTable DEF Enter, At
  <2>3. ASSUME NEW c, UNCHANGED <<forwards, port>>,
               call' = [call EXCEPT ![g].pc = "dial", ![g].conn = c]
        PROVE  UNCHANGED Table!tableVars
    <3>1. Proceeds(g, c)
      BY <1>3, <2>3 DEF Enter, At, Proceeds
    <3> QED BY <2>3, <3>1, UnseenTable
  <2> QED BY <1>3, <2>1, <2>2, <2>3 DEF Enter, Dial
<1>4. ASSUME NEW g \in Callers, Ready(g) PROVE Table!Next
  BY <1>4, OpensTable
<1>5. ASSUME NEW g \in Callers, Failed(g) PROVE Table!Next
  <2>1. Entry(g) = None
    BY <1>5 DEF IInv, DialFits, Failed
  <2> QED BY <1>5, <2>1, FindsTable DEF Failed, At
<1>6. ASSUME NEW g \in Callers, Stop(g) \/ StopAll(g) PROVE Table!Next
  BY <1>6, DropsTable DEF Table!Next
<1>7. ASSUME NEW c \in Conns, Connect(c) \/ Break(c) \/ Close(c)
      PROVE  UNCHANGED Table!tableVars
  BY <1>7, UnseenTable DEF Connect, Break, Close, Becomes
<1>8. CASE UNCHANGED vars
  BY <1>8, UnseenTable DEF vars
<1> QED BY <1>1, <1>2, <1>3, <1>4, <1>5, <1>6, <1>7, <1>8 DEF Next, LockStep, Selects

\* LocalPort, Stop and StopAll are atomic to their callers, for any number of
\* them: what a caller found under the read lock does not matter, and what it
\* found under the write lock still holds when the dial is over.
THEOREM TableOfForwards == Spec => ImplementsTable
BY InitTable, StepTable, Invariance, PTL DEF Spec, ImplementsTable, Table!Spec
=============================================================================
