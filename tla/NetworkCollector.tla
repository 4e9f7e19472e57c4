-------------------------- MODULE NetworkCollector --------------------------
(***************************************************************************)
(* The loop of NetworkCollector: at every tick it lists the nodes, reads   *)
(* the metrics of each, adds up the traffic of every pod that they name,   *)
(* and sets the gauge of its own namespace.  Nothing fills the labels      *)
(* TenantID and UserEmail, so that the pods of the namespace share one     *)
(* gauge, on all nodes.                                                    *)
(***************************************************************************)
EXTENDS Integers, SequencesExt

CONSTANTS
  Nodes,
  Pods,      \* names of pods
  Own,       \* the namespace that is watched
  Other,     \* any other namespace
  None,      \* an empty label
  Series,    \* the time series that nodes report
  MaxReceived, \* bound: the receiving series of an answer
  MaxSeries    \* bound: the transmitting ones

\* EXTERNAL_EGRESS_RATIO, the share of the traffic that leaves the cluster; the
\* model counts in tenths.
Ratio == 2

\* infra stands for the container names "POD" and "k8s_...".
ASSUME SeriesAssumption ==
  Series \subseteq [pod : Pods \cup {None}, namespace : {Own, Other, None},
                   infra : BOOLEAN, value : Nat]

\* The empty label names neither a pod nor a namespace.
ASSUME NoneAssumption == None \notin Pods \cup {Own, Other}

ASSUME MaxSeriesAssumption == MaxReceived \in Nat /\ MaxSeries \in Nat

\* The two families of an answer that can be parsed.  The parser drops a family
\* without series.  A receiving series only names its pod.
Body == [rx : BoundedSeq(Series, MaxReceived) \ {<<>>},
         tx : BoundedSeq(Series, MaxSeries) \ {<<>>}]

Keys == {Own, Other} \X Pods

VARIABLES
  pc,       \* of the loop
  stopped,  \* stopCh is closed or the context cancelled
  listed,   \* the nodes of this round
  tried,    \* those of them that are dealt with
  body,     \* the answer that is being shown
  metrics,  \* podMetrics: what is left to show of it
  gauge     \* NetworkEgressExternal

vars == <<pc, stopped, listed, tried, body, metrics, gauge>>

NoBody == [rx |-> <<>>, tx |-> <<>>]

TypeOK ==
  /\ pc \in {"select", "list", "nodes", "get", "emit", "ended"}
  /\ stopped \in BOOLEAN
  /\ tried \subseteq listed /\ listed \subseteq Nodes
  /\ body \in Body \cup {NoBody}
  /\ \A k \in DOMAIN metrics : k \in Keys /\ metrics[k] \in Nat
  /\ gauge \in Nat

Init ==
  /\ pc = "select" /\ stopped = FALSE
  /\ listed = {} /\ tried = {}
  /\ body = NoBody /\ metrics = <<>>
  /\ gauge = 0

-----------------------------------------------------------------------------
(* The traffic of the pods in one answer. *)

\* Mutant: the labels of the pod are taken for granted.
SkippedInfra(s) == s.infra

Skipped(s) == s.pod = None \/ s.namespace = None \/ s.infra

KeyOf(s) == <<s.namespace, s.pod>>

\* Mutant: the last series of a pod instead of the sum of all.
AddsLast(m, s, egress) ==
  IF Skipped(s) THEN m ELSE (KeyOf(s) :> egress) @@ m

\* What m has for the pod k so far.
Val(m, k) == IF k \in DOMAIN m THEN m[k] ELSE 0

\* processNetworkMetric: an entry for a new pod, and what it adds to the egress.
Adds(m, s, egress) ==
  IF Skipped(s) THEN m
  ELSE [k \in DOMAIN m \cup {KeyOf(s)} |->
          IF k = KeyOf(s) THEN Val(m, k) + egress ELSE m[k]]

\* The receiving series come first and leave an entry without any egress.
PodMetrics(b) ==
  LET received == FoldLeft(LAMBDA m, s : Adds(m, s, 0), <<>>, b.rx)
  IN  FoldLeft(LAMBDA m, s : Adds(m, s, Ratio * s.value), received, b.tx)

-----------------------------------------------------------------------------
Stop ==
  /\ ~stopped
  /\ stopped' = TRUE
  /\ UNCHANGED <<pc, listed, tried, body, metrics, gauge>>

\* Of a tick and a closed channel, select takes either.
Tick ==
  /\ pc = "select"
  /\ pc' = "list"
  /\ UNCHANGED <<stopped, listed, tried, body, metrics, gauge>>

\* Mutant: the branch breaks out of the select and not out of the loop.
EndBreaks ==
  /\ pc = "select" /\ stopped
  /\ UNCHANGED vars

End ==
  /\ pc = "select" /\ stopped
  /\ pc' = "ended"
  /\ UNCHANGED <<stopped, listed, tried, body, metrics, gauge>>

\* Mutant: Start returns the error of a round.
ListNodesReturns ==
  /\ pc = "list"
  /\ \/ pc' = "ended" /\ UNCHANGED <<listed, tried>>
     \/ pc' = "nodes" /\ listed' \in SUBSET Nodes /\ tried' = {}
  /\ UNCHANGED <<stopped, body, metrics, gauge>>

\* Start logs the error of a round and waits for the next tick.
ListNodes ==
  /\ pc = "list"
  /\ \/ pc' = "select" /\ UNCHANGED <<listed, tried>>
     \/ pc' = "nodes" /\ listed' \in SUBSET Nodes /\ tried' = {}
  /\ UNCHANGED <<stopped, body, metrics, gauge>>

\* Mutant: the first node that fails ends the round.
AfterNodeErrorReturns == "select"

\* The error of a node is logged, and the next one has its turn.
AfterNodeError == "nodes"

Round(next) ==
  /\ pc' = next
  /\ UNCHANGED <<stopped, listed, body, metrics, gauge>>

\* scrapeNodeCAdvisor asks a node that has an internal address.
AskNode ==
  /\ pc = "nodes"
  /\ \E n \in listed \ tried : tried' = tried \cup {n}
  /\ Round("get") \/ Round(AfterNodeError)

RoundEnds ==
  /\ pc = "nodes" /\ tried = listed
  /\ Round("select")
  /\ UNCHANGED tried

\* http.Get and the body: no connection, another status, a body that breaks off
\* or cannot be parsed, a family that is missing.
GetFails ==
  /\ pc = "get"
  /\ Round(AfterNodeError)
  /\ UNCHANGED tried

GetAnswers ==
  /\ pc = "get"
  /\ \E b \in Body : body' = b /\ metrics' = PodMetrics(b)
  /\ pc' = "emit"
  /\ UNCHANGED <<stopped, listed, tried, gauge>>

\* One turn of the loop over podMetrics, in the order in which Go takes a map.
Emit ==
  /\ pc = "emit"
  /\ \E k \in DOMAIN metrics :
       /\ gauge' = IF k[1] = Own THEN metrics[k] ELSE gauge
       /\ metrics' = Restrict(metrics, DOMAIN metrics \ {k})
  /\ UNCHANGED <<pc, stopped, listed, tried, body>>

EmitEnds ==
  /\ pc = "emit" /\ metrics = <<>>
  /\ pc' = "nodes"
  /\ body' = NoBody
  /\ UNCHANGED <<stopped, listed, tried, metrics, gauge>>

Next ==
  \/ Stop \/ Tick \/ End
  \/ ListNodes \/ AskNode \/ RoundEnds
  \/ GetFails \/ GetAnswers \/ Emit \/ EmitEnds

Spec == Init /\ [][Next]_vars

\* The goroutine goes on, and a select that finds the channel closed again and
\* again takes it some time.  A node may hold the connection open for ever:
\* http.Get has neither a deadline nor the context, so that nothing is assumed
\* about its end.
Fairness ==
  /\ WF_vars(Tick \/ End) /\ WF_vars(ListNodes) /\ WF_vars(AskNode \/ RoundEnds)
  /\ WF_vars(Emit \/ EmitEnds)
  /\ SF_vars(End)

FairSpec == Spec /\ Fairness

-----------------------------------------------------------------------------
(* Properties. *)

\* A round deals with every node it listed, whatever fails on the way: one node
\* without an address or without an answer does not cost the others theirs.
AllTried == pc = "select" => tried = listed

\* What a pod sent to the outside, by definition.
Egress(b, p) ==
  LET of == {i \in DOMAIN b.tx : /\ b.tx[i].pod = p /\ b.tx[i].namespace = Own
                                 /\ ~b.tx[i].infra}
  IN  MapThenSumSet(LAMBDA i : Ratio * b.tx[i].value, of)

\* What is added up for a pod of the namespace, series by series and in the order
\* of the answer, is the whole egress of that pod and nothing of another: neither
\* its pause container, nor its namesake in another namespace, nor what it received
\* counts.  Which of these numbers the gauge should show is not said here.
PodTotals ==
  \A k \in DOMAIN metrics : k[1] = Own => metrics[k] = Egress(body, k[2])

\* As long as no node holds a connection open, the loop ends after Stop.
Ends == []<>(pc # "get") => (stopped ~> pc = "ended")

\* As long as no node holds a connection open, no failure keeps the loop from
\* the next round.
KeepsCollecting == []<>(pc # "get") => []<>(pc = "list" \/ stopped)

=============================================================================
