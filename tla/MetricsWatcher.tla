--------------------------- MODULE MetricsWatcher ---------------------------
(***************************************************************************)
(* The goroutines that MetricsWatcher.Start begins: the watch loop, the    *)
(* loop that reads the metrics API and sets the gauges of the pods that    *)
(* are cached, and the loop that flushes the resource version.  They share *)
(* the cache and stopCh.  PodManager gives no pod the label tenant_id or   *)
(* the annotation user_email, so that all pods set the same two gauges.    *)
(***************************************************************************)
EXTENDS MetricsWatch

CONSTANT None   \* no pod

ASSUME NoneAssumption == None \notin Pods

VARIABLES
  scraped,  \* pods of podMetricsList that emitPodMetrics has still to see
  gauge,    \* the pod whose usage the gauges show
  loops     \* of collectMetrics and flushResourceVersion, those that run

collector == <<scraped, gauge, loops>>
watcherVars == <<vars, collector>>

Loops == {"collect", "flush"}

WatcherTypeOK ==
  /\ TypeOK
  /\ scraped \subseteq Pods
  /\ gauge \in Pods \cup {None}
  /\ loops \subseteq Loops

WatcherInit ==
  /\ Init
  /\ scraped = {} /\ gauge = None /\ loops = Loops

-----------------------------------------------------------------------------
\* Mutant: a timer instead of the ticker.
TicksOnce == "collect" \in loops /\ scraped = {} /\ gauge = None

Ticks == "collect" \in loops /\ scraped = {}

\* The metrics API lists the pods that exist.  A list that fails is tried again
\* at the next tick and changes nothing.
Scrape ==
  /\ Ticks
  /\ scraped' = live
  /\ UNCHANGED <<vars, gauge, loops>>

GaugeAfter(p) == IF p \in cache THEN p ELSE gauge

Emit ==
  /\ \E p \in scraped :
       /\ scraped' = scraped \ {p}
       /\ gauge' = GaugeAfter(p)
  /\ UNCHANGED <<vars, loops>>

\* Between two scrapes; of a tick and a closed stopCh, select takes either.
CollectEnds ==
  /\ stopped
  /\ "collect" \in loops /\ scraped = {}
  /\ loops' = loops \ {"collect"}
  /\ UNCHANGED <<vars, scraped, gauge>>

\* A flush keeps nothing, the last one neither.
FlushEnds ==
  /\ stopped
  /\ "flush" \in loops
  /\ loops' = loops \ {"flush"}
  /\ UNCHANGED <<vars, scraped, gauge>>

-----------------------------------------------------------------------------
WatcherNext ==
  \/ Next /\ UNCHANGED collector
  \/ Scrape \/ Emit \/ CollectEnds \/ FlushEnds

WatcherSpec == WatcherInit /\ [][WatcherNext]_watcherVars

\* The watch loop is fair as by itself; a scrape goes on, ticks go on, and a
\* select that finds stopCh closed again and again takes it some time.
WatcherFairSpec ==
  /\ WatcherSpec /\ Fairness
  /\ WF_watcherVars(Scrape) /\ WF_watcherVars(Emit)
  /\ SF_watcherVars(CollectEnds) /\ WF_watcherVars(FlushEnds)

-----------------------------------------------------------------------------
\* The gauges do not go on showing a pod that is gone: as long as the cache
\* catches up, they return to a pod that exists whenever there is one.  With no
\* pod left they keep the last value.
ShowsLiving ==
  [](pc # "error" /\ ~cut) => []<>(stopped \/ live = {} \/ gauge \in live)

\* After Stop all three goroutines end, although none looks at stopCh while it
\* reads a stream or emits a scrape.
AllStop == stopped ~> pc = "ended" /\ loops = {}
=============================================================================
