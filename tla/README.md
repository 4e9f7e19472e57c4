# Verification of aziron-pulse

aziron-pulse gives a user a *pulse*: a code-server pod in Kubernetes with a
volume, a claim and a service, a row in PostgreSQL, a quota and a time to live.
This directory holds TLA+ models of the service, TLC runs on small instances,
and proofs checked by TLAPS. Paths are relative to the repository.

The repository at this commit does not compile as it stands
(`cmd/main.go:175` calls `NewProxyHandler` with two arguments, it takes three).
The models describe the code as written; where it matters, the missing argument
is the nil port-forward manager that the handler's comment allows.

## 1. The system

### Components

| component | source | state | operations |
|---|---|---|---|
| HTTP handlers and ProvisionService | `internal/handlers`, `internal/service/provision_service.go` | the locals of one goroutine per request | ProvisionPod, DeletePod, UpdatePodActivity, and reads |
| TTLManager | `internal/service/ttl_manager.go` | the snapshot of expired rows of the sweep at hand | tick, cleanupPod, stop |
| Repositories and schema | `internal/repository`, `db/schema` | tables `quotas`, `pods`, `activities` | one SQL statement each, no transactions |
| Kubernetes managers | `internal/k8s/{namespace,volume,pod,service}_manager.go` | none; the cluster keeps it | create (AlreadyExists is success), delete (NotFound is success) |
| Process | `cmd/main.go`, `docker-compose.yml` | up, draining, down | start, SIGTERM, drain for at most 30 s, restart |
| PortForwardManager | `internal/k8s/portforward_manager.go` | map of forwards under an RWMutex | LocalPort, Stop, StopAll |
| MetricsWatcher | `internal/k8s/metrics_watcher.go` | resource version, cache of pod metadata, two gauges | watch loop, scrape, flush, Stop |
| Middleware and routes | `internal/middleware`, `cmd/main.go:177-217` | the context of each request | Enrich, Authenticate, the router |
| CostCalculator | `internal/telemetry/cost_calculator.go` | a price table | MatchInstanceTier, CalculateCosts |
| Telemetry, sampling, logging, PII filter | `internal/telemetry`, `internal/logging` | registries | emission |
| NetworkCollector | `internal/k8s/network_collector.go` | one gauge | a round over the nodes at every tick, Stop; constructed by nobody |
| AdaptiveSampler | `internal/telemetry/sampling.go` | counters | wired by nobody |

### How they interact

Handlers and the sweep run concurrently in one process and share nothing in
memory: they meet in the database and in the cluster. There is no lock, no
transaction and no version column, so that every pair of calls may be
interleaved with those of another goroutine. A handler's calls, its cleanup
calls included, carry the request's context; the sweep's carry the one that
`main` cancels on SIGTERM. Nothing is scanned or repaired at start.

### What is hard, and what makes it correct

* **Provision** makes five objects and a row in a fixed order and undoes them on
  error. Correct: a listed pod exists, an error path leaves nothing, the quota
  holds under concurrency.
* **Delete** removes three to four objects, ignoring errors, then the row.
  Correct: nothing is left once the row is gone, the log is complete.
* **The sweep** reads a snapshot, then bills, marks and removes each pod while
  handlers use and delete the same pods. Correct: it expires only idle pods,
  bills each once, comes back after any failure, and releases what it expired.
* **Quota rows** are created on first use by racing requests. Correct: one row.
* **Failures**: any call may fail, or take effect and report an error; the client
  may go away; the process may be killed, stopped or panic between any two calls.
* **Port forwards**: one dial under the write lock, while connections break at any
  time. Correct: one forward per pod, each can be stopped, nothing is stopped twice,
  every call returns; an entry that outlives its connection is not noticed.
* **Metrics watch**: a stream that breaks at any time and is resumed from the last
  version read. Correct: the cache loses no deletion and no pod, and catches up;
  the gauges, which all pods share, do not stay with a pod that is gone; Stop ends
  all three goroutines.
* **A request** passes routes in the order of their registration, two middlewares,
  and a handler that looks a row up, compares its owner and acts by the id alone
  some calls later. Correct: whatever others do in between, a user sees, reaches
  and changes only pods of his own; no route takes the requests of a narrower one.
* **The network collector** asks one node after the other. Correct: a node that
  fails costs the others nothing, what is added up for a pod is the egress of that pod,
  the gauge of a namespace shows the total of its pods, and Stop ends the loop.

`PROJECT.json` lists the hazards with their lines and the properties for them.

## 2. The modules

| module | models | state |
|---|---|---|
| `Runtime` | phase of the process, outcomes of calls, the bound on failures | `phase`, `faults`, `mishap` |
| `Cluster` | objects and namespaces in Kubernetes | `objects`, `namespaces` |
| `PodStore` | `pulse.pods`, `pulse.activities`: one operator per SQL statement | `pods`, `activities` |
| `QuotaStore` | `pulse.quotas`, UNIQUE with NULL, the foreign key | `defaults` |
| `ProvisionService` | the three kinds of request, one action per external call | `req` |
| `TTLManager` | the sweep, one action per external call | `sweep`, `billed` |
| `PulseServer` | composition, crash, SIGTERM, restart, clock; the properties | `stops` |
| `LeaseTable` | the abstract specification that `PulseServer` implements | `lease`, `owner`, `due`, `noticed` |
| `PulseClaims` | what docs and comments say and the code does not do | |
| `MCPulseServer` | constants for TLC | |
| `PortForwards` | the map of forwards, its lock, its callers, the goroutines of forwards | `forwards`, `holder`, `call`, `conn`, `port` |
| `ForwardTable` | the abstract specification that `PortForwards` implements | `table`, `asks`, `answer` |
| `MetricsWatch` | the watch loop and its cache against an API server that forgets versions | `rv`, `cache`, `pc`, `initial`, `pos`, ... |
| `MetricsWatcher` | the watch loop composed with the scrape and the flush | `scraped`, `gauge`, `loops` |
| `RequestPath` | routes, middlewares, handlers and proxy of one request among changing rows | `rows`, `req` |
| `NetworkCollector` | the loop of the collector, its rounds and the totals of an answer | `pc`, `listed`, `tried`, `body`, `metrics`, `gauge` |
| `MCRequestPath`, `MCNetworkCollector` | constants for TLC | |
| `PulseServerProofs` | proofs: types, ids and owners of `PulseServer` | |
| `ObjectProofs` | proofs: objects and log | |
| `AccountProofs` | proofs: quotas and bills | |
| `LeaseProofs` | proof: `PulseServer` implements `LeaseTable` | |
| `PortForwardProofs`, `MetricsWatchProofs`, `RequestPathProofs`, `NetworkCollectorProofs` | proofs about those modules | |

`Runtime` is extended by the stores; `ProvisionService` and `TTLManager` extend
the stores they use; `PulseServer` extends both, so that the composition shares
one copy of each variable. `MetricsWatcher` extends `MetricsWatch` with the two
goroutines that share its cache and its channel. The others stand alone:
`PortForwards` and `NetworkCollector` because the code constructs neither,
the watcher because it meets the rest only in the cluster. `RequestPath` sees of
the rest what a request can see of it: rows that come and go between its steps
(OthersAdd, OthersDelete); its ProvisionPod and DeletePod stand for the actions of
`ProvisionService` and keep the one row that each adds or takes away.

### From code to actions

A step is one call to PostgreSQL or Kubernetes with the local computation that
follows it; `req[h].pc` and `sweep.pc` name the call that comes next.
`ProvisionPod` is GetQuota, AddQuota, RegetQuota (GetOrCreateDefault), Count,
GetNamespace, AddNamespace, RegetNamespace (CreateOrGetNamespace), AddPV, AddPVC
(CreatePVC), AddPod, AddService, AddRow, LogCreated, and on its error paths
UndoService, UndoPod, UndoPVC, UndoPV. `DeletePod` with its handler is OwnDelete,
GetDelete, DelService, DelPod, DelPVC, DelPV, MarkDeleted, LogStopped. `ProxyToPod`
up to the proxy is OwnTouch, GetTouch, Touch. The sweep is Tick, then for each
row Bill, Mark, SweepDelService, SweepDelPod, SweepDelPVC, SweepDelPV, SweepLog.

A call ends "ok", "err" (no effect) or "lost" (effect, but an error to the
caller). With a cancelled context it ends "err" at once. `SweepDelPod` that ends
"ok" leads to the step "panic": `PodManager.DeletePod` dereferences the request
context (`pod_manager.go:297`), which nobody sets on the sweep's context; only
the error return comes before it. `Die` then ends the process.

In `PortForwards` a step is what happens under the lock without blocking, so that
only a dial holds the lock between two steps: Lookup (the read lock), Enter (the
write lock, second look, start of the dial), Ready and Failed (the select of
`start`), Stop, StopAll; Connect, Break and Close are the goroutine of a forward,
as `ForwardPorts` of client-go 0.35 behaves: it closes `readyCh` when it listens,
returns nil when told to stop and an error when the connection is lost. `port` is
what the last call of each caller returned. In
`MetricsWatch` a step is one call of Watch or one event read; a version is the
index of a change in `log`. `MetricsWatcher` adds Scrape (the list of the metrics
API), Emit (`emitPodMetrics` of one pod) and the two ends, CollectEnds, FlushEnds.

In `RequestPath` a request is Receive, Dispatch (the router), Enrich and
Authenticate in the order of `Chain`, and the steps of its handler: ProvisionPod;
ListPods; Lookup (`GetPod` of the service and the check of the owner, for four
handlers), then DeletePod, or Touch, Target and Relay of the proxy; Finish. In
`NetworkCollector` a step is Tick, ListNodes, AskNode, then GetFails or GetAnswers
with all that `parseAndEmitNetworkMetrics` computes, and one Emit for each pod.

`mishap` and `billed` are history variables and influence no step, but for the
choice of a fresh id. `mishap` is a set of pairs, a harm and a pulse: what of the pulse
no code will put right any more. A harm is one of the four objects, which stays behind;
"row", a row that does not tell of its objects; or "log", a missing record. Each action
says with `Leaves` what its call costs, and the properties except exactly that:

| step | what it leaves to nobody |
|---|---|
| a create that takes effect and reports an error | its object |
| AddPVC that fails | the volume: `CreatePVC` returns, and `ProvisionPod` deletes nothing |
| a delete call that fails, of a handler or the sweep (`LeftBy`) | its object; for a claim also the volume, which `DeletePVC` does not come to then, also when only the answer was lost |
| SweepDelPod that succeeds | claim and volume, since the panic is next |
| Mark whose answer was lost | all objects: the row is expired, and the sweep skips the pod |
| AddRow whose answer was lost | the row, whose objects are undone, and its record |
| MarkDeleted that fails; whose answer was lost | the row, whose objects are gone; the record |
| LogCreated, LogStopped that fail | the record |
| the end of the process (`Unfinished`) | the objects of a pulse without a live row that some goroutine had in hand, the row of a pulse being deleted, a record that was next |

A failure is charged to the one object it concerns: a failed delete of the service,
say, does not excuse the claim.

### Abstractions

* Time is the flag `lapsed` of a row, set by `Time` at any moment and cleared by
  UpdateActivity. A row already expired is not lapsed anew: nothing reads it.
* A status other than "pending" and "expired" is never written by the code.
* CPU, memory and storage of a request are one `size`; a kind of quota row admits
  a set of sizes. Costs are the fact of having been billed.
* Pulse ids are fresh when drawn and drawn on arrival (they are not used before
  the namespace step). An id that left no trace may be drawn again, which keeps
  the instances small. Object names are distinct for distinct ids.
* A user has one tenant. Custom quota rows exist from the start.
* GET requests and the reverse proxy are in `RequestPath` alone, and so is the
  order of routes and middlewares; in `PulseServer` a request begins at its handler.
* `RequestPath` has one request: requests meet only in the rows. A path is a
  sequence of segments, with one that names no pulse; a header that is not
  "Bearer" and a token counts as none. 404 and 405 of the router are one answer, as
  are the ways to fail of ProvisionPod. Of the telemetry context only the user is
  kept. CORS and the trace wrapper pass a request on.
* The metrics API lists the pods that exist; the gauges for processor and memory
  are set together, and are the pod they were set from. Which ready branch a Go
  select takes is any.
* In `NetworkCollector` a pause or init container is a flag of its series, and the
  ratio of external traffic is a factor of two (0.2, in tenths). Stop and the end of the
  context are one event. The texts of answers and their parser are left out.
* lib/pq reports the error of an INSERT ... RETURNING at the query itself, so that
  `rows.Next()` without `rows.Err()` loses none.
* The order of a snapshot (by expires_at) is any order. The 30 seconds of
  Shutdown may end at any time.
* A port-forward record is used again once nobody knows the forward and its
  goroutine is gone (`Free`); `GetPorts` does not fail after `readyCh` is closed.
* Versions count the changes of the watched pods alone; a real version also counts
  changes of other objects, so that it may expire although no pod changed. The
  server sends the pods of an initial list in any order. A Watch that fails
  outright is tried again and changes nothing.
* One process: `docker-compose.yml` runs one replica.

## 3. What is checked

The runs use module `MCPulseServer` unless the table names another. Bounds: `MaxFaults` failures of calls and
disconnects, `MaxStops` crashes and SIGTERMs from outside (panics are not
bounded: the code causes them); `Conns` forwards at a time;
`MaxRev` changes of pods; `MaxReceived` and `MaxSeries` receiving and transmitting series of an answer.

| run | instance | properties | states |
|---|---|---|---|
| Failures | 1 pulse, 2 handlers, 2 sizes, 2 faults or 1 and 1 stop (`MCTwoMishaps`) | TypeOK, Backed, NothingForgotten, AuditComplete, BilledOncePerFailure | 775 000 |
| Sweep | 2 pulses, a quota of 2, 1 handler, 1 fault | Backed, NothingForgotten, BilledOncePerFailure, ImplementsLeases | 442 000 |
| Users | 3 pulses, 2 users, 2 handlers, 1 fault, requests only | OwnRowsOnly, QuotaBound, QuotaRowBound, ImplementsLeases | 1 104 000 |
| Progress | 2 pulses, a quota of 2, 1 handler, 1 fault or 1 stop, fair, a row asked for only while alone | ReapedOrUsed, Answered | 89 000 |
| PortForwards (`PortForwards`) | 2 pods, 2 callers, 2 forwards, fair | TypeOK, OneForward, Reachable, EntryFits, Returns, ImplementsTable | 24 000 |
| MetricsWatcher (`MetricsWatcher`) | 2 pods, 3 changes, fair | WatcherTypeOK, NoGhosts, NoneMissed, CatchesUp, ShowsLiving, AllStop | 101 000 |
| RequestPath (`MCRequestPath`) | 2 pulses, 2 users, 3 methods, 19 paths, 5 kinds of token in header and URL | TypeOK, OwnPodsOnly, OnlyHeartbeatShadowed, ChangesOwnOnly | 42 000 |
| NetworkCollector (`MCNetworkCollector`) | 2 nodes, 6 series, 2 of them in an answer, fair | TypeOK, AllTried, PodTotals, Ends, KeepsCollecting | 30 000 |

Why these are enough: two handlers and the sweep are the three actors that can
meet on one pulse; two pulses make a snapshot with a second element that waits
while the first is cleaned up; two faults are a failure and a failure of its
cleanup; one stop falls into every step of a sweep and of a request, after a failure or
without one; the sweep's own panics end the process in every run that has the sweep. A snapshot of two
needs a quota of two, since a user can have but one pod under the default of one: Sweep
and Progress give their user a custom quota. In Progress one pod waits in the snapshot
while the sweep panics over the other. To keep its temporal properties within reach, a
request to use or delete a pod arrives only while its row is the only one
(`NextFew`): with two rows the owner does not take from the sweep what it has to reap.
Three pulses with a default quota of one, or a custom one of two, and two handlers let
the overrun reach its bound, with a failure anywhere on the way. Two
callers are one that dials and one that waits, for the same pod or another; two
forwards are an old one and a new one of a pod, or one of each pod. Three changes
let a pod come, go and come again while the watch is broken, or two pods come in
one order and be listed in the other. Two users with a pod each, or one with both,
are all the ways in which a request meets rows; every route is asked for with each
method, with an id that has a row, had one, has none, or is none. Two nodes are one that
fails and one that answers; two series are two containers of one pod or two pods.
Handlers, pulse ids and users are permuted in the safety runs, which mention none by
name; the runs with liveness have no symmetry.

* **Backed**: a pod listed as pending has its volume, claim, pod and service, whatever
  call fails. Excepted: its owner's DELETE is under way, or its row is wrong for good
  ("row" above).
* **NothingForgotten**: an object has a pending row, or a goroutine that will still come
  to it, or is one of those in the table above. It does not say that nothing is ever
  left: the volume of a failed claim and what the sweep's panic leaves behind are.
  It says that nothing else is, object by object.
* **AuditComplete**: every pod was logged as created, every deleted one as stopped, or a
  handler is about to do it. A failed log call, whose error the code ignores, is excepted,
  and nothing is said of the record of an expiry, which the sweep's panic precedes.
* **BilledOncePerFailure**: a pod is billed at most once more per failure or stop,
  and an expired pod has been billed.
* **QuotaBound**: active pods and admitted provisions stay below the quota plus
  the number of handlers.
* **QuotaRowBound**: a user's quota rows are at most as many as there are handlers,
  and one more per failure: `GetOrCreateDefault` inserts a row when two first
  requests race, and also when its read failed.
* **OwnRowsOnly**: past the ownership check, a handler acts on a row of its user.
* **ImplementsLeases**: the rows behave as leases (granted below a limit, expired
  only after being noticed due, never held again); the limit is the quota plus
  the other handlers.
* **ReapedOrUsed**: a pod whose time is up is expired, used or deleted, also when it was
  in the snapshot of a sweep that panicked over another pod.
* **Answered**: every request ends.
* **OneForward**, **Reachable**: a pod has one running forward that was not told to
  stop, and it is in the map or still with the caller that dials it.
* **EntryFits**: an entry is the forward of its own pod, was ready, and its channel
  is open, so that no Stop closes it again.
* **Returns**: if no dial hangs for ever, every call of the manager returns. The
  condition is part of the property: `start` has no timeout.
* **ImplementsTable**: callers see one table on which each call happens at one moment,
  in spite of the two locks and the dial between the look and the entry: LocalPort
  returns what the table has then, and opens a forward or fails only when it has none.
* **NoGhosts**: a cached pod that is gone has its Deleted event still to come.
* **NoneMissed**: a pod that is not cached has an event still to come, unless a
  watch broke off within its initial events.
* **CatchesUp**: with no version expired and no initial events lost, the cache is
  in the end what the cluster holds.
* **ShowsLiving**: with the same condition, the gauges return again and again to a pod
  that exists, while there is one. When the last pod goes they keep its value.
* **AllStop**: after Stop all three goroutines end, although the watch loop looks at
  the channel only between two streams and the scrape only between two scrapes.
* **OwnPodsOnly**: a pod that a request is shown, or is relayed to, belongs to the user
  whose token came with it, in the header or, without one there, in the URL.
* **ChangesOwnOnly**: a step of a request changes only rows of that user.
* **OnlyHeartbeatShadowed**: of two routes that fit, the one that names the path more
  closely gets the request, but for the heartbeat.
* **AllTried**: a round deals with every node it listed.
* **PodTotals**: what is added up for a pod is the whole egress of that pod, as a
  definition by sets says, not as the code adds it up. Which total the gauge should
  show is another question: it does not show what its Help says (see below).
* **Ends**, **KeepsCollecting**: unless a node never answers, the loop goes on to its
  next round whatever fails, and ends after Stop.

Each property of a passing run has a mutant in `PROJECT.json`: a plausible bug in
one definition (a dropped check, a wrong order, an off-by-one) that violates it.
The mutated operators stand before their originals, marked `Mutant`.

### Fairness

`FairSpec` assumes weak fairness of each handler's own steps, of the sweep, and
of Die, Exit and Restart. The Go scheduler runs every runnable goroutine, and
every call ends, with an answer or an error of its connection; the ticker goes
on ticking; the panic unwinds; `main` returns from Shutdown after thirty seconds
at most; `docker-compose.yml:32` says `restart: unless-stopped`. Clients, the
clock and failures owe nothing. Fairness of calls is per goroutine and not per
outcome: a call may fail as often as the bound allows.

`PortForwards` assumes strong fairness of each caller that waits for the lock
(`sync.RWMutex` lets every waiter in: its mutex has a starvation mode, and readers
that waited for a writer go before the next one) and weak fairness of the
goroutines that have something to do; a dial need not end and a connection need
not break. `MetricsWatcher` assumes weak fairness of the loop, and of the end of a
stream (the server ends each watch after its request timeout), and strong fairness
of reading: streams are opened again and again, and they do not all end before
their first event. Its two other loops tick on, and strong fairness of their ends
says that a select which finds the channel closed at every turn takes it some time.
`NetworkCollector` assumes the same of its loop, and nothing of the answer of a node:
`http.Get` has neither a deadline nor the context.

### What the documentation says and the code does not do

Each run below checks one statement, of `PulseClaims` or, the last one, of
`MetricsWatch`, and violates it.

| run | statement | what happens |
|---|---|---|
| ExpiredGetsReleased | `README_PROVISIONING.md:10` automatic cleanup of inactive pods | the sweep panics after it deleted the pod; claim and volume stay, the row is never returned again |
| QuotaRespected | `README_PROVISIONING.md:9,132` pod count limits per user | concurrent provisions pass the same count |
| UndoneOnlyAfterFailure | `README_PROVISIONING.md:13,132` default quotas, multi-tenancy | the foreign key rejects the pod of a tenanted user with a default row |
| ReconnectsGracefully | `metrics_watcher.go:327` the Watch API "will handle reconnects gracefully" | a forgotten version is named again for ever; pods that were not read when an initial list broke off are skipped |

Seen while modelling, without a run: `README_PROVISIONING.md:205` says that pods are
deleted after 2 hours of inactivity, and the sweep also expires a pod that was used
between its query and the pod's turn (`Mark` of `TTLManager` looks at neither
expires_at nor status); `provision_service.go:210` says "Cleanup on failure", and the volume of a
claim that cannot be created stays (`AddPVC`), as does everything when the client went
away, since the cleanup calls carry the cancelled context of the request;
`pulse_metrics.go:148` describes the gauge of the network collector as "Total external
network egress in bytes" by tenant, user and namespace, and each pod of the namespace
overwrites it with its own total (`Emit`), so that it shows the pod that came last;
`network_collector.go:96` says "Stop stops the network collector", and a node that
never answers holds the loop in `http.Get`, which has no deadline;
`README.md:57` lists `POST /pulse/heartbeat`, which the
prefix of the proxy takes and answers 404 (OnlyHeartbeatShadowed excepts it);
`request_context.go:29` says that user information comes "from auth middleware
context", and Enrich runs before Authenticate, so that the telemetry context names
nobody; `portforward_manager.go:49` promises the port of an
"active port-forward", and LocalPort also returns that of an entry whose
connection has ended; `quota_repository.go:61` handles a race
"quota was created between get and create" that never shows as an error, because
PostgreSQL takes the NULL tenants of the two rows as distinct (QuotaRowBound says
how many rows come of it); `pod_manager.go` sets neither the label `tenant_id` nor the
annotation `user_email` that the metrics watcher looks for, and the network
collector fills neither label: one gauge stands for all pods of a namespace.

## 4. What is proved

Assumptions on the constants: `IdsAssumption`, `FaultsAssumption`,
`NamespaceAssumption`, `QuotaAssumption`, `StopsAssumption`,
`PortForwardsAssumption`, `MaxRevAssumption`, `NoneAssumption`,
`RequestPathAssumption`, and of `NetworkCollector` `SeriesAssumption`,
`MaxSeriesAssumption` and its own `NoneAssumption`, each in the module that declares the
constants. They ask for finite sets of ids and handlers, at least one handler, `None`
distinct from ids, users and namespaces, and the types of the rest. The nodes of the
collector, its series, and the forwards of the port-forward manager may be any sets.

* `TypeCorrect == Spec => []TypeOK`. TypeOK is inductive by itself. It is proved
  per action, grouped as in Next; the record `req[h]` is the work.
* `QuotaOverrun == Spec => []QuotaBound`. QuotaBound alone is not inductive: when
  a handler passes the count it must be known that its limit is one of a row its
  user can have. `QuotaInv` adds `LimitFits` (a handler at the count of a custom
  row belongs to a customised user). The argument: a handler is admitted when
  fewer than the limit are active, and the others admitted are at most all other
  handlers; the insert moves a handler from admitted to active; every other step
  shrinks both. The cardinality lemmas about adding and removing one element
  carry it.
* `QuotaWhenSequential`: with one handler the quota itself holds
  (`QuotaRespected`, which the run of that name refutes for two). No passing run
  repeats it: there the comparison of one count with the limit is all that could fail.
* `FewQuotaRows == Spec => []QuotaRowBound`. `RowsInv` counts with the rows the handlers
  that are about to insert one and whose context lives. Such a handler found no row,
  and then there are at most as many of them as handlers, or its read failed, which is
  a failure; the insert turns it into a row.
* `OwnRowsTouched == Spec => []OwnRowsOnly`. The invariant `IdInv` speaks of the ids: a
  handler before its insert has an id without a row (RowLater), and no other request
  has that id (OneMaker); a request for a row finds the row inserted (RowThere); past
  the check the row is the user's (OwnRow), for no statement changes the user of a row.
* `AlwaysBacked`, `NothingLeft`, `LogComplete`: Backed, NothingForgotten and AuditComplete
  follow from one invariant, `ObjInv`, with the same exceptions as the properties. It
  says of each step of a provision which objects are there before it: exactly those that
  InHand gives (HandlerFits). Of an undoing, a deletion or the sweep it says that the
  objects which were not abandoned (`Loose`) are among those the steps to come will
  remove (HandlerFits, SweepFits): a failed call takes its own object out of `Loose`
  (DeleteLoose), which is why it excuses no other. That an object stays attended to when the
  goroutine at work on it hands over or ends follows from these, and it uses IdInv: the
  maker of a pulse is alone with it until the insert. Deletions may be many at once, and
  meet the sweep: what each step takes away only helps the others (RemoverInv).
* `BilledOnce == Spec => []BilledOncePerFailure`. `BillInv` says that a pod in the snapshot
  can still be billed without passing the bound, and that a mark that fails has cost a
  failure by the time the row can be read as due again. A process that is draining has
  paid beforehand: its mark fails without a new failure, but SIGTERM was a stop.
* `TableOfLeases == Spec => ImplementsLeases`, the refinement that two runs check. Every
  step is one of five things done to one row, or leaves the rows alone and shrinks or
  refreshes the snapshot (StepRows). An insert is a Grant because the row is absent
  (IdInv) and the inserting handler is one of those that QuotaBound counts; a mark is an
  Expire because the pod is one the snapshot held.
* `ForwardTypes`, `AlwaysReachable`, `EntriesFit`, `SingleForward`: TypeOK, Reachable
  and EntryFits are proved together, with what they need: the caller that dials is the one with
  the lock (DialerHolds), its forward was not stopped and its pod has no entry
  (DialFits), a goroutine that reported an error has ended (ErrorEnded), a forward
  belongs to a pod (HasPod). The critical steps are Ready, where DialFits rules out
  that an entry is overwritten, and Cut, where the entries of two pods differ because
  each forward knows its pod. OneForward follows without induction.
* `TableOfForwards == Spec => ImplementsTable`, the second refinement. The call waits in
  the table until it returns (`Asks` reads off its record for what). A call that found no
  entry and goes on to the write lock, the begin of a dial and the steps of a forward's
  goroutine are stutters (UnseenTable); Lookup and the second look of Enter are Find;
  Ready is Open, because DialFits says that the pod still has no entry and HasPod and
  EntryFits that the new forward is no other pod's; Failed and a set-up that fails are
  Fail, for the same reason; Stop and StopAll are Drop. Without the second look
  DialFits does not hold, and Ready would overwrite what another caller was given.
* `NoGhostStays`: NoGhosts is inductive with three facts: a pod that was changed and
  is gone was deleted since (GoneDeleted, about the server's log), the version kept
  is not ahead of the stream and is unset only while the cache is empty (RvFits), and
  a listed pod that is gone is deleted later in the stream (InitialFits). RvFits is
  why a break is harmless; its second half is why a watch that begins anew is.
  It is proved of the whole watcher: `ImplementsWatch` shows that the watcher with
  its scrape and its flush takes only steps of the watch loop or leaves its variables
  alone, and `WatcherTypeCorrect` that all keep their types.
* `NothingMissed`: NoneMissed needs that a pod that exists was added, and added again
  after each of its deletions (LiveChanged): its last Added or Modified event, or its
  place in the list, then lies ahead of the stream as long as no break cut a list short.
* `RequestTypes`, `OnlyOwnPods`, `OnlyOwnChanged`: TypeOK with five facts. A request in
  the chain has a middleware left (InChain); nothing is shown before the answer
  (NotYetShown); the user in the context is the one whose token came (UserOfToken);
  a request that is past the check of the owner aims at a row of its user (AimsAtOwn);
  what was shown is the user's (ShownIsOwn). The last two survive what others do
  because a row never changes its owner: ids are fresh. What each route needs of the
  table is HandlerType: the first route that fits exists when one fits, and names a
  handler.
* `RoutesInOrder == Spec => []OnlyHeartbeatShadowed`. Two parts. About the table: two
  routes that fit one path (FitsTwice, by what each fits: FitsPublic, FitsProtected)
  are the same, or the prefix of the proxy with the heartbeat (PrefixNotNarrower), so that
  the first of those that fit is the narrowest (FirstIsNarrowest). About the steps: HandlerFits,
  that the handler of a request stays the one that the router chose for its method
  and path, through the middlewares and the rows that others change.
* `CollectorTypes`, `EveryNodeTried`, `TotalsOfPods`: TypeOK, AllTried and PodTotals.
  AllTried is not inductive: when the nodes cannot be listed the loop goes back from "list"
  to "select", so that RoundKept says of "list" what AllTried says of "select". PodTotals survives
  the loop over the map because entries only go; that an answer establishes it is the
  statement about data: the code adds up entry by entry in the order of the
  series (`PodMetrics`), and `Egress` is a sum over a set in an order of CHOOSE's own
  (ShowsEgress). The lemmas below it: what one series does to the entry of a pod
  (AddsVal), that the fold over a prefix of the series is the sum over that prefix
  (FoldedTotals), and that a sum over a finite set does not depend on the order in which
  its elements are taken (SumWithout, SumsAgree). The proof is for any number
  of series in an answer, which only TLC bounds; a node that fails leaves the gauge alone.

The library's induction theorems take an operator, which the provers cannot
instantiate. What the folds of `NetworkCollector` compute is proved without them:
strict inclusion is well founded on the subsets of a finite set, so that a set of
counterexamples has a smallest one (SmallestSubset), and the functions that a fold
is defined by are values (Solves), of which existence (FoldExists) and uniqueness
(FoldsAgree) are shown that way.

Only model-checked: liveness (ReapedOrUsed, Answered, Returns, CatchesUp, ShowsLiving,
AllStop, Ends, KeepsCollecting), which rests on fairness and ENABLED and is out of the
prover's reach. The four statements that the code does not keep are refuted by TLC and not
by a proof.

## 5. What is not modelled, and the plan

Done: the provision and its undoing, the sweep, the process, the path of a request,
port forwards, the metrics watcher, the network collector; proved: every safety
invariant and action property that a run checks, and the refinements of the lease table and
of the table of forwards.

Next, what liveness rests on and can be said of single steps: that a request which is not
answered and a sweep which is not at its tick always have a step that is not a failure
(stated without ENABLED, by the states each guard admits); that the steps of a request
only lead forward, by a measure that bounds their number; a specification of the
cache of the watch loop as a view of the cluster that lags behind.

### Not modelled

* **Object names** are taken as distinct. They keep eight hexadecimal digits of the
  pulse id, and AlreadyExists counts as success, so that two pulses with the same
  eight digits would share their objects.
* **CostCalculator**: arithmetic on floating-point prices for counters that nothing
  reads back. That a pod is billed, and how often, is in `TTLManager`.
* **AdaptiveSampler**, tracing, the registry of metrics, Pyroscope: set-up of
  exporters and random sampling, without protocol state; the sampler is not wired.
* **Logging and the PII filter**: string rewriting on the way to a log.
* **Database connection, Kubernetes client, packaging**: set-up of libraries.
* **ListActivities**, QuotaRepository.Update, DeleteNamespace, ListPods, GetPodStatus
  and GetNodePort of the managers, GetStats: no route leads to them, or nobody calls
  them.
