------------------------------ MODULE Runtime ------------------------------
(***************************************************************************)
(* What every step of the pulse server shares: the phase of its one        *)
(* process, and the fate of the calls it makes to PostgreSQL and to the    *)
(* Kubernetes API.                                                         *)
(*                                                                         *)
(* A call is one atomic step with one of three outcomes: it takes effect   *)
(* and succeeds ("ok"), it fails without effect ("err"), or it takes       *)
(* effect and the caller sees an error all the same ("lost": the answer    *)
(* timed out, the connection was reset).  Failures that the environment    *)
(* injects are counted and bounded by MaxFaults.  A call made with a       *)
(* cancelled context fails at once, without effect and without counting:   *)
(* database/sql and client-go check the context before they send.          *)
(***************************************************************************)
EXTENDS Naturals, FiniteSets

CONSTANTS PulseIDs,   \* the UUIDs that uuid.New() may return
          Users,      \* the user ids a token may carry
          Handlers,   \* HTTP requests that the server handles at a time
          None,       \* no pulse, no user
          MaxFaults   \* bound: external failures in one behaviour

ASSUME IdsAssumption ==
  /\ IsFiniteSet(PulseIDs)
  /\ IsFiniteSet(Handlers) /\ Handlers # {}
  /\ None \notin PulseIDs \cup Users
ASSUME FaultsAssumption == MaxFaults \in Nat

VARIABLES
  phase,    \* "up", "draining" (between SIGTERM and exit) or "down"
  faults,   \* external failures so far, never more than MaxFaults
  mishap    \* history: what of which pulse no code will put right any more

runtimeVars == <<phase, faults, mishap>>

Phases == {"up", "draining", "down"}
Outcomes == {"ok", "err", "lost"}

\* What a failure may leave wrong about a pulse: one of its four objects stays
\* behind, its row does not tell of its objects, its log is not complete.
Harms == {"pv", "pvc", "pod", "service", "row", "log"}

RuntimeTypeOK ==
  /\ phase \in Phases
  /\ faults \in 0..MaxFaults
  /\ mishap \subseteq Harms \X PulseIDs

RuntimeInit ==
  /\ phase = "up"
  /\ faults = 0
  /\ mishap = {}

\* The outcome o of a call takes effect outside the process.
Takes(o) == o # "err"

\* A failure the environment injects, within the bound.
Fault ==
  /\ faults < MaxFaults
  /\ faults' = faults + 1

\* A call with context ctx ("live" or "cancelled") may end with outcome o.
Call(ctx, o) ==
  IF ctx = "cancelled"
  THEN o = "err" /\ UNCHANGED faults
  ELSE IF o = "ok" THEN UNCHANGED faults ELSE Fault

\* A query changes nothing outside, so that only success and failure differ.
Query(ctx, o) == o # "lost" /\ Call(ctx, o)

\* The step leaves the harms ws of pulse p to nobody.
Leaves(ws, p) == mishap' = mishap \cup (ws \X {p})

\* The harms ws, when b holds.
When(b, ws) == IF b THEN ws ELSE {}
=============================================================================
