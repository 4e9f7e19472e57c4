--------------------------- MODULE MCPulseServer ---------------------------
(***************************************************************************)
(* Small instances of PulseServer for TLC.                                 *)
(***************************************************************************)
EXTENDS PulseClaims, TLC

MCNamespaceOf == [u \in Users |-> CHOOSE n \in Namespaces : TRUE]
MCMaxPods == [k \in QuotaKinds |-> IF k = "custom" THEN 2 ELSE 1]
MCAdmits == [k \in QuotaKinds |-> IF k = "custom" THEN Sizes ELSE {"small"}]

\* Requests alone, without the clock, the sweep and the end of the process.
RequestsOnly == Init /\ [][\E h \in Handlers : Service(h) \/ Client(h)]_vars

\* A row is asked for only while it is the only one, and either a call fails or the
\* process is stopped, once: what is left of the second pod is for the sweep.
AsksForRow(h) == req[h].pc = "idle" /\ req'[h].pc \in {"ownDelete", "ownTouch"}
NextFew ==
  /\ Next
  /\ faults' + stops' <= 1
  /\ Cardinality({p \in PulseIDs : Known(p)}) # 1 => \A h \in Handlers : ~ AsksForRow(h)
FewFairSpec == Init /\ [][NextFew]_vars /\ Fairness

\* Failures and stops together, in one behaviour.
MCTwoMishaps == faults + stops <= 2

\* Handlers and pulse ids are interchangeable in every safety property.
MCSymmetry == Permutations(Handlers) \cup Permutations(PulseIDs)
=============================================================================
